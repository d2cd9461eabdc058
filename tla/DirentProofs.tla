---------------------------- MODULE DirentProofs ----------------------------
(***************************************************************************)
(* Proofs about Dirent for every value of its constants: the type         *)
(* invariant, and that find handles are released exactly once             *)
(* (HandleDiscipline).  Both follow from the inductive invariant IInv,    *)
(* which adds to them the handle bookkeeping of HandleBookkeeping.         *)
(***************************************************************************)
EXTENDS Dirent, TLAPS

(* translate_windows_error_to_errno yields an errno of the model. *)
LEMMA TranslateType ==
  \A w \in WinErrors : TranslateError[w] \in Errnos
BY DEF TranslateError, WinErrors, Errnos

LEMMA FindFirstErrorType ==
  \A d : FindFirstError(d) \in WinErrors
BY DEF FindFirstError, WinErrors

(* A successful FindFirstFileW enumerates a non-empty sequence of entries. *)
LEMMA FindFirstSnap ==
  ASSUME NEW d \in Listings \cup EnvStates, FindFirstOK(d)
  PROVE  d \in Seq(Entries) /\ Len(d) >= 1
<1>1. d \in Seq(Entries)
  BY DirentAssumption DEF FindFirstOK
<1>2. QED
  BY <1>1 DEF FindFirstOK

(* The two updates readdir's loop makes to the find data keep it a DIR.  *)
LEMMA DirRecEnter ==
  ASSUME NEW d \in DirRec, NEW j \in Nat
  PROVE  /\ [d EXCEPT !.cur = j, !.first = FALSE] \in DirRec
         /\ [d EXCEPT !.cur = j, !.first = FALSE].cur = j
         /\ [d EXCEPT !.cur = j, !.first = FALSE].handle = d.handle
         /\ [d EXCEPT !.cur = j, !.first = FALSE].snap = d.snap
BY DEF DirRec

LEMMA DirRecAdvance ==
  ASSUME NEW d \in DirRec
  PROVE  [d EXCEPT !.current_position = @ + 1] \in DirRec
BY DEF DirRec

(* One pass of readdir's loop keeps the stream well formed: same handle   *)
(* and enumeration, find data still an entry of it, and it returns an     *)
(* entry or nullptr.                                                       *)
LEMMA IterateType ==
  ASSUME NEW d \in DirRec, d.cur \in 1..Len(d.snap), NEW e \in Errnos
  PROVE  LET r == Iterate(d, e) IN
           /\ r.d \in DirRec
           /\ r.d.handle = d.handle
           /\ r.d.snap = d.snap
           /\ r.d.cur \in 1..Len(r.d.snap)
           /\ r.err \in Errnos
           /\ r.again \in BOOLEAN
           /\ r.ret \in Entries \cup {NoEntry}
<1> DEFINE i  == IF d.first THEN d.cur ELSE d.cur + 1
           d1 == [d EXCEPT !.cur = i, !.first = FALSE]
<1>1. d.snap \in Seq(Entries)
  BY DEF DirRec
<1>2. CASE d.end_reached
  BY <1>2 DEF Iterate
<1>3. CASE ~d.end_reached /\ ~d.first /\ d.handle = Invalid
  BY <1>3, TranslateType DEF Iterate, WinErrors
<1>4. CASE ~d.end_reached /\ ~(~d.first /\ d.handle = Invalid)
           /\ ~d.first /\ d.cur >= Len(d.snap)
  BY <1>4 DEF Iterate, DirRec
<1>5. CASE ~d.end_reached /\ ~(~d.first /\ d.handle = Invalid)
           /\ ~(~d.first /\ d.cur >= Len(d.snap))
  <2>1. i \in 1..Len(d.snap)
    BY <1>5 DEF DirRec
  <2>2. d.snap[i] \in Entries
    BY <1>1, <2>1
  <2>4. d1 \in DirRec /\ d1.cur \in 1..Len(d1.snap) /\ d1.handle = d.handle
        /\ d1.snap = d.snap
    <3>1. i \in Nat
      BY <2>1
    <3>2. QED
      BY <2>1, <3>1, DirRecEnter
  <2>9. [d1 EXCEPT !.current_position = @ + 1] \in DirRec
    BY <2>4, DirRecAdvance
  <2>5. CASE d.snap[i] \in {Dot, DotDot}
    BY <2>4, <2>5, <1>5 DEF Iterate
  <2>6. CASE d.snap[i] \notin {Dot, DotDot} /\ d.snap[i] \in LongNames
    BY <2>4, <2>6, <1>5 DEF Iterate, Errnos
  <2>7. CASE d.snap[i] \notin {Dot, DotDot} /\ d.snap[i] \notin LongNames
    BY <2>2, <2>4, <2>9, <2>7, <1>5 DEF Iterate
  <2>8. QED
    BY <2>5, <2>6, <2>7
<1>6. QED
  BY <1>2, <1>3, <1>4, <1>5

-----------------------------------------------------------------------------
THEOREM InitIInv == Init => IInv
<1> SUFFICES ASSUME Init PROVE IInv
  OBVIOUS
<1>1. TypeOK
  <2>1. dirp \in DirRec
    <3>1. <<>> \in Seq(Entries)
      OBVIOUS
    <3>2. Invalid \in 0..MaxHandles
      BY DirentAssumption DEF Invalid
    <3>3. QED
      BY <3>1, <3>2 DEF Init, NewDir, DirRec
  <2>2. done \in [op: Ops, arg: Int]
    BY DEF Init, Ops
  <2>3. disk \in Listings \cup EnvStates
    BY DEF Init
  <2>4. closes \in [1..MaxHandles -> Nat]
    BY DEF Init
  <2>5. /\ changes \in 0..MaxChanges /\ nextH \in 0..MaxHandles
        /\ arg \in Seeks /\ left \in 0..MaxLoc
    BY DirentAssumption DEF Init, Seeks
  <2>6. /\ open \in BOOLEAN /\ errno \in Errnos
        /\ pc \in {"idle", "readdir", "seekdir", "seekend"}
        /\ told \subseteq Int
    BY DEF Init, Errnos
  <2>7. QED
    BY <2>1, <2>2, <2>3, <2>4, <2>5, <2>6 DEF TypeOK, Results
<1>2. HandleBookkeeping
  BY DEF Init, NewDir, HandleBookkeeping, Invalid
<1>3. HandleDiscipline
  BY DEF Init, HandleDiscipline
<1>4. QED
  BY <1>1, <1>2, <1>3 DEF IInv

-----------------------------------------------------------------------------
(* The calls that touch neither the find handle nor the enumeration.      *)
LEMMA TellDirIInv == IInv /\ TellDir => IInv'
<1> SUFFICES ASSUME IInv, TellDir PROVE IInv'
  OBVIOUS
<1>1. Tell(dirp) \in Int
  BY DEF IInv, TypeOK, DirRec, Tell
<1>2. TypeOK'
  BY <1>1 DEF IInv, TypeOK, TellDir, Ops, Results
<1>3. HandleBookkeeping' /\ HandleDiscipline'
  BY DEF IInv, HandleBookkeeping, HandleDiscipline, TellDir
<1>4. QED
  BY <1>2, <1>3 DEF IInv

LEMMA NullCallIInv == IInv /\ NullCall => IInv'
<1> SUFFICES ASSUME IInv, NullCall PROVE IInv'
  OBVIOUS
<1>1. TypeOK'
  BY DEF IInv, TypeOK, NullCall, Ops, Errnos, Results
<1>2. HandleBookkeeping' /\ HandleDiscipline'
  BY DEF IInv, HandleBookkeeping, HandleDiscipline, NullCall
<1>3. QED
  BY <1>1, <1>2 DEF IInv

LEMMA ReadDirIInv == IInv /\ ReadDir => IInv'
<1> SUFFICES ASSUME IInv, ReadDir PROVE IInv'
  OBVIOUS
<1>1. TypeOK'
  BY DEF IInv, TypeOK, ReadDir
<1>2. HandleBookkeeping' /\ HandleDiscipline'
  BY DEF IInv, HandleBookkeeping, HandleDiscipline, ReadDir
<1>3. QED
  BY <1>1, <1>2 DEF IInv

LEMMA ChangeDiskIInv == IInv /\ ChangeDisk => IInv'
<1> SUFFICES ASSUME IInv, ChangeDisk PROVE IInv'
  OBVIOUS
<1>1. disk' \in EnvStates /\ changes' \in 0..MaxChanges
  BY DirentAssumption DEF IInv, TypeOK, ChangeDisk
<1>2. TypeOK'
  BY <1>1 DEF IInv, TypeOK, ChangeDisk
<1>3. HandleBookkeeping' /\ HandleDiscipline'
  BY DEF IInv, HandleBookkeeping, HandleDiscipline, ChangeDisk
<1>4. QED
  BY <1>2, <1>3 DEF IInv

LEMMA StutterIInv == IInv /\ UNCHANGED vars => IInv'
BY DEF IInv, TypeOK, HandleBookkeeping, HandleDiscipline, vars, DirRec, Tell

-----------------------------------------------------------------------------
(* FindClose on the stream's handle, if valid, adds one to its count.     *)
LEMMA CloseHandleStep ==
  ASSUME IInv, open, CloseHandle(dirp.handle)
  PROVE  /\ closes' \in [1..MaxHandles -> Nat]
         /\ \A h \in 1..MaxHandles :
               closes'[h] = IF h = dirp.handle THEN closes[h] + 1 ELSE closes[h]
<1>1. CASE dirp.handle = Invalid
  BY <1>1 DEF IInv, TypeOK, CloseHandle, Invalid
<1>2. CASE dirp.handle # Invalid
  <2>1. dirp.handle \in 1..MaxHandles
    BY <1>2 DEF IInv, TypeOK, DirRec, Invalid
  <2>2. QED
    BY <1>2, <2>1 DEF IInv, TypeOK, CloseHandle
<1>3. QED
  BY <1>1, <1>2

(* After that FindClose every handle opened so far is closed once.        *)
LEMMA ClosedAfterClose ==
  ASSUME IInv, open, CloseHandle(dirp.handle), NEW h \in 1..nextH
  PROVE  closes'[h] = 1
<1>1. h \in 1..MaxHandles /\ closes[h] \in Nat
  BY DirentAssumption DEF IInv, TypeOK
<1>2. closes[h] <= 1 /\ (closes[h] = 0 <=> dirp.handle = h)
  BY DEF IInv, HandleDiscipline
<1>3. closes'[h] = IF h = dirp.handle THEN closes[h] + 1 ELSE closes[h]
  BY <1>1, CloseHandleStep
<1>4. QED
  BY <1>1, <1>2, <1>3

LEMMA DirRecInvalidate ==
  ASSUME NEW d \in DirRec
  PROVE  /\ [d EXCEPT !.handle = Invalid] \in DirRec
         /\ [d EXCEPT !.handle = Invalid].handle = Invalid
         /\ [d EXCEPT !.handle = Invalid].cur = d.cur
         /\ [d EXCEPT !.handle = Invalid].snap = d.snap
BY DirentAssumption DEF DirRec, Invalid

(* What the body of rewinddir leaves on an open stream: a valid stream    *)
(* whose handle, if any, is the one open handle, all others closed once.  *)
RewindPost ==
  /\ dirp' \in DirRec /\ dirp'.cur \in 1..Len(dirp'.snap)
  /\ nextH' \in 0..MaxHandles /\ dirp'.handle <= nextH'
  /\ closes' \in [1..MaxHandles -> Nat]
  /\ \A h \in 1..MaxHandles : h > nextH' => closes'[h] = 0
  /\ \A h \in 1..nextH' : closes'[h] <= 1 /\ (closes'[h] = 0 <=> dirp'.handle = h)
  /\ errno' \in Errnos

LEMMA RewindStep ==
  ASSUME IInv, open, Rewind
  PROVE  RewindPost
<1>1. /\ closes' \in [1..MaxHandles -> Nat]
      /\ \A h \in 1..MaxHandles :
            closes'[h] = IF h = dirp.handle THEN closes[h] + 1 ELSE closes[h]
  BY CloseHandleStep DEF Rewind
<1>2. /\ \A h \in 1..nextH : closes[h] \in {0, 1}
      /\ \A h \in 1..nextH : closes[h] = 0 <=> dirp.handle = h
      /\ \A h \in 1..MaxHandles : h > nextH => closes[h] = 0
      /\ nextH \in 0..MaxHandles /\ dirp.handle \in 0..nextH
      /\ dirp \in DirRec /\ dirp.cur \in 1..Len(dirp.snap)
      /\ disk \in Listings \cup EnvStates /\ errno \in Errnos
  <2>1. /\ nextH \in 0..MaxHandles /\ dirp \in DirRec
        /\ dirp.cur \in 1..Len(dirp.snap) /\ dirp.handle <= nextH
        /\ disk \in Listings \cup EnvStates /\ errno \in Errnos
        /\ closes \in [1..MaxHandles -> Nat]
    BY DEF IInv, TypeOK, HandleBookkeeping
  <2>2. dirp.handle \in 0..nextH
    BY <2>1 DEF DirRec
  <2>3. \A h \in 1..nextH : closes[h] <= 1 /\ (closes[h] = 0 <=> dirp.handle = h)
    BY DEF IInv, HandleDiscipline
  <2>4. \A h \in 1..nextH : closes[h] \in {0, 1}
    BY <2>1, <2>3, DirentAssumption
  <2>5. \A h \in 1..MaxHandles : h > nextH => closes[h] = 0
    BY DEF IInv, HandleBookkeeping
  <2>6. QED
    BY <2>1, <2>2, <2>3, <2>4, <2>5
<1>3. CASE FindFirstOK(disk)
  <2>1. disk \in Seq(Entries) /\ Len(disk) >= 1
    BY <1>2, <1>3, FindFirstSnap
  <2>0. /\ nextH' = nextH + 1
        /\ dirp' = [handle |-> nextH + 1, snap |-> disk, cur |-> 1, first |-> TRUE,
                    end_reached |-> FALSE, current_position |-> 0]
        /\ errno' = errno /\ nextH < MaxHandles
    BY <1>3 DEF Rewind
  <2>2. nextH' = nextH + 1 /\ nextH + 1 \in 1..MaxHandles
    BY <1>2, <2>0, DirentAssumption
  <2>3. dirp' = [handle |-> nextH + 1, snap |-> disk, cur |-> 1, first |-> TRUE,
                 end_reached |-> FALSE, current_position |-> 0]
    BY <2>0
  <2>4. dirp' \in DirRec /\ dirp'.cur \in 1..Len(dirp'.snap)
    BY <2>1, <2>2, <2>3 DEF DirRec
  <2>5. errno' \in Errnos
    BY <1>2, <2>0
  <2>6. \A h \in 1..nextH + 1 : closes'[h] <= 1 /\ (closes'[h] = 0 <=> nextH + 1 = h)
    <3> SUFFICES ASSUME NEW h \in 1..nextH + 1
                 PROVE  closes'[h] <= 1 /\ (closes'[h] = 0 <=> nextH + 1 = h)
      OBVIOUS
    <3>1. CASE h = nextH + 1
      BY <1>1, <1>2, <2>2, <3>1
    <3>2. CASE h # nextH + 1
      <4>1. h \in 1..nextH
        BY <1>2, <3>2
      <4>2. closes'[h] = 1
        BY <4>1, ClosedAfterClose DEF Rewind
      <4>3. QED
        BY <3>2, <4>2
    <3>3. QED
      BY <3>1, <3>2
  <2>7. \A h \in 1..MaxHandles : h > nextH + 1 => closes'[h] = 0
    BY <1>1, <1>2, <2>2
  <2>8. QED
    BY <1>1, <2>2, <2>3, <2>4, <2>5, <2>6, <2>7 DEF RewindPost
<1>4. CASE ~FindFirstOK(disk)
  <2>1. dirp' = [dirp EXCEPT !.handle = Invalid] /\ nextH' = nextH
        /\ errno' = TranslateError[FindFirstError(disk)]
    BY <1>4 DEF Rewind
  <2>2. dirp' \in DirRec /\ dirp'.handle = 0 /\ dirp'.cur \in 1..Len(dirp'.snap)
    BY <1>2, <2>1, DirRecInvalidate DEF Invalid
  <2>3. errno' \in Errnos
    BY <2>1, TranslateType, FindFirstErrorType
  <2>4. \A h \in 1..nextH : closes'[h] <= 1 /\ closes'[h] # 0
    BY ClosedAfterClose DEF Rewind
  <2>5. \A h \in 1..MaxHandles : h > nextH => closes'[h] = 0
    BY <1>1, <1>2
  <2>6. QED
    BY <1>1, <1>2, <2>1, <2>2, <2>3, <2>4, <2>5 DEF RewindPost
<1>5. QED
  BY <1>3, <1>4

LEMMA RewindDirIInv == IInv /\ RewindDir => IInv'
<1> SUFFICES ASSUME IInv, RewindDir PROVE IInv'
  OBVIOUS
<1>1. RewindPost
  BY RewindStep DEF RewindDir
<1>2. TypeOK'
  BY <1>1 DEF RewindPost, RewindDir, IInv, TypeOK, Ops, Results
<1>3. HandleBookkeeping'
  BY <1>1 DEF RewindPost, RewindDir, IInv, HandleBookkeeping
<1>4. HandleDiscipline'
  BY <1>1 DEF RewindPost, RewindDir, HandleDiscipline
<1>5. QED
  BY <1>2, <1>3, <1>4 DEF IInv

LEMMA CloseDirIInv == IInv /\ CloseDir => IInv'
<1> SUFFICES ASSUME IInv, CloseDir PROVE IInv'
  OBVIOUS
<1>0. open /\ CloseHandle(dirp.handle)
  BY DEF CloseDir
<1>1. /\ closes' \in [1..MaxHandles -> Nat]
      /\ \A h \in 1..MaxHandles :
            closes'[h] = IF h = dirp.handle THEN closes[h] + 1 ELSE closes[h]
  BY <1>0, CloseHandleStep
<1>2. \A h \in 1..nextH : closes'[h] = 1
  BY <1>0, ClosedAfterClose
<1>3. \A h \in 1..MaxHandles : h > nextH => closes'[h] = 0
  <2>1. dirp.handle <= nextH /\ \A h \in 1..MaxHandles : h > nextH => closes[h] = 0
    BY DEF IInv, HandleBookkeeping
  <2>2. dirp.handle \in Nat /\ nextH \in Nat
    BY DEF IInv, TypeOK, DirRec
  <2>3. QED
    BY <1>1, <2>1, <2>2
<1>4. TypeOK'
  <2>1. done' \in [op: Ops, arg: Int]
    BY DEF CloseDir, Ops
  <2>2. QED
    BY <1>1, <2>1 DEF CloseDir, IInv, TypeOK, Results
<1>5. HandleBookkeeping'
  BY <1>3 DEF CloseDir, IInv, HandleBookkeeping
<1>6. HandleDiscipline'
  BY <1>2 DEF CloseDir, HandleDiscipline
<1>7. QED
  BY <1>4, <1>5, <1>6 DEF IInv

LEMMA OpenDirIInv ==
  ASSUME IInv, NEW p \in Paths, OpenDir(p)
  PROVE  IInv'
<1>0. /\ ~open /\ pc = "idle" /\ nextH < MaxHandles
      /\ done' \in [op: Ops, arg: Int]
      /\ UNCHANGED <<disk, changes, closes, pc, arg, left>>
  BY DEF OpenDir, Ops
<1>1. /\ nextH \in 0..MaxHandles /\ closes \in [1..MaxHandles -> Nat]
      /\ \A h \in 1..nextH : closes[h] = 1
      /\ \A h \in 1..MaxHandles : h > nextH => closes[h] = 0
  <2>1. \A h \in 1..nextH : closes[h] <= 1 /\ closes[h] # 0
    BY <1>0 DEF IInv, HandleDiscipline
  <2>2. QED
    BY <2>1, DirentAssumption DEF IInv, TypeOK, HandleBookkeeping
<1>2. CASE p = "null" \/ Utf8ToWideThrows(p) \/ p = "file" \/ ~FindFirstOK(disk)
  <2>1. /\ errno' = IF p = "null" THEN "EINVAL"
                    ELSE IF Utf8ToWideThrows(p) THEN errno
                    ELSE IF p = "file" THEN "ENOTDIR"
                    ELSE TranslateError[FindFirstError(disk)]
        /\ UNCHANGED <<open, dirp, nextH, told>>
    BY <1>2 DEF OpenDir
  <2>2. errno' \in Errnos
    BY <2>1, TranslateType, FindFirstErrorType DEF Errnos, IInv, TypeOK
  <2>3. TypeOK'
    BY <1>0, <2>1, <2>2 DEF IInv, TypeOK, Results
  <2>4. HandleBookkeeping' /\ HandleDiscipline'
    BY <1>0, <2>1 DEF IInv, HandleBookkeeping, HandleDiscipline
  <2>5. QED
    BY <2>3, <2>4 DEF IInv
<1>3. CASE ~(p = "null" \/ Utf8ToWideThrows(p) \/ p = "file" \/ ~FindFirstOK(disk))
  <2>1. /\ open' = TRUE /\ nextH' = nextH + 1
        /\ dirp' = [handle |-> nextH + 1, snap |-> disk, cur |-> 1, first |-> TRUE,
                    end_reached |-> FALSE, current_position |-> 0]
        /\ told' = {} /\ errno' = errno
    BY <1>3 DEF OpenDir
  <2>2. disk \in Seq(Entries) /\ Len(disk) >= 1
    <3>1. disk \in Listings \cup EnvStates
      BY DEF IInv, TypeOK
    <3>2. QED
      BY <1>3, <3>1, FindFirstSnap
  <2>3. nextH + 1 \in 1..MaxHandles
    BY <1>0, <1>1, DirentAssumption
  <2>4. dirp' \in DirRec /\ dirp'.cur \in 1..Len(dirp'.snap)
    BY <2>1, <2>2, <2>3 DEF DirRec
  <2>5. TypeOK'
    BY <1>0, <1>1, <2>1, <2>3, <2>4 DEF IInv, TypeOK, Results
  <2>6. HandleBookkeeping'
    BY <1>0, <1>1, <2>1, <2>4
       DEF HandleBookkeeping
  <2>7. HandleDiscipline'
    <3> SUFFICES ASSUME NEW h \in 1..nextH + 1
                 PROVE  closes[h] <= 1 /\ (closes[h] = 0 <=> nextH + 1 = h)
      BY <1>0, <2>1 DEF HandleDiscipline
    <3>1. CASE h = nextH + 1
      BY <1>1, <2>3, <3>1
    <3>2. CASE h # nextH + 1
      BY <1>1, <3>2
    <3>3. QED
      BY <3>1, <3>2
  <2>8. QED
    BY <2>5, <2>6, <2>7 DEF IInv
<1>4. QED
  BY <1>2, <1>3

LEMMA SeekDirIInv ==
  ASSUME IInv, NEW loc \in Seeks, SeekDir(loc)
  PROVE  IInv'
<1>0. /\ pc = "idle" /\ open /\ arg' = loc /\ loc \in Int
      /\ UNCHANGED <<disk, changes, open, told>>
  BY DirentAssumption DEF SeekDir, Seeks
<1>1. CASE loc = 0
  <2>1. Rewind /\ done' = [op |-> "seekdir", arg |-> 0] /\ UNCHANGED <<pc, left>>
    BY <1>1 DEF SeekDir
  <2>2. RewindPost
    BY <1>0, <2>1, RewindStep
  <2>3. TypeOK'
    BY <1>0, <1>1, <2>1, <2>2 DEF RewindPost, IInv, TypeOK, Ops, Seeks, Results
  <2>4. HandleBookkeeping' /\ HandleDiscipline'
    BY <1>0, <2>1, <2>2 DEF RewindPost, IInv, HandleBookkeeping, HandleDiscipline
  <2>5. QED
    BY <2>3, <2>4 DEF IInv
<1>2. CASE loc = -1
  <2>1. pc' = "seekend" /\ UNCHANGED <<dirp, errno, nextH, closes, left, done>>
    BY <1>2 DEF SeekDir
  <2>2. TypeOK'
    BY <1>0, <1>2, <2>1 DEF IInv, TypeOK, Seeks
  <2>3. HandleBookkeeping' /\ HandleDiscipline'
    BY <1>0, <2>1 DEF IInv, HandleBookkeeping, HandleDiscipline
  <2>4. QED
    BY <2>2, <2>3 DEF IInv
<1>3. CASE loc > 0
  <2>1. Rewind /\ pc' = "seekdir" /\ left' = loc /\ UNCHANGED done
    BY <1>3 DEF SeekDir
  <2>2. RewindPost
    BY <1>0, <2>1, RewindStep
  <2>3. left' \in 0..MaxLoc /\ left' >= 1
    BY <1>3, <2>1 DEF Seeks
  <2>4. TypeOK'
    BY <1>0, <2>1, <2>2, <2>3 DEF RewindPost, IInv, TypeOK
  <2>5. HandleBookkeeping' /\ HandleDiscipline'
    BY <1>0, <2>1, <2>2, <2>3 DEF RewindPost, HandleBookkeeping, HandleDiscipline
  <2>6. QED
    BY <2>4, <2>5 DEF IInv
<1>4. CASE loc < -1
  <2>1. /\ errno' = "EINVAL" /\ done' = [op |-> "seekdir", arg |-> loc]
        /\ UNCHANGED <<dirp, nextH, closes, pc, left>>
    BY <1>0, <1>4 DEF SeekDir
  <2>2. TypeOK'
    BY <1>0, <2>1 DEF IInv, TypeOK, Ops, Errnos, Results
  <2>3. HandleBookkeeping' /\ HandleDiscipline'
    BY <1>0, <2>1 DEF IInv, HandleBookkeeping, HandleDiscipline
  <2>4. QED
    BY <2>2, <2>3 DEF IInv
<1>5. QED
  BY <1>0, <1>1, <1>2, <1>3, <1>4


-----------------------------------------------------------------------------
(* The three callers of readdir's loop body keep the invariant: the pass  *)
(* changes neither the handle nor the enumeration.                         *)
IterFacts ==
  LET r == Iterate(dirp, errno) IN
    /\ r.d \in DirRec
    /\ r.d.handle = dirp.handle
    /\ r.d.snap = dirp.snap
    /\ r.d.cur \in 1..Len(r.d.snap)
    /\ r.err \in Errnos
    /\ r.again \in BOOLEAN
    /\ r.ret \in Entries \cup {NoEntry}

LEMMA IterStart ==
  ASSUME IInv, pc # "idle"
  PROVE  IterFacts /\ open
<1>1. open /\ dirp \in DirRec /\ dirp.cur \in 1..Len(dirp.snap) /\ errno \in Errnos
  BY DEF IInv, TypeOK, HandleBookkeeping
<1>2. QED
  BY <1>1, IterateType DEF IterFacts

LEMMA ReadDirStepIInv == IInv /\ ReadDirStep => IInv'
<1> SUFFICES ASSUME IInv, ReadDirStep PROVE IInv'
  OBVIOUS
<1> DEFINE r == Iterate(dirp, errno)
<1>0. /\ pc = "readdir" /\ dirp' = r.d /\ errno' = r.err
      /\ UNCHANGED <<disk, changes, open, nextH, closes, arg, left, told>>
  BY DEF ReadDirStep
<1>1. IterFacts /\ open
  BY <1>0, IterStart
<1>2. /\ dirp' \in DirRec /\ errno' \in Errnos /\ dirp'.handle = dirp.handle
      /\ open' /\ dirp'.cur \in 1..Len(dirp'.snap)
  BY <1>0, <1>1 DEF IterFacts
<1>3. CASE r.again
  <2>1. UNCHANGED <<pc, done>>
    BY <1>3 DEF ReadDirStep
  <2>2. TypeOK'
    BY <1>0, <1>2, <2>1 DEF IInv, TypeOK
  <2>3. HandleBookkeeping' /\ HandleDiscipline'
    BY <1>0, <1>2, <2>1 DEF IInv, HandleBookkeeping, HandleDiscipline
  <2>4. QED
    BY <2>2, <2>3 DEF IInv
<1>4. CASE ~r.again
  <2>1. /\ pc' = "idle" /\ done' = [op |-> "readdir", arg |-> r.ret]
    BY <1>4 DEF ReadDirStep
  <2>2. TypeOK'
    BY <1>0, <1>1, <1>2, <2>1 DEF IterFacts, IInv, TypeOK, Ops, Results
  <2>3. HandleBookkeeping' /\ HandleDiscipline'
    BY <1>0, <1>2, <2>1 DEF IInv, HandleBookkeeping, HandleDiscipline
  <2>4. QED
    BY <2>2, <2>3 DEF IInv
<1>5. QED
  BY <1>1, <1>3, <1>4 DEF IterFacts

LEMMA SeekEndStepIInv == IInv /\ SeekEndStep => IInv'
<1> SUFFICES ASSUME IInv, SeekEndStep PROVE IInv'
  OBVIOUS
<1> DEFINE r == Iterate(dirp, errno)
<1>0. /\ pc = "seekend" /\ dirp' = r.d /\ errno' = r.err
      /\ UNCHANGED <<disk, changes, open, nextH, closes, arg, left, told>>
      /\ pc' \in {"idle", "seekend"} /\ done' \in [op: Ops, arg: Results]
  BY DEF SeekEndStep, Ops, IInv, TypeOK, Results
<1>1. IterFacts /\ open
  BY <1>0, IterStart
<1>2. /\ dirp' \in DirRec /\ errno' \in Errnos /\ dirp'.handle = dirp.handle
      /\ open' /\ dirp'.cur \in 1..Len(dirp'.snap)
  BY <1>0, <1>1 DEF IterFacts
<1>3. TypeOK'
  BY <1>0, <1>2 DEF IInv, TypeOK, Results
<1>4. HandleBookkeeping' /\ HandleDiscipline'
  BY <1>0, <1>2 DEF IInv, HandleBookkeeping, HandleDiscipline
<1>5. QED
  BY <1>3, <1>4 DEF IInv

LEMMA SeekDirStepIInv == IInv /\ SeekDirStep => IInv'
<1> SUFFICES ASSUME IInv, SeekDirStep PROVE IInv'
  OBVIOUS
<1> DEFINE r == Iterate(dirp, errno)
<1>0. /\ pc = "seekdir" /\ dirp' = r.d
      /\ UNCHANGED <<disk, changes, open, nextH, closes, arg, told>>
  BY DEF SeekDirStep
<1>1. IterFacts /\ open /\ left \in 1..MaxLoc /\ arg \in Int
  BY <1>0, IterStart DEF IInv, TypeOK, HandleBookkeeping, Seeks
<1>2. /\ dirp' \in DirRec /\ dirp'.handle = dirp.handle
      /\ open' /\ dirp'.cur \in 1..Len(dirp'.snap)
  BY <1>0, <1>1 DEF IterFacts
<1>3. CASE r.again
  <2>1. errno' = r.err /\ UNCHANGED <<pc, left, done>>
    BY <1>3 DEF SeekDirStep
  <2>2. TypeOK'
    BY <1>0, <1>1, <1>2, <2>1 DEF IInv, TypeOK, IterFacts
  <2>3. HandleBookkeeping' /\ HandleDiscipline'
    BY <1>0, <1>2, <2>1 DEF IInv, HandleBookkeeping, HandleDiscipline
  <2>4. QED
    BY <2>2, <2>3 DEF IInv
<1>4. CASE ~r.again /\ r.ret = NoEntry
  <2>1. /\ errno' = "EINVAL" /\ pc' = "idle"
        /\ done' = [op |-> "seekdir", arg |-> arg] /\ UNCHANGED left
    BY <1>4 DEF SeekDirStep
  <2>2. TypeOK'
    BY <1>0, <1>1, <1>2, <2>1 DEF IInv, TypeOK, Ops, Errnos, Results
  <2>3. HandleBookkeeping' /\ HandleDiscipline'
    BY <1>0, <1>2, <2>1 DEF IInv, HandleBookkeeping, HandleDiscipline
  <2>4. QED
    BY <2>2, <2>3 DEF IInv
<1>5. CASE ~r.again /\ r.ret # NoEntry
  <2>1. /\ errno' = r.err /\ left' = left - 1
        /\ IF left = 1
             THEN pc' = "idle" /\ done' = [op |-> "seekdir", arg |-> arg]
             ELSE UNCHANGED <<pc, done>>
    BY <1>5 DEF SeekDirStep
  <2>2. /\ left' \in 0..MaxLoc
        /\ pc' \in {"idle", "seekdir"} /\ done' \in [op: Ops, arg: Results]
        /\ pc' = "seekdir" => left' >= 1
    <3>1. left' \in 0..MaxLoc
      BY <1>1, <2>1, DirentAssumption
    <3>2. CASE left = 1
      BY <1>0, <1>1, <2>1, <3>1, <3>2 DEF Ops, Results
    <3>3. CASE left # 1
      BY <1>0, <1>1, <2>1, <3>1, <3>3 DEF IInv, TypeOK, Results
    <3>4. QED
      BY <3>2, <3>3
  <2>3. TypeOK'
    BY <1>0, <1>1, <1>2, <2>1, <2>2 DEF IInv, TypeOK, IterFacts, Results
  <2>4. HandleBookkeeping' /\ HandleDiscipline'
    BY <1>0, <1>2, <2>2 DEF IInv, HandleBookkeeping, HandleDiscipline
  <2>5. QED
    BY <2>3, <2>4 DEF IInv
<1>6. QED
  BY <1>1, <1>3, <1>4, <1>5 DEF IterFacts

-----------------------------------------------------------------------------
(* IInv is inductive: every step of Next, and a stuttering step, keeps it. *)
THEOREM NextIInv == IInv /\ [Next]_vars => IInv'
<1> SUFFICES ASSUME IInv, [Next]_vars PROVE IInv'
  OBVIOUS
<1>1. CASE \E p \in Paths : OpenDir(p)
  BY <1>1, OpenDirIInv
<1>2. CASE ReadDir
  BY <1>2, ReadDirIInv
<1>3. CASE ReadDirStep
  BY <1>3, ReadDirStepIInv
<1>4. CASE CloseDir
  BY <1>4, CloseDirIInv
<1>5. CASE RewindDir
  BY <1>5, RewindDirIInv
<1>6. CASE TellDir
  BY <1>6, TellDirIInv
<1>7. CASE NullCall
  BY <1>7, NullCallIInv
<1>8. CASE \E loc \in Seeks : SeekDir(loc)
  BY <1>8, SeekDirIInv
<1>9. CASE SeekDirStep
  BY <1>9, SeekDirStepIInv
<1>10. CASE SeekEndStep
  BY <1>10, SeekEndStepIInv
<1>11. CASE ChangeDisk
  BY <1>11, ChangeDiskIInv
<1>12. CASE UNCHANGED vars
  BY <1>12, StutterIInv
<1>13. QED
  BY <1>1, <1>2, <1>3, <1>4, <1>5, <1>6, <1>7, <1>8, <1>9, <1>10, <1>11, <1>12
     DEF Next

(* Every reachable state is well typed (TypeOK holds throughout).         *)
THEOREM TypeCorrect == Spec => []TypeOK
<1>1. IInv => TypeOK
  BY DEF IInv
<1>2. QED
  BY <1>1, InitIInv, NextIInv, PTL DEF Spec

(* Find handles are released exactly once in every run, for all values of *)
(* the constants: the opendir/rewinddir/seekdir/closedir handle protocol  *)
(* of dirent.cpp never double-closes nor leaks a find handle.             *)
THEOREM HandlesReleasedOnce == Spec => []HandleDiscipline
<1>1. IInv => HandleDiscipline
  BY DEF IInv
<1>2. QED
  BY <1>1, InitIInv, NextIInv, PTL DEF Spec

(* One pass of readdir's loop changes errno only to report an error: it  *)
(* then ends the call, and the stream is neither at its end nor moved on. *)
LEMMA IterateErrno ==
  ASSUME NEW d \in DirRec, NEW e
  PROVE  LET r == Iterate(d, e)
         IN  r.err # e => /\ ~r.again
                          /\ ~r.d.end_reached
                          /\ r.d.current_position = d.current_position
<1> DEFINE r == Iterate(d, e)
<1> SUFFICES ASSUME r.err # e
             PROVE  ~r.again /\ ~r.d.end_reached /\ r.d.current_position = d.current_position
  OBVIOUS
<1>1. CASE d.end_reached
  <2>1. r.err = e
    BY <1>1 DEF Iterate, r
  <2>2. QED
    BY <2>1
<1>2. CASE ~d.end_reached /\ ~d.first /\ d.handle = Invalid
  BY <1>2 DEF Iterate, r
<1>3. CASE ~d.end_reached /\ ~(~d.first /\ d.handle = Invalid)
           /\ ~d.first /\ d.cur >= Len(d.snap)
  <2>1. r.err = e
    BY <1>3 DEF Iterate, r
  <2>2. QED
    BY <2>1
<1>4. CASE ~d.end_reached /\ ~(~d.first /\ d.handle = Invalid)
           /\ ~(~d.first /\ d.cur >= Len(d.snap))
  <2> DEFINE i  == IF d.first THEN d.cur ELSE d.cur + 1
             d1 == [d EXCEPT !.cur = i, !.first = FALSE]
  <2>1. r = IF d.snap[i] \in {Dot, DotDot}
              THEN [d |-> d1, again |-> TRUE, ret |-> NoEntry, err |-> e]
            ELSE IF d.snap[i] \in LongNames
              THEN [d |-> d1, again |-> FALSE, ret |-> NoEntry, err |-> "ENAMETOOLONG"]
            ELSE [d |-> [d1 EXCEPT !.current_position = @ + 1], again |-> FALSE,
                  ret |-> d.snap[i], err |-> e]
    BY <1>4 DEF Iterate, r
  <2>2. ~d1.end_reached /\ d1.current_position = d.current_position
    BY <1>4 DEF DirRec
  <2>3. CASE d.snap[i] \in {Dot, DotDot}
    BY <2>1, <2>3
  <2>4. CASE d.snap[i] \notin {Dot, DotDot} /\ d.snap[i] \in LongNames
    <3>1. r.d = d1 /\ ~r.again
      BY <2>1, <2>4 DEF i, d1
    <3>2. QED
      BY <2>2, <3>1
  <2>5. CASE d.snap[i] \notin {Dot, DotDot} /\ d.snap[i] \notin LongNames
    <3>1. r.err = e
      BY <2>1, <2>5 DEF i, d1
    <3>2. QED
      BY <3>1
  <2>6. QED
    BY <2>3, <2>4, <2>5
<1>5. QED
  BY <1>1, <1>2, <1>3, <1>4

(* readdir leaves errno alone unless it fails, in every run and for all  *)
(* values of the constants: the end of the directory, the skipped "." and *)
(* "..", and an entry returned never touch errno (ReadDirKeepsErrno).      *)
THEOREM ReadDirErrno == Spec => ReadDirKeepsErrno
<1>1. IInv /\ [Next]_vars =>
        [pc = "readdir" /\ errno' # errno =>
            /\ pc' = "idle"
            /\ ~dirp'.end_reached
            /\ dirp'.current_position = dirp.current_position]_vars
  <2> SUFFICES ASSUME IInv, [Next]_vars, pc = "readdir", errno' # errno
               PROVE  /\ pc' = "idle"
                      /\ ~dirp'.end_reached
                      /\ dirp'.current_position = dirp.current_position
    OBVIOUS
  <2>1. ReadDirStep
    BY DEF Next, vars, OpenDir, ReadDir, CloseDir, RewindDir, TellDir, NullCall,
           SeekDir, SeekDirStep, SeekEndStep, ChangeDisk
  <2> DEFINE r == Iterate(dirp, errno)
  <2>2. dirp' = r.d /\ errno' = r.err
        /\ (r.again => pc' = pc) /\ (~r.again => pc' = "idle")
    BY <2>1 DEF ReadDirStep, r
  <2>3. dirp \in DirRec
    BY DEF IInv, TypeOK
  <2>4. ~r.again /\ ~r.d.end_reached /\ r.d.current_position = dirp.current_position
    BY <2>2, <2>3, IterateErrno DEF r
  <2>5. QED
    BY <2>2, <2>4
<1>2. QED
  BY <1>1, InitIInv, NextIInv, PTL DEF Spec, ReadDirKeepsErrno

=============================================================================
