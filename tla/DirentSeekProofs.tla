-------------------------- MODULE DirentSeekProofs --------------------------
(***************************************************************************)
(* Proof that seekdir lands where telldir said (SeekLands) for every       *)
(* listing and every bound, when no other process changes the directory   *)
(* and no entry name is too long for d_name -- the setting of the         *)
(* TellSeekDir test.  Both conditions are needed: MCDirent_longname and   *)
(* the concurrent-change hazard of dirent.cpp:349 show SeekLands fails    *)
(* without them.                                                           *)
(*                                                                         *)
(* The argument: seekdir(loc) re-opens the enumeration and reads loc      *)
(* entries, and each read that returns an entry raises current_position   *)
(* by one.  It can only fail (EINVAL) if fewer than loc entries remain,   *)
(* and a loc telldir returned is never more than the listing holds.  The  *)
(* invariant SeekInv (in Dirent) counts the entries ahead of the cursor.  *)
(***************************************************************************)
EXTENDS DirentProofs, FiniteSetTheorems

(* No other process changes the directory. *)
NoChange == EnvStates = {}

(* Every name of the directory fits in d_name. *)
ShortNames == \A s \in Listings : \A i \in 1..Len(s) : s[i] \notin LongNames

(* The entries ahead of a cursor are a finite set of indices. *)
LEMMA AheadFinite ==
  ASSUME NEW d \in DirRec
  PROVE  /\ IsFiniteSet(Ahead(d)) /\ Cardinality(Ahead(d)) \in Nat
         /\ IsFiniteSet(Readable(d.snap)) /\ Cardinality(Readable(d.snap)) \in Nat
<1>1. IsFiniteSet(1..Len(d.snap))
  BY FS_Interval DEF DirRec
<1>2. Ahead(d) \subseteq 1..Len(d.snap) /\ Readable(d.snap) \subseteq 1..Len(d.snap)
  BY DEF Ahead, Readable
<1>3. QED
  BY <1>1, <1>2, FS_Subset, FS_CardinalityType

(* Right after FindFirstFileW, every entry readdir returns is ahead. *)
LEMMA AheadFresh ==
  ASSUME NEW s \in Seq(Entries), NEW h, NEW p
  PROVE  Ahead([handle |-> h, snap |-> s, cur |-> 1, first |-> TRUE,
                end_reached |-> FALSE, current_position |-> p]) = Readable(s)
BY DEF Ahead, Readable, NextIndex

(* One pass of readdir's loop on a stream with a valid handle and no long *)
(* names: a "." or ".." leaves position and entries ahead as they are, a  *)
(* nullptr means no entry was ahead and ends the enumeration, and an      *)
(* entry raises the position by one and is no longer ahead.               *)
LEMMA IterateSeek ==
  ASSUME NEW d \in DirRec, d.cur \in 1..Len(d.snap), ~d.end_reached,
         d.handle # Invalid, \A i \in 1..Len(d.snap) : d.snap[i] \notin LongNames,
         NEW e
  PROVE  LET r == Iterate(d, e) IN
           /\ r.again => /\ r.d.current_position = d.current_position
                         /\ Ahead(r.d) = Ahead(d) /\ ~r.d.end_reached
           /\ ~r.again /\ r.ret = NoEntry => Ahead(d) = {} /\ r.d.end_reached
           /\ ~r.again /\ r.ret # NoEntry =>
                /\ r.d.current_position = d.current_position + 1
                /\ ~r.d.end_reached
                /\ Cardinality(Ahead(r.d)) = Cardinality(Ahead(d)) - 1
<1> DEFINE r == Iterate(d, e)
<1>0. d.snap \in Seq(Entries) /\ d.cur \in Nat
  BY DEF DirRec
<1>1. CASE ~d.first /\ d.cur >= Len(d.snap)
  <2>1. ~r.again /\ r.ret = NoEntry /\ r.d.end_reached
    BY <1>1 DEF Iterate, DirRec
  <2>2. Ahead(d) = {}
    BY <1>0, <1>1 DEF Ahead, Readable, NextIndex
  <2>3. QED
    BY <2>1, <2>2
<1>2. CASE ~(~d.first /\ d.cur >= Len(d.snap))
  <2> DEFINE k  == NextIndex(d)
             d1 == [d EXCEPT !.cur = k, !.first = FALSE]
  <2>1. k \in 1..Len(d.snap)
    BY <1>0, <1>2 DEF NextIndex
  <2>2. /\ d1 \in DirRec /\ d1.snap = d.snap /\ ~d1.end_reached
        /\ d1.current_position = d.current_position
        /\ NextIndex(d1) = k + 1
    <3>1. k \in Nat
      BY <2>1
    <3>2. d1 \in DirRec /\ d1.cur = k /\ d1.snap = d.snap
      BY <3>1, DirRecEnter
    <3>3. ~d1.first /\ ~d1.end_reached /\ d1.current_position = d.current_position
      BY DEF DirRec
    <3>4. QED
      BY <3>2, <3>3 DEF NextIndex
  <2>3. r = IF d.snap[k] \in {Dot, DotDot}
              THEN [d |-> d1, again |-> TRUE, ret |-> NoEntry, err |-> e]
            ELSE IF d.snap[k] \in LongNames
              THEN [d |-> d1, again |-> FALSE, ret |-> NoEntry, err |-> "ENAMETOOLONG"]
            ELSE [d |-> [d1 EXCEPT !.current_position = @ + 1], again |-> FALSE,
                  ret |-> d.snap[k], err |-> e]
    BY <1>2 DEF Iterate, NextIndex
  <2>4. CASE d.snap[k] \in {Dot, DotDot}
    <3>1. k \notin Readable(d.snap) /\ \A i \in Readable(d.snap) : i \in Int
      BY <2>4 DEF Readable
    <3>2. Ahead(d1) = {i \in Readable(d.snap) : i >= k + 1}
      BY <2>2 DEF Ahead
    <3>3. Ahead(d) = {i \in Readable(d.snap) : i >= k}
      BY DEF Ahead
    <3>4. \A i \in Readable(d.snap) : i >= k + 1 <=> i >= k
      BY <3>1, <2>1
    <3>5. Ahead(d1) = Ahead(d)
      BY <3>2, <3>3, <3>4
    <3>6. r.again /\ r.d = d1
      BY <2>3, <2>4
    <3>7. QED
      BY <2>2, <3>5, <3>6 DEF r
  <2>5. CASE d.snap[k] \notin {Dot, DotDot}
    <3>1. d.snap[k] \notin LongNames /\ d.snap[k] \in Entries
      BY <1>0, <2>1
    <3>2. d.snap[k] # NoEntry
      BY <3>1, DirentAssumption
    <3> DEFINE d2 == [d1 EXCEPT !.current_position = @ + 1]
    <3>3. r = [d |-> d2, again |-> FALSE, ret |-> d.snap[k], err |-> e]
      BY <2>3, <2>5, <3>1
    <3>4. /\ d2.current_position = d.current_position + 1 /\ ~d2.end_reached
          /\ d2.snap = d.snap /\ NextIndex(d2) = k + 1
      BY <2>2 DEF NextIndex
    <3>8. k \in Readable(d.snap) /\ \A i \in Readable(d.snap) : i \in Int
      BY <2>1, <2>5 DEF Readable
    <3>9. Ahead(d2) = {i \in Readable(d.snap) : i >= k + 1}
      BY <3>4 DEF Ahead
    <3>10. Ahead(d) = {i \in Readable(d.snap) : i >= k}
      BY DEF Ahead
    <3>5. k \in Ahead(d) /\ Ahead(d2) = Ahead(d) \ {k}
      BY <3>8, <3>9, <3>10, <2>1
    <3>6. Cardinality(Ahead(d2)) = Cardinality(Ahead(d)) - 1
      BY <3>5, AheadFinite, FS_RemoveElement
    <3>11. ~r.again /\ r.ret # NoEntry /\ r.d = d2
      BY <3>2, <3>3
    <3>7. QED
      BY <3>4, <3>6, <3>11 DEF r
  <2>6. QED
    BY <2>4, <2>5
<1>3. QED
  BY <1>1, <1>2

-----------------------------------------------------------------------------
(* The stream opendir and rewinddir make with FindFirstFileW. *)
Fresh(h, s) == [handle |-> h, snap |-> s, cur |-> 1, first |-> TRUE,
                end_reached |-> FALSE, current_position |-> 0]

LEMMA FreshCounts ==
  ASSUME NEW s \in Seq(Entries), NEW h
  PROVE  /\ Fresh(h, s).snap = s /\ Fresh(h, s).handle = h
         /\ ~Fresh(h, s).end_reached /\ Tell(Fresh(h, s)) = 0
         /\ Fresh(h, s).current_position + Cardinality(Ahead(Fresh(h, s)))
              = Cardinality(Readable(s))
<1>1. Ahead(Fresh(h, s)) = Readable(s)
  BY AheadFresh DEF Fresh
<1>2. IsFiniteSet(1..Len(s)) /\ Readable(s) \subseteq 1..Len(s)
  BY FS_Interval DEF Readable
<1>3. Cardinality(Readable(s)) \in Nat
  BY <1>2, FS_Subset, FS_CardinalityType
<1>4. QED
  BY <1>1, <1>3 DEF Fresh, Tell

(* What the invariants give when nobody else changes the directory and   *)
(* its names fit.                                                          *)
LEMMA SeekFacts ==
  ASSUME NoChange, ShortNames, IInv, SeekInv
  PROVE  /\ disk \in Seq(Entries)
         /\ \A i \in 1..Len(disk) : disk[i] \notin LongNames
         /\ dirp \in DirRec /\ errno \in Errnos /\ nextH \in Nat
         /\ Cardinality(Readable(disk)) \in Nat
         /\ told \subseteq Int
         /\ open => /\ dirp.cur \in 1..Len(dirp.snap) /\ dirp.snap = disk
                    /\ dirp.handle # Invalid /\ FindFirstOK(disk)
<1>1. disk \in Listings
  BY DEF NoChange, IInv, TypeOK
<1>2. disk \in Seq(Entries) /\ NoDir \notin Seq(Entries)
  BY <1>1, DirentAssumption
<1>3. \A i \in 1..Len(disk) : disk[i] \notin LongNames
  BY <1>1 DEF ShortNames
<1>4. dirp \in DirRec /\ errno \in Errnos /\ nextH \in Nat /\ told \subseteq Int
  BY DirentAssumption DEF IInv, TypeOK
<1>5. Cardinality(Readable(disk)) \in Nat
  <2>1. IsFiniteSet(1..Len(disk)) /\ Readable(disk) \subseteq 1..Len(disk)
    BY <1>2, FS_Interval DEF Readable
  <2>2. QED
    BY <2>1, FS_Subset, FS_CardinalityType
<1>6. open => /\ dirp.cur \in 1..Len(dirp.snap) /\ dirp.snap = disk
              /\ dirp.handle # Invalid
  BY DEF IInv, HandleBookkeeping, SeekInv, StreamOnDisk
<1>7. open => FindFirstOK(disk)
  BY <1>2, <1>6 DEF FindFirstOK
<1>8. QED
  BY <1>2, <1>3, <1>4, <1>5, <1>6, <1>7

(* One pass of readdir's loop on the open stream keeps it on the         *)
(* directory, keeps its position counting the entries returned, and says  *)
(* when it returns nullptr.                                                *)
LEMMA IterStep ==
  ASSUME NoChange, ShortNames, IInv, SeekInv, open
  PROVE  LET r == Iterate(dirp, errno) IN
           /\ r.d.snap = disk /\ r.d.handle # Invalid
           /\ ~r.d.end_reached =>
                 r.d.current_position + Cardinality(Ahead(r.d)) = Cardinality(Readable(disk))
           /\ ~r.again /\ r.ret = NoEntry => r.d.end_reached
           /\ ~r.again /\ r.ret = NoEntry /\ ~dirp.end_reached => Ahead(dirp) = {}
           /\ ~r.again /\ r.ret # NoEntry =>
                 /\ r.d.current_position = dirp.current_position + 1
                 /\ ~dirp.end_reached /\ ~r.d.end_reached
           /\ r.again => /\ r.d.current_position = dirp.current_position
                         /\ ~dirp.end_reached /\ ~r.d.end_reached
<1> DEFINE r == Iterate(dirp, errno)
<1>1. /\ dirp \in DirRec /\ errno \in Errnos /\ dirp.cur \in 1..Len(dirp.snap)
      /\ dirp.snap = disk /\ dirp.handle # Invalid
      /\ \A i \in 1..Len(dirp.snap) : dirp.snap[i] \notin LongNames
  BY SeekFacts
<1>2. r.d.snap = dirp.snap /\ r.d.handle = dirp.handle
  BY <1>1, IterateType
<1>3. CASE dirp.end_reached
  <2>1. r = [d |-> dirp, again |-> FALSE, ret |-> NoEntry, err |-> errno]
    BY <1>3 DEF Iterate
  <2>2. QED
    BY <1>1, <1>3, <2>1 DEF r
<1>4. CASE ~dirp.end_reached
  <2>1. open /\ ~dirp.end_reached => dirp.current_position + Cardinality(Ahead(dirp))
                                       = Cardinality(Readable(disk))
    BY DEF SeekInv, PositionCounts
  <2>2. /\ r.again => /\ r.d.current_position = dirp.current_position
                      /\ Ahead(r.d) = Ahead(dirp) /\ ~r.d.end_reached
        /\ ~r.again /\ r.ret = NoEntry => Ahead(dirp) = {} /\ r.d.end_reached
        /\ ~r.again /\ r.ret # NoEntry =>
             /\ r.d.current_position = dirp.current_position + 1
             /\ ~r.d.end_reached
             /\ Cardinality(Ahead(r.d)) = Cardinality(Ahead(dirp)) - 1
    BY <1>1, <1>4, IterateSeek
  <2>3. r.d \in DirRec /\ Cardinality(Ahead(dirp)) \in Nat
    BY <1>1, IterateType, AheadFinite
  <2>4. r.d.current_position \in Nat
    BY <2>3 DEF DirRec
  <2>5. r.again \in BOOLEAN
    BY <1>1, IterateType
  <2>6. ~r.d.end_reached =>
          r.d.current_position + Cardinality(Ahead(r.d)) = Cardinality(Readable(disk))
    <3>1. CASE r.again
      BY <1>4, <2>1, <2>2, <3>1
    <3>2. CASE ~r.again /\ r.ret # NoEntry
      <4>1. dirp.current_position \in Nat
        BY <1>1 DEF DirRec
      <4>2. /\ r.d.current_position = dirp.current_position + 1
            /\ Cardinality(Ahead(r.d)) = Cardinality(Ahead(dirp)) - 1
        BY <2>2, <3>2
      <4>3. QED
        BY <1>4, <2>1, <2>3, <4>1, <4>2
    <3>3. CASE ~r.again /\ r.ret = NoEntry
      <4>1. r.d.end_reached
        BY <2>2, <3>3
      <4>2. r.d.end_reached \in BOOLEAN
        BY <2>3 DEF DirRec
      <4>3. QED
        BY <4>1, <4>2
    <3>4. QED
      BY <2>5, <3>1, <3>2, <3>3
  <2>7. QED
    BY <1>2, <1>1, <1>4, <2>2, <2>6 DEF r
<1>5. QED
  BY <1>3, <1>4

-----------------------------------------------------------------------------
(* The steps that leave the stream alone and end in a state where no      *)
(* seekdir has just returned keep SeekInv.                                 *)
LEMMA OpenDirSeek ==
  ASSUME NoChange, ShortNames, IInv, SeekInv, NEW p \in Paths, OpenDir(p)
  PROVE  SeekInv'
<1>0. /\ ~open /\ pc = "idle" /\ pc' = "idle" /\ done'.op = "opendir"
      /\ disk' = disk
  BY DEF OpenDir
<1>1. CASE p = "null" \/ Utf8ToWideThrows(p) \/ p = "file" \/ ~FindFirstOK(disk)
  <2>1. ~open' /\ told' = told
    BY <1>0, <1>1 DEF OpenDir
  <2>2. QED
    BY <1>0, <2>1 DEF SeekInv, StreamOnDisk, PositionCounts, ToldInListing,
                      ReplayCounts, SeekLands
<1>2. CASE ~(p = "null" \/ Utf8ToWideThrows(p) \/ p = "file" \/ ~FindFirstOK(disk))
  <2>1. open' /\ told' = {} /\ dirp' = Fresh(nextH + 1, disk)
    BY <1>2 DEF OpenDir, Fresh
  <2>2. disk \in Seq(Entries) /\ nextH \in Nat
    BY SeekFacts
  <2>3. nextH + 1 # Invalid
    BY <2>2 DEF Invalid
  <2>4. QED
    BY <1>0, <2>1, <2>2, <2>3, FreshCounts
       DEF SeekInv, StreamOnDisk, PositionCounts, ToldInListing, ReplayCounts, SeekLands
<1>3. QED
  BY <1>1, <1>2

(* rewinddir's body on an open stream of an unchanged directory always   *)
(* succeeds: FindFirstFileW finds what it found before.                    *)
LEMMA RewindSeek ==
  ASSUME NoChange, ShortNames, IInv, SeekInv, open, Rewind
  PROVE  /\ dirp' = Fresh(nextH + 1, disk)
         /\ nextH + 1 # Invalid
         /\ disk \in Seq(Entries)
<1>1. FindFirstOK(disk) /\ nextH \in Nat /\ disk \in Seq(Entries)
  BY SeekFacts
<1>2. QED
  BY <1>1 DEF Rewind, Fresh, Invalid

LEMMA RewindDirSeek ==
  ASSUME NoChange, ShortNames, IInv, SeekInv, RewindDir
  PROVE  SeekInv'
<1>1. /\ open /\ open' /\ pc' = "idle" /\ done'.op = "rewinddir"
      /\ UNCHANGED <<disk, told>> /\ Rewind
  BY DEF RewindDir
<1>2. /\ dirp' = Fresh(nextH + 1, disk) /\ nextH + 1 # Invalid
      /\ disk \in Seq(Entries)
  BY <1>1, RewindSeek
<1>3. QED
  BY <1>1, <1>2, FreshCounts
     DEF SeekInv, StreamOnDisk, PositionCounts, ToldInListing, ReplayCounts, SeekLands

LEMMA CloseDirSeek ==
  ASSUME SeekInv, CloseDir
  PROVE  SeekInv'
BY DEF CloseDir, SeekInv, StreamOnDisk, PositionCounts, ToldInListing, ReplayCounts,
       SeekLands

LEMMA NullCallSeek ==
  ASSUME SeekInv, NullCall
  PROVE  SeekInv'
BY DEF NullCall, SeekInv, StreamOnDisk, PositionCounts, ToldInListing, ReplayCounts,
       SeekLands

LEMMA ReadDirSeek ==
  ASSUME SeekInv, ReadDir
  PROVE  SeekInv'
BY DEF ReadDir, SeekInv, StreamOnDisk, PositionCounts, ToldInListing, ReplayCounts,
       SeekLands

LEMMA StutterSeek ==
  ASSUME SeekInv, UNCHANGED vars
  PROVE  SeekInv'
BY DEF vars, SeekInv, StreamOnDisk, PositionCounts, ToldInListing, ReplayCounts,
       SeekLands, Tell, Ahead, Readable, NextIndex

LEMMA ChangeDiskSeek ==
  ASSUME NoChange, ChangeDisk
  PROVE  FALSE
BY DEF NoChange, ChangeDisk

(* telldir reports a position the listing has: at most the number of     *)
(* entries readdir can return, or -1 at the end.                           *)
LEMMA TellDirSeek ==
  ASSUME NoChange, ShortNames, IInv, SeekInv, TellDir
  PROVE  SeekInv'
<1>1. /\ open /\ pc = "idle" /\ told' = told \cup {Tell(dirp)}
      /\ done'.op = "telldir"
      /\ UNCHANGED <<disk, open, dirp, pc, arg, left>>
  BY DEF TellDir
<1>2. Tell(dirp) \in {-1} \cup 0..Cardinality(Readable(disk))
  <2>1. dirp \in DirRec /\ Cardinality(Readable(disk)) \in Nat
    BY SeekFacts
  <2>2. Cardinality(Ahead(dirp)) \in Nat /\ dirp.current_position \in Nat
    BY <2>1, AheadFinite DEF DirRec
  <2>3. ~dirp.end_reached =>
          dirp.current_position + Cardinality(Ahead(dirp)) = Cardinality(Readable(disk))
    BY <1>1 DEF SeekInv, PositionCounts
  <2>4. QED
    BY <2>1, <2>2, <2>3 DEF Tell
<1>3. QED
  BY <1>1, <1>2 DEF SeekInv, StreamOnDisk, PositionCounts, ToldInListing,
                    ReplayCounts, SeekLands

(* seekdir(0) lands at 0 at once; seekdir(loc > 0) starts its replay on a *)
(* fresh enumeration with nothing read yet; seekdir(-1) starts its loop;  *)
(* any other loc fails with EINVAL, and telldir never returned it.        *)
LEMMA SeekDirSeek ==
  ASSUME NoChange, ShortNames, IInv, SeekInv, NEW loc \in Seeks, SeekDir(loc)
  PROVE  SeekInv'
<1>0. /\ pc = "idle" /\ open /\ arg' = loc
      /\ UNCHANGED <<disk, open, told>>
  BY DEF SeekDir
<1>1. CASE loc = 0
  <2>1. Rewind /\ done' = [op |-> "seekdir", arg |-> 0] /\ pc' = "idle"
    BY <1>0, <1>1 DEF SeekDir
  <2>2. /\ dirp' = Fresh(nextH + 1, disk) /\ nextH + 1 # Invalid
        /\ disk \in Seq(Entries)
    BY <1>0, <2>1, RewindSeek
  <2>3. QED
    BY <1>0, <2>1, <2>2, FreshCounts
       DEF SeekInv, StreamOnDisk, PositionCounts, ToldInListing, ReplayCounts, SeekLands
<1>2. CASE loc = -1
  <2>1. pc' = "seekend" /\ UNCHANGED dirp
    BY <1>0, <1>2 DEF SeekDir
  <2>2. QED
    BY <1>0, <2>1
       DEF SeekInv, StreamOnDisk, PositionCounts, ToldInListing, ReplayCounts, SeekLands
<1>3. CASE loc > 0
  <2>1. Rewind /\ pc' = "seekdir" /\ left' = loc
    BY <1>0, <1>3 DEF SeekDir
  <2>2. /\ dirp' = Fresh(nextH + 1, disk) /\ nextH + 1 # Invalid
        /\ disk \in Seq(Entries)
    BY <1>0, <2>1, RewindSeek
  <2>3. ReplayCounts'
    BY <1>0, <2>1, <2>2, <1>3 DEF ReplayCounts, Fresh, Seeks
  <2>4. QED
    BY <1>0, <2>1, <2>2, <2>3, FreshCounts
       DEF SeekInv, StreamOnDisk, PositionCounts, ToldInListing, SeekLands
<1>4. CASE loc < -1
  <2>1. done' = [op |-> "seekdir", arg |-> loc] /\ pc' = "idle" /\ UNCHANGED dirp
    BY <1>0, <1>4 DEF SeekDir, Seeks
  <2>2. loc \notin told \cup {-1}
    BY <1>4 DEF SeekInv, ToldInListing, Seeks
  <2>3. QED
    BY <1>0, <2>1, <2>2
       DEF SeekInv, StreamOnDisk, PositionCounts, ToldInListing, ReplayCounts, SeekLands
<1>5. QED
  BY <1>1, <1>2, <1>3, <1>4 DEF Seeks

(* A readdir the caller makes: SeekLands is not at stake (done becomes    *)
(* readdir), the position keeps counting.                                  *)
LEMMA ReadDirStepSeek ==
  ASSUME NoChange, ShortNames, IInv, SeekInv, ReadDirStep
  PROVE  SeekInv'
<1> DEFINE r == Iterate(dirp, errno)
<1>0. /\ pc = "readdir" /\ dirp' = r.d
      /\ UNCHANGED <<disk, open, told, arg, left>>
      /\ pc' \in {"readdir", "idle"}
      /\ pc' = "idle" => done'.op = "readdir"
  BY DEF ReadDirStep
<1>1. open
  BY <1>0 DEF IInv, HandleBookkeeping
<1>2. /\ r.d.snap = disk /\ r.d.handle # Invalid
      /\ ~r.d.end_reached =>
            r.d.current_position + Cardinality(Ahead(r.d)) = Cardinality(Readable(disk))
  BY <1>1, IterStep
<1>3. QED
  BY <1>0, <1>1, <1>2
     DEF SeekInv, StreamOnDisk, PositionCounts, ToldInListing, ReplayCounts, SeekLands

(* seekdir(-1)'s loop ends only at the end of the enumeration, where      *)
(* telldir gives -1.                                                       *)
LEMMA SeekEndStepSeek ==
  ASSUME NoChange, ShortNames, IInv, SeekInv, SeekEndStep
  PROVE  SeekInv'
<1> DEFINE r == Iterate(dirp, errno)
<1>0. /\ pc = "seekend" /\ dirp' = r.d
      /\ UNCHANGED <<disk, open, told, arg, left>>
  BY DEF SeekEndStep
<1>1. open
  BY <1>0 DEF IInv, HandleBookkeeping
<1>2. /\ r.d.snap = disk /\ r.d.handle # Invalid
      /\ ~r.d.end_reached =>
            r.d.current_position + Cardinality(Ahead(r.d)) = Cardinality(Readable(disk))
      /\ ~r.again /\ r.ret = NoEntry => r.d.end_reached
  BY <1>1, IterStep
<1>3. CASE ~r.again /\ r.ret = NoEntry
  <2>1. pc' = "idle" /\ done' = [op |-> "seekdir", arg |-> -1]
    BY <1>3 DEF SeekEndStep
  <2>2. Tell(dirp') = -1
    BY <1>0, <1>2, <1>3 DEF Tell
  <2>3. QED
    BY <1>0, <1>1, <1>2, <2>1, <2>2
       DEF SeekInv, StreamOnDisk, PositionCounts, ToldInListing, ReplayCounts, SeekLands
<1>4. CASE ~(~r.again /\ r.ret = NoEntry)
  <2>1. pc' = "seekend"
    BY <1>0, <1>4 DEF SeekEndStep
  <2>2. QED
    BY <1>0, <1>1, <1>2, <2>1
       DEF SeekInv, StreamOnDisk, PositionCounts, ToldInListing, ReplayCounts, SeekLands
<1>5. QED
  BY <1>3, <1>4

(* One read of seekdir(loc)'s replay: while it goes on, the position plus *)
(* the reads left is loc; it stops at loc after its last read; and it     *)
(* cannot run out of entries when loc is a value telldir returned, since  *)
(* the entries ahead are then at least the reads left.                     *)
LEMMA SeekDirStepSeek ==
  ASSUME NoChange, ShortNames, IInv, SeekInv, SeekDirStep
  PROVE  SeekInv'
<1> DEFINE r == Iterate(dirp, errno)
<1>0. /\ pc = "seekdir" /\ dirp' = r.d
      /\ UNCHANGED <<disk, open, told, arg>>
  BY DEF SeekDirStep
<1>1. /\ open /\ left \in 1..MaxLoc /\ arg \in Int
      /\ dirp \in DirRec /\ dirp.current_position \in Nat
  BY <1>0, DirentAssumption DEF IInv, HandleBookkeeping, TypeOK, Seeks, DirRec
<1>2. /\ r.d.snap = disk /\ r.d.handle # Invalid
      /\ ~r.d.end_reached =>
            r.d.current_position + Cardinality(Ahead(r.d)) = Cardinality(Readable(disk))
      /\ ~r.again /\ r.ret = NoEntry /\ ~dirp.end_reached => Ahead(dirp) = {}
      /\ ~r.again /\ r.ret # NoEntry =>
            /\ r.d.current_position = dirp.current_position + 1
            /\ ~r.d.end_reached
      /\ r.again => r.d.current_position = dirp.current_position /\ ~r.d.end_reached
  BY <1>1, IterStep
<1>3. /\ dirp.current_position + left = arg
      /\ arg \in told => ~dirp.end_reached
  BY <1>0 DEF SeekInv, ReplayCounts
<1>4. StreamOnDisk' /\ PositionCounts' /\ ToldInListing'
  BY <1>0, <1>1, <1>2 DEF SeekInv, StreamOnDisk, PositionCounts, ToldInListing
<1>5. CASE r.again
  <2>1. pc' = "seekdir" /\ left' = left
    BY <1>0, <1>5 DEF SeekDirStep
  <2>2. ReplayCounts' /\ SeekLands'
    BY <1>0, <1>2, <1>3, <1>5, <2>1 DEF ReplayCounts, SeekLands
  <2>3. QED
    BY <1>4, <2>2 DEF SeekInv
<1>6. CASE ~r.again /\ r.ret = NoEntry
  <2>1. pc' = "idle" /\ done' = [op |-> "seekdir", arg |-> arg]
    BY <1>0, <1>6 DEF SeekDirStep
  <2>2. arg \notin told \cup {-1}
    <3>1. SUFFICES ASSUME arg \in told PROVE FALSE
      BY <1>1, <1>3
    <3>2. ~dirp.end_reached /\ Ahead(dirp) = {}
      BY <1>2, <1>3, <1>6, <3>1
    <3>3. dirp.current_position = Cardinality(Readable(disk))
      BY <1>1, <3>2, FS_EmptySet DEF SeekInv, PositionCounts
    <3>4. arg \in 0..Cardinality(Readable(disk))
      BY <1>1, <1>3, <3>1 DEF SeekInv, ToldInListing
    <3>5. QED
      BY <1>1, <1>3, <3>3, <3>4
  <2>3. ReplayCounts' /\ SeekLands'
    BY <1>0, <2>1, <2>2 DEF ReplayCounts, SeekLands
  <2>4. QED
    BY <1>4, <2>3 DEF SeekInv
<1>7. CASE ~r.again /\ r.ret # NoEntry
  <2>1. left' = left - 1 /\ r.d.current_position = dirp.current_position + 1
        /\ ~r.d.end_reached
    BY <1>2, <1>7 DEF SeekDirStep
  <2>2. CASE left = 1
    <3>1. pc' = "idle" /\ done' = [op |-> "seekdir", arg |-> arg]
      BY <1>7, <2>2 DEF SeekDirStep
    <3>2. Tell(dirp') = arg
      BY <1>0, <1>1, <1>3, <2>1, <2>2 DEF Tell
    <3>3. QED
      BY <1>4, <3>1, <3>2 DEF SeekInv, ReplayCounts, SeekLands
  <2>3. CASE left # 1
    <3>1. pc' = "seekdir"
      BY <1>7, <2>3 DEF SeekDirStep
    <3>2. ReplayCounts'
      BY <1>0, <1>1, <1>3, <2>1, <3>1 DEF ReplayCounts
    <3>3. QED
      BY <1>4, <3>1, <3>2 DEF SeekInv, SeekLands
  <2>4. QED
    BY <2>2, <2>3
<1>8. QED
  BY <1>5, <1>6, <1>7

(* No stream is open and telldir has returned nothing at the start.       *)
LEMMA InitSeek == Init => SeekInv
BY DEF Init, SeekInv, StreamOnDisk, PositionCounts, ToldInListing, ReplayCounts,
       SeekLands

(* Every step of the library keeps SeekInv, on a disk nobody else changes *)
(* and with no name longer than MAX_PATH.                                  *)
LEMMA NextSeek ==
  ASSUME NoChange, ShortNames
  PROVE  IInv /\ SeekInv /\ [Next]_vars => SeekInv'
<1> SUFFICES ASSUME IInv, SeekInv, [Next]_vars PROVE SeekInv'
  OBVIOUS
<1>1. CASE \E p \in Paths : OpenDir(p)
  BY <1>1, OpenDirSeek
<1>2. CASE ReadDir
  BY <1>2, ReadDirSeek
<1>3. CASE ReadDirStep
  BY <1>3, ReadDirStepSeek
<1>4. CASE CloseDir
  BY <1>4, CloseDirSeek
<1>5. CASE RewindDir
  BY <1>5, RewindDirSeek
<1>6. CASE TellDir
  BY <1>6, TellDirSeek
<1>7. CASE NullCall
  BY <1>7, NullCallSeek
<1>8. CASE \E loc \in Seeks : SeekDir(loc)
  BY <1>8, SeekDirSeek
<1>9. CASE SeekDirStep
  BY <1>9, SeekDirStepSeek
<1>10. CASE SeekEndStep
  BY <1>10, SeekEndStepSeek
<1>11. CASE ChangeDisk
  BY <1>11, ChangeDiskSeek
<1>12. CASE UNCHANGED vars
  BY <1>12, StutterSeek
<1>13. QED
  BY <1>1, <1>2, <1>3, <1>4, <1>5, <1>6, <1>7, <1>8, <1>9, <1>10, <1>11, <1>12
     DEF Next

(* seekdir lands where telldir said, for every value of the constants: on *)
(* a disk no other process changes while the stream is open, and with no  *)
(* file name longer than MAX_PATH, seekdir(dirp, loc) for a location loc  *)
(* that telldir returned (or -1) leaves the stream so that telldir        *)
(* returns loc again -- dirent.cpp's replay of readdir from the start of  *)
(* the enumeration always reaches loc.                                     *)
THEOREM SeekLandsProved ==
  ASSUME NoChange, ShortNames
  PROVE  Spec => []SeekLands
<1>1. Init => IInv /\ SeekInv
  BY InitIInv, InitSeek
<1>2. IInv /\ SeekInv /\ [Next]_vars => IInv' /\ SeekInv'
  BY NextIInv, NextSeek
<1>3. IInv /\ SeekInv => SeekLands
  BY DEF SeekInv
<1>4. QED
  BY <1>1, <1>2, <1>3, PTL DEF Spec

=============================================================================
