------------------------- MODULE DirentOrderProofs -------------------------
(***************************************************************************)
(* Proof that readdir enumerates the directory in order and that telldir  *)
(* numbers what it returned (ReadDirInOrder), for every listing and every *)
(* bound, when no other process changes the directory and every name fits *)
(* in d_name.                                                              *)
(*                                                                         *)
(* The argument: a readdir that returns an entry leaves the find data on   *)
(* it (ReadDirReturned, which holds whatever the directory does).  The    *)
(* entries up to the find data are the readable entries minus those still *)
(* ahead, and PositionCounts of SeekInv says current_position plus the    *)
(* entries ahead is the number of readable entries.                        *)
(***************************************************************************)
EXTENDS DirentSeekProofs

(* One pass of readdir's loop that returns an entry leaves the find data  *)
(* on that entry, past the first read and not at the end.                  *)
LEMMA IterateReturned ==
  ASSUME NEW d \in DirRec, d.cur \in 1..Len(d.snap), NEW e,
         Iterate(d, e).ret # NoEntry
  PROVE  LET r == Iterate(d, e) IN
           /\ ~r.d.first /\ ~r.d.end_reached
           /\ r.d.cur \in Readable(r.d.snap)
           /\ r.d.snap[r.d.cur] = r.ret
<1> DEFINE i  == IF d.first THEN d.cur ELSE d.cur + 1
           d1 == [d EXCEPT !.cur = i, !.first = FALSE]
           d2 == [d1 EXCEPT !.current_position = @ + 1]
<1>1. /\ ~d.end_reached
      /\ ~(~d.first /\ d.handle = Invalid)
      /\ ~(~d.first /\ d.cur >= Len(d.snap))
      /\ d.snap[i] \notin {Dot, DotDot}
      /\ d.snap[i] \notin LongNames
  BY DEF Iterate
<1>2. Iterate(d, e) = [d |-> d2, again |-> FALSE, ret |-> d.snap[i], err |-> e]
  BY <1>1 DEF Iterate
<1>3. i \in 1..Len(d.snap)
  BY <1>1 DEF DirRec
<1>4. /\ d2.first = FALSE /\ d2.end_reached = d.end_reached
      /\ d2.cur = i /\ d2.snap = d.snap
  BY DEF DirRec
<1>5. i \in Readable(d.snap)
  BY <1>1, <1>3 DEF Readable
<1>6. Iterate(d, e).d = d2 /\ Iterate(d, e).ret = d.snap[i]
  BY <1>2
<1>7. QED
  BY <1>1, <1>4, <1>5, <1>6

(* The steps that end with readdir having just returned are readdir's own; *)
(* every other step ends in another call, in a call in progress, or with  *)
(* the stream closed.                                                      *)
LEMMA ReturnedStep ==
  IInv /\ ReadDirReturned /\ [Next]_vars => ReadDirReturned'
<1> SUFFICES ASSUME IInv, ReadDirReturned, [Next]_vars PROVE ReadDirReturned'
  OBVIOUS
<1> DEFINE Other == pc' # "idle" \/ ~open' \/ done'.op # "readdir"
<1>1. Other => ReadDirReturned'
  BY DEF ReadDirReturned
<1>2. CASE \E p \in Paths : OpenDir(p)
  BY <1>1, <1>2 DEF OpenDir
<1>3. CASE ReadDir
  BY <1>1, <1>3 DEF ReadDir
<1>4. CASE ReadDirStep
  <2> DEFINE r == Iterate(dirp, errno)
  <2>1. IterFacts /\ open /\ dirp \in DirRec /\ dirp.cur \in 1..Len(dirp.snap)
    BY <1>4, IterStart DEF ReadDirStep, IInv, TypeOK, HandleBookkeeping
  <2>2. CASE r.again
    BY <1>1, <1>4, <2>2 DEF ReadDirStep, r
  <2>3. CASE ~r.again
    <3>1. dirp' = r.d /\ open' /\ done' = [op |-> "readdir", arg |-> r.ret]
      BY <1>4, <2>1, <2>3 DEF ReadDirStep, r
    <3>2. CASE r.ret = NoEntry
      BY <3>1, <3>2 DEF ReadDirReturned
    <3>3. CASE r.ret # NoEntry
      <4>1. /\ ~r.d.first /\ ~r.d.end_reached
            /\ r.d.cur \in Readable(r.d.snap)
            /\ r.d.snap[r.d.cur] = r.ret
        BY <2>1, <3>3, IterateReturned DEF r
      <4>2. QED
        BY <3>1, <4>1 DEF ReadDirReturned
    <3>4. QED
      BY <3>2, <3>3
  <2>4. QED
    BY <2>2, <2>3
<1>5. CASE CloseDir
  BY <1>1, <1>5 DEF CloseDir
<1>6. CASE RewindDir
  BY <1>1, <1>6 DEF RewindDir
<1>7. CASE TellDir
  BY <1>1, <1>7 DEF TellDir
<1>8. CASE NullCall
  BY <1>1, <1>8 DEF NullCall
<1>9. CASE \E loc \in Seeks : SeekDir(loc)
  BY <1>1, <1>9 DEF SeekDir
<1>10. CASE SeekDirStep
  BY <1>1, <1>10 DEF SeekDirStep
<1>11. CASE SeekEndStep
  BY <1>1, <1>11 DEF SeekEndStep
<1>12. CASE ChangeDisk
  BY <1>12 DEF ChangeDisk, ReadDirReturned
<1>13. CASE UNCHANGED vars
  BY <1>13 DEF vars, ReadDirReturned
<1>14. QED
  BY <1>2, <1>3, <1>4, <1>5, <1>6, <1>7, <1>8, <1>9, <1>10, <1>11, <1>12,
     <1>13 DEF Next

(* When readdir has just returned an entry, the entries up to it are the  *)
(* readable ones that are not ahead, so PositionCounts counts them.        *)
LEMMA InOrder ==
  ASSUME IInv, SeekInv, ReadDirReturned
  PROVE  ReadDirInOrder
<1> SUFFICES ASSUME pc = "idle", open, done.op = "readdir", done.arg # NoEntry
             PROVE  \E i \in Readable(disk) :
                      /\ disk[i] = done.arg
                      /\ Cardinality({j \in Readable(disk) : j <= i}) = Tell(dirp)
  BY DEF ReadDirInOrder
<1> DEFINE c == dirp.cur
           U == {j \in Readable(disk) : j <= c}
<1>1. /\ ~dirp.first /\ ~dirp.end_reached
      /\ c \in Readable(dirp.snap) /\ dirp.snap[c] = done.arg
  BY DEF ReadDirReturned
<1>2. dirp.snap = disk /\ dirp \in DirRec
  BY DEF SeekInv, StreamOnDisk, IInv, TypeOK
<1>3. Tell(dirp) = dirp.current_position /\ dirp.current_position \in Nat
  BY <1>1, <1>2 DEF Tell, DirRec
<1>4. dirp.current_position + Cardinality(Ahead(dirp)) = Cardinality(Readable(disk))
  BY <1>1 DEF SeekInv, PositionCounts
<1>5. U = Readable(disk) \ Ahead(dirp)
  <2>1. Ahead(dirp) = {i \in Readable(disk) : i >= c + 1}
    BY <1>1, <1>2 DEF Ahead, NextIndex
  <2>2. Readable(disk) \subseteq Nat /\ c \in Nat
    BY <1>1, <1>2 DEF Readable
  <2>3. QED
    BY <2>1, <2>2
<1>6. /\ IsFiniteSet(Readable(disk)) /\ Cardinality(Readable(disk)) \in Nat
      /\ Cardinality(Ahead(dirp)) \in Nat
      /\ Readable(disk) \cap Ahead(dirp) = Ahead(dirp)
  BY <1>2, AheadFinite DEF Ahead
<1>7. Cardinality(U) = Cardinality(Readable(disk)) - Cardinality(Ahead(dirp))
  BY <1>5, <1>6, FS_Difference
<1>8. Cardinality(U) = Tell(dirp)
  BY <1>3, <1>4, <1>6, <1>7
<1>9. QED
  BY <1>1, <1>2, <1>8

(* readdir enumerates an unchanged directory of short names in order:     *)
(* the entry a readdir returned is the telldir()-th of the listing.       *)
THEOREM ReadDirInOrderProved ==
  ASSUME NoChange, ShortNames
  PROVE  Spec => []ReadDirInOrder
<1>1. Init => IInv /\ SeekInv /\ ReadDirReturned
  BY InitIInv, InitSeek DEF Init, ReadDirReturned
<1>2. IInv /\ SeekInv /\ ReadDirReturned /\ [Next]_vars
        => IInv' /\ SeekInv' /\ ReadDirReturned'
  BY NextIInv, NextSeek, ReturnedStep
<1>3. IInv /\ SeekInv /\ ReadDirReturned => ReadDirInOrder
  BY InOrder
<1>4. QED
  BY <1>1, <1>2, <1>3, PTL DEF Spec
====
