--------------------------- MODULE OutputLogProofs ---------------------------
(***************************************************************************)
(* Proofs about OutputLog for every buffer size, the 4096 of the code      *)
(* included: for every length vsnprintf may return, the message handed to  *)
(* absl logging is the formatted text, cut and marked with "..." when it   *)
(* does not fit.  The model checks this for a six-byte buffer; the proof   *)
(* covers all sizes.                                                       *)
(***************************************************************************)
EXTENDS OutputLog, SequenceTheorems, TLAPS

(* The buffer size is a natural number of at least three bytes. *)
LEMMA BufferNat == BufferSize \in Nat /\ BufferSize >= 3
BY OutputLogAssumption

(* What vsnprintf left in the bytes the view covers, for a text that fits.*)
LEMMA FitsBytes ==
  ASSUME NEW n \in Nat, n < BufferSize, NEW j \in 0..n - 1
  PROVE  Vsnprintf(n)[j] = Char(j)
BY BufferNat DEF Vsnprintf

(* The same for a text that does not fit, below the "..." mark. *)
LEMMA CutBytes ==
  ASSUME NEW n \in Nat, n >= BufferSize, NEW j \in 0..BufferSize - 4
  PROVE  Vsnprintf(n)[j] = Char(j)
BY BufferNat DEF Vsnprintf

(* OutputLog's message for a length n is the expected text. *)
LEMMA MessageCorrect ==
  ASSUME NEW n \in Nat
  PROVE  Message(n) = Expected(n)
<1>1. CASE n < BufferSize
  <2>1. Message(n) = [i \in 1..n |-> Vsnprintf(n)[i - 1]]
    BY <1>1, BufferNat DEF Message
  <2>2. \A i \in 1..n : Vsnprintf(n)[i - 1] = Char(i - 1)
    BY <1>1, FitsBytes
  <2>3. Expected(n) = [i \in 1..n |-> Char(i - 1)]
    BY <1>1 DEF Expected
  <2>4. QED
    BY <2>1, <2>2, <2>3
<1>2. CASE n >= BufferSize
  <2> DEFINE buf == Vsnprintf(n)
             marked == [buf EXCEPT ![BufferSize - 3] = Dot, ![BufferSize - 2] = Dot,
                                   ![BufferSize - 1] = Dot]
  <2>1. Message(n) = [i \in 1..BufferSize |-> marked[i - 1]]
    BY <1>2, BufferNat DEF Message
  <2>2. DOMAIN buf = 0..BufferSize - 1
    BY DEF Vsnprintf
  <2>3. \A i \in 1..BufferSize - 3 : marked[i - 1] = Char(i - 1)
    BY <1>2, <2>2, CutBytes, BufferNat
  <2>4. \A i \in BufferSize - 2..BufferSize : marked[i - 1] = Dot
    BY <2>2, BufferNat
  <2>5. Expected(n) = [i \in 1..BufferSize - 3 |-> Char(i - 1)] \o <<Dot, Dot, Dot>>
    BY <1>2, BufferNat DEF Expected
  <2> DEFINE text == [i \in 1..BufferSize - 3 |-> Char(i - 1)]
             dots == <<Dot, Dot, Dot>>
             whole == [i \in 1..BufferSize |-> IF i <= BufferSize - 3 THEN Char(i - 1) ELSE Dot]
             S == {Dot} \cup {Char(j) : j \in Nat}
  <2>6. text \in Seq(S) /\ dots \in Seq(S) /\ whole \in Seq(S)
    BY BufferNat
  <2>7. Len(text \o dots) = BufferSize
        /\ \A i \in 1..BufferSize : (text \o dots)[i] = whole[i]
    BY <2>6, ConcatProperties, BufferNat
  <2>8. text \o dots = whole
    <3>1. text \o dots \in Seq(S)
      BY <2>6, ConcatProperties
    <3>2. Len(whole) = BufferSize
      BY BufferNat
    <3>3. QED
      BY <3>1, <3>2, <2>6, <2>7, SeqEqual
  <2>9. [i \in 1..BufferSize |-> marked[i - 1]] = whole
    <3>1. ASSUME NEW i \in 1..BufferSize PROVE marked[i - 1] = whole[i]
      <4>1. CASE i <= BufferSize - 3
        <5>1. i \in 1..BufferSize - 3
          BY <4>1, BufferNat
        <5>2. marked[i - 1] = Char(i - 1)
          BY <5>1, <2>3
        <5>3. whole[i] = Char(i - 1)
          BY <4>1 DEF whole
        <5>4. QED
          BY <5>2, <5>3
      <4>2. CASE i > BufferSize - 3
        <5>1. i \in BufferSize - 2..BufferSize
          BY <4>2, BufferNat
        <5>2. marked[i - 1] = Dot
          BY <5>1, <2>4
        <5>3. whole[i] = Dot
          BY <4>2, BufferNat DEF whole
        <5>4. QED
          BY <5>2, <5>3
      <4>3. QED
        BY <4>1, <4>2, BufferNat
    <3>2. QED
      BY <3>1
  <2>10. QED
    BY <2>1, <2>5, <2>8, <2>9
<1>3. QED
  BY <1>1, <1>2, BufferNat

-----------------------------------------------------------------------------
(* The invariant the proof carries: the last message handed to absl        *)
(* logging is Message of a length vsnprintf returned.                      *)
IInv ==
  out.level # "none" => out.size \in Sizes /\ out.msg = Message(out.size)

(* When vsnprintf never reports an encoding error, every message OutputLog *)
(* hands to absl logging (line 83) is the formatted text, cut and marked   *)
(* with "..." when too long, whatever the buffer size and the sequence of  *)
(* calls.                                                                  *)
THEOREM FormattedText ==
  ASSUME Sizes \subseteq Nat
  PROVE  Spec => []MessageIsFormattedText
<1>1. Init => IInv
  BY DEF Init, IInv, NoOut
<1>2. IInv /\ [Next]_vars => IInv'
  <2> SUFFICES ASSUME IInv, [Next]_vars PROVE IInv'
    OBVIOUS
  <2>1. CASE EnableVerbose
    BY <2>1 DEF EnableVerbose, IInv
  <2>2. ASSUME NEW sev \in Severities, NEW size \in Sizes, NEW ts \in BOOLEAN,
               Log(sev, size, ts)
        PROVE  IInv'
    BY <2>2 DEF Log, IInv
  <2>3. ASSUME NEW sev \in Severities, StreamLog(sev)
        PROVE  IInv'
    BY <2>3 DEF StreamLog, IInv
  <2>4. CASE UNCHANGED vars
    BY <2>4 DEF vars, IInv
  <2>5. QED
    BY <2>1, <2>2, <2>3, <2>4 DEF Next
<1>3. IInv => MessageIsFormattedText
  BY MessageCorrect DEF IInv, MessageIsFormattedText
<1>4. QED
  BY <1>1, <1>2, <1>3, PTL DEF Spec
=============================================================================
