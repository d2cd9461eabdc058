----------------------------- MODULE OutputLog -----------------------------
(***************************************************************************)
(* The gfxstream logging shim of src/unnamed/part_006: OutputLog formats   *)
(* a message into a stack buffer of bufferSize bytes with vsnprintf, marks *)
(* a truncated message with "...", and hands a string_view of the buffer   *)
(* to absl logging at the level its severity character selects.           *)
(*                                                                         *)
(* The formatted text is abstracted to its characters' positions: the      *)
(* i-th character vsnprintf would write is Char(i).  A buffer is a         *)
(* function from 0..BufferSize-1 to characters, Nul, Dot or Junk (bytes    *)
(* vsnprintf left unwritten).  vsnprintf returns the length of the full    *)
(* text, or a negative value on an encoding error; Sizes are the returns   *)
(* explored.                                                               *)
(***************************************************************************)
EXTENDS Integers, Sequences

CONSTANTS
  BufferSize,  \* bufferSize, 4096 in the code
  Sizes        \* values vsnprintf may return

ASSUME OutputLogAssumption ==
  /\ BufferSize \in Nat /\ BufferSize >= 3
  /\ Sizes \subseteq Int

(* Severity characters: the six the code names, and "X" for any other. *)
Severities == {"I", "W", "E", "F", "V", "D", "X"}

Char(i) == <<"text", i>>
Nul == <<"nul", 0>>
Dot == <<"dot", 0>>
Junk == <<"junk", 0>>

(* The view a negative length gives: string_view(buffer, strlen) with    *)
(* strlen converted to size_t, far past the end of the buffer.            *)
Overread == <<<<"overread", 0>>>>

NoOut == [level |-> "none", ts |-> FALSE, size |-> 0, msg |-> <<>>]

(* vsnprintf(buffer, bufferSize, ...), line 74: at most bufferSize - 1    *)
(* characters and a terminating nul; nothing defined on an error.         *)
Vsnprintf(size) ==
  [i \in 0..BufferSize - 1 |->
     IF size < 0 THEN Junk
     ELSE IF i < size /\ i < BufferSize - 1 THEN Char(i)
     ELSE IF i = IF size < BufferSize - 1 THEN size ELSE BufferSize - 1 THEN Nul
     ELSE Junk]

(* Variant of the truncation test with > for >= (line 76): a text of      *)
(* exactly bufferSize characters is neither marked nor cut.               *)
MessageOffByOne(size) ==
  LET buf == Vsnprintf(size)
      cut == size > BufferSize
      marked == IF cut THEN [buf EXCEPT ![BufferSize - 3] = Dot,
                                        ![BufferSize - 2] = Dot,
                                        ![BufferSize - 1] = Dot]
                       ELSE buf
      strlen == IF cut THEN BufferSize ELSE size
  IN IF strlen < 0 THEN Overread ELSE [i \in 1..strlen |-> marked[i - 1]]

(* Lines 69-83: a text too long for the buffer gets "..." (strncpy of     *)
(* three characters, no nul) over its last three bytes and strlen stays   *)
(* bufferSize; otherwise strlen is vsnprintf's return.  The string_view   *)
(* of line 83 then covers strlen bytes of the buffer.                     *)
Message(size) ==
  LET buf == Vsnprintf(size)
      cut == size >= BufferSize
      marked == IF cut THEN [buf EXCEPT ![BufferSize - 3] = Dot,
                                        ![BufferSize - 2] = Dot,
                                        ![BufferSize - 1] = Dot]
                       ELSE buf
      strlen == IF cut THEN BufferSize ELSE size
  IN IF strlen < 0 THEN Overread ELSE [i \in 1..strlen |-> marked[i - 1]]

(* The severity switches of lines 85-128 (no default case).               *)
Level(sev) ==
  CASE sev = "I" -> "INFO"  [] sev = "W" -> "WARNING" [] sev = "E" -> "ERROR"
    [] sev = "F" -> "FATAL" [] sev = "V" -> "VLOG1"   [] sev = "D" -> "VLOG2"
    [] OTHER -> "none"

(* The switch of gfx_stream_logger, lines 36-58: the same letters, and   *)
(* INFO for any other (its default case).                                 *)
StreamLevel(sev) == IF Level(sev) = "none" THEN "INFO" ELSE Level(sev)

VARIABLES
  verbose,  \* sEnableVerbose
  out,      \* what the last OutputLog call handed to absl logging
  direct,   \* the level the last gfx_stream_logger call logged at
  alive     \* the process has not been ended by a FATAL log

vars == <<verbose, out, direct, alive>>

Init ==
  /\ verbose = FALSE
  /\ out = NoOut
  /\ direct = "none"
  /\ alive = TRUE

(* set_gfxstream_enable_verbose_logs, line 31. *)
EnableVerbose ==
  /\ alive
  /\ verbose' = TRUE
  /\ UNCHANGED <<out, direct, alive>>

(* OutputLog, lines 63-129: V messages are dropped unless verbose (line   *)
(* 65); the message goes to the level of its severity, with a timestamp   *)
(* when timestamp_us is not 0; ABSL_LOG(FATAL) ends the process.          *)
Log(sev, size, ts) ==
  /\ alive
  /\ ~(sev = "V" /\ ~verbose)
  /\ out' = [level |-> Level(sev), ts |-> ts, size |-> size, msg |-> Message(size)]
  /\ alive' = (Level(sev) # "FATAL")
  /\ UNCHANGED <<verbose, direct>>

(* gfx_stream_logger, lines 33-59: the caller's nul-terminated message    *)
(* goes to absl logging as it is, whatever sEnableVerbose says and with   *)
(* timestamp_us ignored; ABSL_LOG(FATAL) ends the process.                *)
StreamLog(sev) ==
  /\ alive
  /\ direct' = StreamLevel(sev)
  /\ alive' = (StreamLevel(sev) # "FATAL")
  /\ UNCHANGED <<verbose, out>>

Next ==
  \/ EnableVerbose
  \/ \E sev \in Severities, size \in Sizes, ts \in BOOLEAN : Log(sev, size, ts)
  \/ \E sev \in Severities : StreamLog(sev)

Spec == Init /\ [][Next]_vars

-----------------------------------------------------------------------------
(* The text vsnprintf would write for a return value n, cut to the buffer *)
(* and marked with "..." when it does not fit: what the comment           *)
(* "Indicate trunctation" (line 77) means the logged message to be.        *)
Expected(n) ==
  IF n < BufferSize THEN [i \in 1..n |-> Char(i - 1)]
  ELSE [i \in 1..BufferSize - 3 |-> Char(i - 1)] \o <<Dot, Dot, Dot>>

(* Every message handed to absl logging is the formatted text, truncated *)
(* and marked when too long: no nul, no unwritten byte, nothing read past *)
(* the buffer, for every value vsnprintf may return.                      *)
MessageIsFormattedText ==
  out.level # "none" => out.msg = Expected(out.size)
=============================================================================
