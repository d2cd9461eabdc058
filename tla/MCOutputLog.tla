---------------------------- MODULE MCOutputLog ----------------------------
EXTENDS OutputLog

(* A buffer of six bytes stands for the 4096 of the code: room for a      *)
(* text shorter than the buffer, one that exactly fills it, and longer.   *)
MCBufferSize == 6

(* The lengths a successful vsnprintf returns, up to past the buffer.     *)
MCLengths == 0..MCBufferSize + 2

(* The same, with vsnprintf's negative return on an encoding error.       *)
MCReturns == -1..MCBufferSize + 2
=============================================================================
