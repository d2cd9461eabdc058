------------------------------ MODULE MCDirent ------------------------------
(* Model-checking instances of Dirent: a directory holding ".", "..", two *)
(* short names and, in some runs, one name too long for d_name.            *)
EXTENDS Dirent

CONSTANTS a, b, c, long

(* ".", "..", a, a name too long for d_name, b: readdir must skip the     *)
(* dots and fail on the long name.                                         *)
MCListingsLong == {<<Dot, DotDot, a, long, b>>}

(* The same directory with every name fitting d_name. *)
MCListingsShort == {<<Dot, DotDot, a, b>>}

(* The other process deletes the directory and re-creates it as it was.   *)
MCEnvDeleteLong == {NoDir, <<Dot, DotDot, a, long, b>>}

MCEnvNone == {}
=============================================================================
