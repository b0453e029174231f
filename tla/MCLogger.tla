------------------------------- MODULE MCLogger -------------------------------
(***************************************************************************)
(* Two writers of two or three messages in all and a buffer of 5 units, so *)
(* that it fills up.  LOGMSG_SIZE is 2: the kinds are a short CRIT         *)
(* message, one that write(format) cuts, and one that write(string) stores *)
(* whole and flush reads in two pieces.                                    *)
(***************************************************************************)
EXTENDS Logger

CONSTANTS w1, w2

MCWriters == {w1, w2}

MCKinds ==
  { [via |-> "format", size |-> 1, level |-> "CRIT"],
    [via |-> "format", size |-> 2, level |-> "INFO"],
    [via |-> "string", size |-> 3, level |-> "INFO"] }
=============================================================================
