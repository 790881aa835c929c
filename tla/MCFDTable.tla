----------------------------- MODULE MCFDTable -----------------------------
(* A small instance of FDTable for TLC.                                    *)
EXTENDS FDTable

\* What any directory may be restricted to, and a right that no directory has.
MCGrants ==
  {[rights |-> {"PATH_OPEN", "FD_READDIR"}, inheriting |-> {}],
   [rights |-> {"SOCK_SHUTDOWN"}, inheriting |-> {}]}

MCOpenFlags == {{}, {"CREAT", "TRUNC"}, {"EXCL"}}

MCFDFlags == {{}, {"SYNC", "APPEND"}}
=============================================================================
