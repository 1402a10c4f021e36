--------------------------- MODULE MCNodeTerminal ---------------------------
(* Small instances of NodeTerminal for TLC.                                 *)
EXTENDS NodeTerminal

\* One spelling of every kind of command, and a word that is none.
SomeWords == {"P", "GET", "SC", "CL", "STATUS", "C", "H", "EXIT", "PUTT"}
=============================================================================
