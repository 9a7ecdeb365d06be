----------------------------- MODULE MCFileSync -----------------------------
(* Instances of FileSync for TLC.                                           *)
EXTENDS FileSyncProofs

\* An empty file, one instruction of each kind, and a copy before a literal.
MCScripts == {<<>>, <<"block">>, <<"literal">>, <<"block", "literal">>}
MCAllEvents == {"reset", "noSession", "unreadable", "uncached", "diskError", "edit", "vanish", "crash"}
=============================================================================
