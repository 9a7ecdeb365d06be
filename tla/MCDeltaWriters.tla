--------------------------- MODULE MCDeltaWriters ---------------------------
(* Instances of DeltaWriters for TLC.                                       *)
EXTENDS DeltaWriters, TLC

MCTmpOf == ("a" :> "a.tmp") @@ ("a.tmp" :> "a.tmp.tmp") @@ ("d" :> "d.tmp") @@ ("r" :> "r.tmp") @@ (".h" :> ".h.tmp")
MCName == {"a", "a.tmp", "a.tmp.tmp", "d", "d.tmp", "r", "r.tmp", ".h", ".h.tmp"}
MCDotted == {".h", ".h.tmp"}
MCChunks == ("j1" :> 2) @@ ("j2" :> 1)
MCRoots == {<<"/", "r">>, <<".", "r">>, <<".">>}
MCWirePaths == {<<"a">>, <<"a.tmp">>, <<"d">>, <<"d", "a">>, <<"d", ".", "..", "a">>,
                <<".h">>, <<"d", "..", "..", "a">>, <<"/", "r", "a">>}
MCOldFiles == ("u1" :> <<"a">>) @@ ("u2" :> <<"a.tmp">>)
MCEvents == {"kill", "cut", "diskError"}
=============================================================================
