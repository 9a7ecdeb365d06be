--------------------------- MODULE MCTriggerQueue ---------------------------
(* Instances of TriggerQueue for TLC.                                       *)
EXTENDS TriggerQueue

\* The weights keep the order of the default ones (2, 5 and 10): here a creation
\* passes the threshold alone, the others only together.
\* state.json, when the client runs inside the directory it watches.
MCQuiet == <<"modify", "modify">>
\* One new file: more than the threshold.
MCDownload == <<"create", "modify">>
=============================================================================
