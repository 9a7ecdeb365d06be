---------------------------- MODULE FileReplace ----------------------------
(***************************************************************************)
(* What the transfer of one file promises to whoever owns the target path, *)
(* with no channels, tasks or blocks: the file at the path is replaced at  *)
(* most once, and by the whole new content, unless the session was cut     *)
(* before the receiver saw Complete (then the replacement may be a part of *)
(* it) or the target was edited while it was being used as the base of a   *)
(* delta (then it may be a mixture).  FileSync implements it.              *)
(***************************************************************************)
VARIABLES
  target,       \* content at the target path
  replaced,     \* TRUE once the path was replaced
  interrupted,  \* TRUE once the receiver stopped without having seen Complete
  edited        \* TRUE once somebody else wrote the target path

vars == <<target, replaced, interrupted, edited>>

Init ==
  /\ target \in {"absent", "old"}
  /\ replaced = FALSE
  /\ interrupted = FALSE
  /\ edited = FALSE

\* A user of the receiving machine writes the target before it is replaced.
Edit ==
  /\ ~replaced /\ ~edited
  /\ target' = "edited"
  /\ edited' = TRUE
  /\ UNCHANGED <<replaced, interrupted>>

Interrupt ==
  /\ interrupted' = TRUE
  /\ UNCHANGED <<target, replaced, edited>>

Replace ==
  /\ ~replaced
  /\ replaced' = TRUE
  /\ \/ target' = "new"
     \/ interrupted /\ target' = "partial"
     \/ edited /\ target' = "garbled"
  /\ UNCHANGED <<interrupted, edited>>

Next == Edit \/ Interrupt \/ Replace

Spec == Init /\ [][Next]_vars
=============================================================================
