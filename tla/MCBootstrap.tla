---------------------------- MODULE MCBootstrap -----------------------------
(* Instances of Bootstrap for TLC.                                          *)
EXTENDS Bootstrap, TLC

MCEvents == {"crash", "loss", "kill"}
MCSymmetry == Permutations(Client)
=============================================================================
