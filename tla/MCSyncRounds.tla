---------------------------- MODULE MCSyncRounds ----------------------------
(* Instances of SyncRounds for TLC.                                         *)
EXTENDS SyncAgreementProofs

MCAllEvents == {"offline", "kill", "restart", "fail", "late", "remove"}
=============================================================================
