------------------------------- MODULE MCDelta ------------------------------
(* Instances of DeltaTransfer for TLC.                                      *)
EXTENDS DeltaTransfer

CONSTANT MaxLen  \* length of the longest file

MCFiles == UNION {[1..n -> Byte] : n \in 0..MaxLen}

\* With words of three bits, different blocks of the same length share a hash.
MCTable == [b \in Byte |-> [k \in Bit |-> IF b = 0 THEN k # 1 ELSE k = 2]]
=============================================================================
