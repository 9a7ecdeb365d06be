------------------------------- MODULE BuzHash ------------------------------
(***************************************************************************)
(* The rolling hash of utils/hash.rs.  A word is the function from its bit *)
(* positions to BOOLEAN, so that rotation and exclusive or are about bits, *)
(* for any width (64), any table of random words and any window size.      *)
(***************************************************************************)
EXTENDS Integers, Sequences, FiniteSets

CONSTANTS
  Byte,   \* the values of a byte
  Width,  \* bits of a word (64)
  Table   \* BUZ_HASH_TABLE

Bit == 0..Width-1
Word == [Bit -> BOOLEAN]

ASSUME WidthAssumption == Width \in Nat \ {0}
ASSUME TableAssumption == Table \in [Byte -> Word]

\* Rotation to the left: bit k comes from bit k - n, cyclically.
Rotate(x, n) == [k \in Bit |-> x[(k - n) % Width]]

Xor(x, y) == [k \in Bit |-> x[k] # y[k]]

\* The word that byte n of a window contributes.
Term(window, size, n) == Rotate(Table[window[n]], size - n)

\* The exclusive or of all contributions: a bit is set iff an odd number of them
\* sets it.
Hash(window, size) ==
  [k \in Bit |-> Cardinality({n \in DOMAIN window : Term(window, size, n)[k]}) % 2 = 1]

\* Shift the window by one byte; old is the byte that leaves it.
Shift(window, byte) == Append(Tail(window), byte)

\* Fault: the byte that leaves is rotated one position short.
RollOneShort(hash, old, byte, size) ==
  Xor(Xor(Rotate(hash, 1), Rotate(Table[old], size - 1)), Table[byte])

Roll(hash, old, byte, size) ==
  Xor(Xor(Rotate(hash, 1), Rotate(Table[old], size)), Table[byte])
=============================================================================
