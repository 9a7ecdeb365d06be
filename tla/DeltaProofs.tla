----------------------------- MODULE DeltaProofs ----------------------------
(***************************************************************************)
(* Proofs about BuzHash, for every table, word width and window size, and  *)
(* about DeltaTransfer, for all files, block sizes and literal limits.     *)
(***************************************************************************)
EXTENDS DeltaTransfer, TLAPS, SequenceTheorems, FiniteSetTheorems

-----------------------------------------------------------------------------
(* Rolling the hash.                                                        *)

LEMMA ModRange ==
  ASSUME NEW W \in Nat \ {0}, NEW x \in Int
  PROVE  x % W \in 0..W-1
OBVIOUS

LEMMA ModSmall ==
  ASSUME NEW W \in Nat \ {0}, NEW x \in 0..W-1
  PROVE  x % W = x
OBVIOUS

LEMMA ModPeriod ==
  ASSUME NEW W \in Nat \ {0}, NEW x \in Int
  PROVE  (x + W) % W = x % W
<1> DEFINE q == x \div W
           r == x % W
<1>1. q \in Int /\ x = W * q + r
  OBVIOUS
<1>2. r \in 0..W-1
  OBVIOUS
<1> HIDE DEF q, r
<1>3. W * (q + 1) = W * q + W /\ W * q \in Int /\ q + 1 \in Int
  BY <1>1
<1>4. x + W = W * (q + 1) + r
  BY <1>1, <1>2, <1>3
<1>5. \A p \in Int : (W * p + r) % W = r
  BY <1>2
<1>6. (W * q + r) % W = r /\ (W * (q + 1) + r) % W = r
  BY <1>1, <1>3, <1>5
<1> QED
  BY <1>1, <1>4, <1>6

LEMMA ModStep ==
  ASSUME NEW W \in Nat \ {0}, NEW k \in 0..W-1, NEW n \in Nat
  PROVE  (((k - 1) % W) - n) % W = (k - (n + 1)) % W
<1>1. CASE k = 0
  <2>1. (k - 1) % W = W - 1
    <3>1. (-1) % W = W - 1
      OBVIOUS
    <3> QED
      BY <1>1, <3>1
  <2>2. -1 - n \in Int /\ (-1 - n) + W = W - 1 - n /\ (-1 - n) = k - (n + 1)
    BY <1>1
  <2>3. ((-1 - n) + W) % W = (-1 - n) % W
    BY <2>2, ModPeriod
  <2> QED
    BY <2>1, <2>2, <2>3
<1>2. CASE k # 0
  BY <1>2, ModSmall
<1> QED
  BY <1>1, <1>2

\* Taking an element out of a set changes the parity of its size iff it was in.
LEMMA Parity ==
  ASSUME NEW S, IsFiniteSet(S), NEW x
  PROVE  (Cardinality(S) % 2 = 1) <=> ((Cardinality(S \ {x}) % 2 = 1) # (x \in S))
<1>1. Cardinality(S) \in Nat /\ Cardinality(S \ {x}) \in Nat
  BY FS_CardinalityType, FS_RemoveElement
<1>2. Cardinality(S \ {x}) = IF x \in S THEN Cardinality(S) - 1 ELSE Cardinality(S)
  BY FS_RemoveElement
<1> QED
  BY <1>1, <1>2

\* Rolling by a byte is hashing the shifted window afresh (hash.rs:311).
THEOREM RollIsFresh ==
  ASSUME NEW n \in Nat \ {0}, NEW w \in Seq(Byte), Len(w) = n, NEW b \in Byte
  PROVE  Roll(Hash(w, n), Head(w), b, n) = Hash(Shift(w, b), n)
<1> DEFINE v == Shift(w, b)
<1> DEFINE P(u, k) == {m \in 1..n : Term(u, n, m)[k]}
<1> DEFINE Odd(S) == Cardinality(S) % 2 = 1
<1>1. /\ w # <<>> /\ Head(w) = w[1] /\ w[1] \in Byte /\ DOMAIN w = 1..n
      /\ \A m \in 1..n : w[m] \in Byte
  BY ElementOfSeq
<1>2. /\ v \in Seq(Byte) /\ Len(v) = n /\ DOMAIN v = 1..n
      /\ \A m \in 1..n-1 : v[m] = w[m + 1]
      /\ v[n] = b
  <2>1. /\ Tail(w) \in Seq(Byte) /\ Len(Tail(w)) = n - 1
        /\ \A m \in 1..n-1 : Tail(w)[m] = w[m + 1]
    BY <1>1, HeadTailProperties
  <2> QED
    BY <2>1, AppendProperties DEF Shift
<1> HIDE DEF v
<1>3. ASSUME NEW k \in Bit
      PROVE  Roll(Hash(w, n), Head(w), b, n)[k] = Hash(v, n)[k]
  <2> DEFINE j == (k - 1) % Width
  <2> DEFINE Q == P(w, j)
  <2> DEFINE S == P(v, k)
  <2>1. j \in Bit
    <3>1. k - 1 \in Int
      BY WidthAssumption DEF Bit
    <3>2. (k - 1) % Width \in 0..Width-1
      BY <3>1, WidthAssumption, ModRange
    <3> QED
      BY <3>2 DEF Bit
  <2>2. \A m \in 1..n, l \in Bit :
          /\ Term(w, n, m)[l] = Table[w[m]][(l - (n - m)) % Width]
          /\ Term(v, n, m)[l] = Table[v[m]][(l - (n - m)) % Width]
    BY DEF Term, Rotate
  <2>3. \A m \in 1..n : (j - (n - m)) % Width = (k - (n - m + 1)) % Width
    <3> TAKE m \in 1..n
    <3>1. k \in 0..Width-1 /\ n - m \in Nat
      BY DEF Bit
    <3>2. (((k - 1) % Width) - (n - m)) % Width = (k - ((n - m) + 1)) % Width
      BY <3>1, WidthAssumption, ModStep
    <3> QED
      BY <3>2
  <2>4. \A m \in 1..n : Term(w, n, m)[j] = Table[w[m]][(k - (n - m + 1)) % Width]
    BY <2>1, <2>2, <2>3
  <2>5. Rotate(Table[w[1]], n)[k] <=> 1 \in Q
    <3>1. Rotate(Table[w[1]], n)[k] = Table[w[1]][(k - n) % Width]
      BY DEF Rotate
    <3>2. Term(w, n, 1)[j] = Table[w[1]][(k - n) % Width]
      BY <2>4
    <3> QED
      BY <3>1, <3>2
  <2>6. Table[b][k] <=> n \in S
    <3>1. Term(v, n, n)[k] = Table[b][k % Width]
      BY <1>2, <2>2 DEF Bit
    <3>2. k % Width = k
      BY WidthAssumption, ModSmall DEF Bit
    <3> QED
      BY <3>1, <3>2
  <2>7. \A m \in 2..n : m \in Q <=> m - 1 \in S
    <3> SUFFICES ASSUME NEW m \in 2..n
                 PROVE  Term(w, n, m)[j] = Term(v, n, m - 1)[k]
      OBVIOUS
    <3>1. Term(v, n, m - 1)[k] = Table[v[m - 1]][(k - (n - (m - 1))) % Width]
      BY <2>2
    <3>2. v[m - 1] = w[m] /\ n - (m - 1) = n - m + 1
      BY <1>2
    <3> QED
      BY <2>4, <3>1, <3>2
  <2> HIDE DEF j
  <2>8. IsFiniteSet(Q) /\ IsFiniteSet(S)
    BY FS_Interval, FS_Subset
  <2>9. Cardinality(Q \ {1}) = Cardinality(S \ {n})
    <3> DEFINE f == [m \in Q \ {1} |-> m - 1]
    <3>1. f \in [Q \ {1} -> S \ {n}]
      BY <2>7
    <3>2. \A x, y \in Q \ {1} : f[x] = f[y] => x = y
      OBVIOUS
    <3>3. \A y \in S \ {n} : \E x \in Q \ {1} : f[x] = y
      <4> TAKE y \in S \ {n}
      <4>1. y + 1 \in Q \ {1} /\ f[y + 1] = y
        BY <2>7
      <4> QED
        BY <4>1
    <3> HIDE DEF f
    <3>4. f \in Bijection(Q \ {1}, S \ {n})
      BY <3>1, <3>2, <3>3 DEF Bijection, Injection, Surjection, IsInjective
    <3> QED
      <4>1. IsFiniteSet(Q \ {1})
        BY <2>8, FS_RemoveElement
      <4>2. ExistsBijection(Q \ {1}, S \ {n})
        BY <3>4 DEF ExistsBijection
      <4> HIDE DEF Q, S
      <4> QED
        BY <4>1, <4>2, FS_Bijection
  <2>10. Odd(S) <=> ((Odd(Q) # (1 \in Q)) # (n \in S))
    <3> HIDE DEF Q, S
    <3>1. Odd(Q) <=> (Odd(Q \ {1}) # (1 \in Q))
      BY <2>8, Parity
    <3>2. Odd(S) <=> (Odd(S \ {n}) # (n \in S))
      BY <2>8, Parity
    <3> QED
      BY <2>9, <3>1, <3>2
  <2>11. Hash(w, n)[j] = Odd(Q) /\ Hash(v, n)[k] = Odd(S)
    BY <1>1, <1>2, <2>1 DEF Hash
  <2>12. Roll(Hash(w, n), Head(w), b, n)[k]
           = ((Hash(w, n)[j] # Rotate(Table[w[1]], n)[k]) # Table[b][k])
    BY <1>1 DEF Roll, Xor, Rotate, j
  <2>13. Rotate(Table[w[1]], n)[k] \in BOOLEAN /\ Table[b][k] \in BOOLEAN
    <3>1. (k - n) % Width \in Bit
      <4>1. k - n \in Int
        BY WidthAssumption DEF Bit
      <4>2. (k - n) % Width \in 0..Width-1
        BY <4>1, WidthAssumption, ModRange
      <4> QED
        BY <4>2 DEF Bit
    <3> QED
      BY <1>1, <3>1, TableAssumption DEF Rotate, Word
  <2> QED
    BY <2>5, <2>6, <2>10, <2>11, <2>12, <2>13
<1>4. /\ Roll(Hash(w, n), Head(w), b, n) = [k \in Bit |-> Roll(Hash(w, n), Head(w), b, n)[k]]
      /\ Hash(v, n) = [k \in Bit |-> Hash(v, n)[k]]
  BY DEF Roll, Xor, Hash
<1> QED
  BY <1>3, <1>4 DEF v

-----------------------------------------------------------------------------
(* The inductive invariant of the sender's loop.                            *)

\* Where a byte of the buffer is in data.
Begin == i - Len(buffer)

\* How much of data was sent.
Behind == IF pc = "flush" THEN Begin + offset ELSE Begin

\* The hasher follows the sender as long as a block fits.
Hashed == Window => window = Slice(data, i, size) /\ hash = Hash(window, size)

\* The buffer holds the bytes before i, none of which starts a block.
Buffered ==
  /\ Len(buffer) <= i
  /\ \A k \in 1..Len(buffer) : buffer[k] = data[Begin + k] /\ ~StartsBlock(Begin + k - 1)
  /\ buffer # <<>> => start = Begin
  /\ pc = "flush" => offset < Len(buffer)
  /\ pc = "done" => buffer = <<>> /\ i = Len(data)

\* The receiver has all that was sent, and nothing else.
Received ==
  /\ Len(out) = Behind /\ \A k \in 1..Behind : out[k] = data[k]
  /\ End(Len(delta)) = Behind

IInv == TypeOK /\ Hashed /\ Buffered /\ Received /\ Tiled /\ NothingMissed

LEMMA SliceFacts ==
  ASSUME NEW file \in Seq(Byte), NEW k \in Nat, k <= Len(file), NEW n \in Nat
  PROVE  /\ Slice(file, k, n) \in Seq(Byte)
         /\ Len(Slice(file, k, n)) = Least(n, Len(file) - k)
         /\ \A m \in 1..Least(n, Len(file) - k) : Slice(file, k, n)[m] = file[k + m]
<1>1. Least(k + n, Len(file)) = k + Least(n, Len(file) - k) /\ Least(n, Len(file) - k) \in Nat
  BY DEF Least
<1> HIDE DEF Least
<1>2. \A m \in k + 1..k + Least(n, Len(file) - k) : file[m] \in Byte
  <2>1. k + Least(n, Len(file) - k) <= Len(file)
    BY DEF Least
  <2> QED
    BY <1>1, <2>1, ElementOfSeq
<1> DEFINE t == SubSeq(file, k + 1, k + Least(n, Len(file) - k))
<1>3. /\ t \in Seq(Byte) /\ Len(t) = Least(n, Len(file) - k)
      /\ \A m \in 1..Least(n, Len(file) - k) : t[m] = file[k + m]
  BY <1>1, <1>2, SubSeqProperties
<1> QED
  BY <1>1, <1>3 DEF Slice

\* A slice inside the file has its full length.
LEMMA FullSlice ==
  ASSUME NEW file \in Seq(Byte), NEW k \in Nat, NEW n \in Nat, k + n <= Len(file)
  PROVE  /\ Slice(file, k, n) \in Seq(Byte)
         /\ Len(Slice(file, k, n)) = n
         /\ \A m \in 1..n : Slice(file, k, n)[m] = file[k + m]
<1>1. k <= Len(file)
  OBVIOUS
<1>2. Least(n, Len(file) - k) = n
  BY DEF Least
<1>3. /\ Slice(file, k, n) \in Seq(Byte)
      /\ Len(Slice(file, k, n)) = Least(n, Len(file) - k)
      /\ \A m \in 1..Least(n, Len(file) - k) : Slice(file, k, n)[m] = file[k + m]
  BY <1>1, SliceFacts
<1> QED
  BY <1>2, <1>3

\* Writing at the end of a file appends to it.
LEMMA WriteAtEnd ==
  ASSUME NEW file \in Seq(Byte), NEW bytes \in Seq(Byte)
  PROVE  /\ WriteAt(file, Len(file), bytes) \in Seq(Byte)
         /\ Len(WriteAt(file, Len(file), bytes)) = Len(file) + Len(bytes)
         /\ \A k \in 1..Len(file) : WriteAt(file, Len(file), bytes)[k] = file[k]
         /\ \A k \in 1..Len(bytes) : WriteAt(file, Len(file), bytes)[Len(file) + k] = bytes[k]
<1> DEFINE t == WriteAt(file, Len(file), bytes)
<1>1. Len(file) \in Nat /\ Len(bytes) \in Nat
  OBVIOUS
<1>2. (IF Len(file) + Len(bytes) > Len(file) THEN Len(file) + Len(bytes) ELSE Len(file))
        = Len(file) + Len(bytes)
  BY <1>1
<1>3. t = [k \in 1..Len(file) + Len(bytes) |->
             IF k \in Len(file) + 1..Len(file) + Len(bytes) THEN bytes[k - Len(file)]
             ELSE IF k <= Len(file) THEN file[k] ELSE 0]
  BY <1>2 DEF WriteAt
<1>4. \A k \in 1..Len(file) : t[k] = file[k]
  BY <1>1, <1>3
<1>5. \A k \in 1..Len(bytes) : t[Len(file) + k] = bytes[k]
  BY <1>1, <1>3
<1>6. t \in [1..Len(file) + Len(bytes) -> Byte]
  <2> SUFFICES ASSUME NEW k \in 1..Len(file) + Len(bytes)
               PROVE  t[k] \in Byte
    BY <1>3
  <2>1. CASE k <= Len(file)
    BY <1>1, <1>4, <2>1, ElementOfSeq
  <2>2. CASE k > Len(file)
    <3>1. k - Len(file) \in 1..Len(bytes) /\ k = Len(file) + (k - Len(file))
      BY <1>1, <2>2
    <3> QED
      BY <1>5, <3>1, ElementOfSeq
  <2> QED
    BY <1>1, <2>1, <2>2
<1>7. t \in Seq(Byte) /\ Len(t) = Len(file) + Len(bytes)
  BY <1>1, <1>6
<1> QED
  BY <1>4, <1>5, <1>7

\* The sender finds a match exactly where a block starts.
LEMMA FoundExact ==
  ASSUME TypeOK, Hashed
  PROVE  Found <=> StartsBlock(i)
<1>1. CASE ~Window
  BY <1>1 DEF Found, Window, StartsBlock
<1>2. CASE Window
  <2>1. \A b \in BlockIndex : Block(b) = Slice(data, i, size) => Hash(Block(b), size) = hash
    BY <1>2 DEF Hashed
  <2> QED
    BY <1>2, <2>1 DEF Found, Matches, Window, StartsBlock
<1> QED
  BY <1>1, <1>2

\* One instruction that starts where the last one ended and holds the next
\* bytes of data.
LEMMA SendEffect ==
  ASSUME TypeOK, Received, Tiled, NothingMissed, NEW block \in Int, NEW bytes \in Seq(Byte),
         Send(Behind, block, bytes),
         Behind + Len(bytes) <= Len(data),
         \A k \in 1..Len(bytes) : bytes[k] = data[Behind + k],
         block = NoBlock => Len(bytes) \in 1..MaxLiteral,
         block = NoBlock => \A k \in 1..Len(bytes) : ~StartsBlock(Behind + k - 1),
         UNCHANGED input, Behind \in Nat
  PROVE  /\ delta' \in Seq([index : Nat, block : Int, bytes : Seq(Byte)])
         /\ out' \in Seq(Byte)
         /\ Len(out') = Behind + Len(bytes)
         /\ \A k \in 1..Behind + Len(bytes) : out'[k] = data[k]
         /\ End(Len(delta))' = Behind + Len(bytes)
         /\ Tiled' /\ NothingMissed'
<1> DEFINE R == [index : Nat, block : Int, bytes : Seq(Byte)]
           d == Instruction(Behind, block, bytes)
<1>1. d \in R /\ d.index = Behind /\ d.block = block /\ d.bytes = bytes
  BY DEF Instruction
<1>2. delta \in Seq(R) /\ out \in Seq(Byte) /\ Len(out) = Behind
  BY DEF TypeOK, Received
<1>3. delta' = Append(delta, d) /\ out' = WriteAt(out, Len(out), bytes)
  BY <1>2 DEF Send
<1> HIDE DEF R, d
<1>4. /\ delta' \in Seq(R) /\ Len(delta') = Len(delta) + 1
      /\ \A k \in 1..Len(delta) : delta'[k] = delta[k]
      /\ delta'[Len(delta) + 1] = d
      /\ Len(delta) \in Nat
  BY <1>1, <1>2, <1>3, AppendProperties
<1>5. /\ out' \in Seq(Byte) /\ Len(out') = Behind + Len(bytes)
      /\ \A k \in 1..Behind : out'[k] = out[k]
      /\ \A k \in 1..Len(bytes) : out'[Behind + k] = bytes[k]
  BY <1>2, <1>3, WriteAtEnd
<1>6. \A k \in 1..Behind + Len(bytes) : out'[k] = data[k]
  <2> TAKE k \in 1..Behind + Len(bytes)
  <2>0. Len(bytes) \in Nat
    OBVIOUS
  <2>1. CASE k <= Behind
    BY <1>5, <2>0, <2>1 DEF Received
  <2>2. CASE k > Behind
    <3>1. k - Behind \in 1..Len(bytes) /\ k = Behind + (k - Behind)
      BY <2>0, <2>2
    <3> QED
      BY <1>5, <3>1
  <2> QED
    BY <2>0, <2>1, <2>2
<1>7. /\ End(Len(delta))' = Behind + Len(bytes)
      /\ \A k \in 0..Len(delta) : End(k)' = End(k)
  BY <1>1, <1>4 DEF End
<1>8. Tiled'
  <2> SUFFICES ASSUME NEW k \in DOMAIN delta'
               PROVE  /\ delta'[k].index = End(k - 1)'
                      /\ delta'[k].block = NoBlock => Len(delta'[k].bytes) \in 1..MaxLiteral
    BY DEF Tiled
  <2>1. CASE k = Len(delta) + 1
    BY <1>1, <1>4, <1>7, <2>1 DEF Received
  <2>2. CASE k \in 1..Len(delta)
    <3>1. delta'[k] = delta[k] /\ End(k - 1)' = End(k - 1) /\ k \in DOMAIN delta
      BY <1>2, <1>4, <1>7, <2>2
    <3> QED
      BY <3>1 DEF Tiled
  <2> QED
    BY <1>4, <2>1, <2>2
<1>9. \A k : StartsBlock(k)' = StartsBlock(k)
  BY DEF StartsBlock, BlockIndex, Block, input
<1>10. NothingMissed'
  <2> SUFFICES ASSUME NEW k \in DOMAIN delta', delta'[k].block = NoBlock,
                      NEW m \in DOMAIN delta'[k].bytes
               PROVE  ~StartsBlock(delta'[k].index + m - 1)
    BY <1>9 DEF NothingMissed
  <2>1. CASE k = Len(delta) + 1
    <3>1. m \in 1..Len(bytes) /\ delta'[k].index = Behind
      BY <1>1, <1>4, <2>1
    <3> QED
      BY <1>1, <1>4, <2>1, <3>1
  <2>2. CASE k \in 1..Len(delta)
    <3>1. delta'[k] = delta[k] /\ k \in DOMAIN delta
      BY <1>2, <1>4, <2>2
    <3> QED
      BY <3>1 DEF NothingMissed
  <2> QED
    BY <1>4, <2>1, <2>2
<1> QED
  BY <1>4, <1>5, <1>6, <1>7, <1>8, <1>10 DEF R

-----------------------------------------------------------------------------
(* The invariant holds at the start, and every action keeps it.             *)

LEMMA HashType ==
  ASSUME NEW w, NEW n
  PROVE  Hash(w, n) \in Word
BY DEF Hash, Word

LEMMA RollType ==
  ASSUME NEW h, NEW a, NEW b, NEW n
  PROVE  Roll(h, a, b, n) \in Word
BY DEF Roll, Xor, Word

LEMMA InitHolds == Init => IInv
<1> SUFFICES ASSUME Init PROVE IInv
  OBVIOUS
<1>1. /\ old \in Seq(Byte) /\ data \in Seq(Byte) /\ size \in Nat \ {0}
      /\ pc = "loop" /\ i = 0 /\ buffer = <<>> /\ start = 0 /\ offset = 0
      /\ window = Slice(data, 0, size) /\ hash = Hash(window, size)
      /\ delta = <<>> /\ out = <<>>
  BY FilesAssumption, SizesAssumption DEF Init
<1>2. window \in Seq(Byte) /\ hash \in Word
  BY <1>1, SliceFacts, HashType
<1>3. TypeOK
  BY <1>1, <1>2 DEF TypeOK
<1>4. Hashed
  BY <1>1 DEF Hashed
<1>5. Buffered
  BY <1>1 DEF Buffered, Begin
<1>6. Received
  <2>0. Len(<<>>) = 0
    OBVIOUS
  <2>1. Behind = 0 /\ Len(delta) = 0 /\ Len(out) = 0
    <3>1. Len(delta) = 0 /\ Len(out) = 0 /\ Len(buffer) = 0
      BY <1>1, <2>0
    <3>2. Begin = 0
      <4>1. i = 0
        BY <1>1
      <4> QED
        BY <3>1, <4>1 DEF Begin
    <3> QED
      BY <1>1, <3>1, <3>2 DEF Behind
  <2>2. End(Len(delta)) = 0
    BY <2>1 DEF End
  <2> QED
    BY <2>1, <2>2 DEF Received
<1>7. Tiled /\ NothingMissed
  BY <1>1 DEF Tiled, NothingMissed
<1> QED
  BY <1>3, <1>4, <1>5, <1>6, <1>7 DEF IInv

LEMMA InputFrame ==
  ASSUME UNCHANGED input
  PROVE  /\ \A k : StartsBlock(k)' = StartsBlock(k)
         /\ \A k, n : Slice(data, k, n)' = Slice(data, k, n)
BY DEF input, StartsBlock, BlockIndex, Block

LEMMA SentFrame ==
  ASSUME UNCHANGED <<input, sent>>, Tiled, NothingMissed
  PROVE  /\ Tiled' /\ NothingMissed' /\ End(Len(delta))' = End(Len(delta))
<1>1. delta' = delta /\ \A k : End(k)' = End(k)
  BY DEF sent, End
<1> QED
  BY <1>1, InputFrame DEF Tiled, NothingMissed, sent

LEMMA FlushKeeps == IInv /\ Flush => IInv'
<1> SUFFICES ASSUME IInv, Flush PROVE IInv'
  OBVIOUS
<1> USE DEF IInv
<1>1. /\ UNCHANGED <<old, data, size, i, buffer, start, window, hash, delta, out>>
      /\ UNCHANGED <<input, sent>>
      /\ pc = "loop" /\ buffer # <<>> /\ pc' = "flush" /\ offset' = 0
  BY DEF Flush, input, hasher, sent
<1>2. TypeOK'
  BY <1>1 DEF TypeOK
<1>3. Hashed'
  BY <1>1, InputFrame DEF Hashed, Window
<1>4. Len(buffer) \in Nat \ {0}
  BY <1>1, EmptySeq DEF TypeOK
<1>5. Buffered'
  BY <1>1, <1>4, InputFrame DEF Buffered, Begin
<1>6. Behind' = Behind /\ End(Len(delta))' = End(Len(delta))
  BY <1>1, <1>4, SentFrame DEF Behind, Begin, TypeOK
<1>7. Received'
  BY <1>1, <1>6 DEF Received
<1> QED
  BY <1>1, <1>2, <1>3, <1>5, <1>7, SentFrame

LEMMA FinishKeeps == IInv /\ Finish => IInv'
<1> SUFFICES ASSUME IInv, Finish PROVE IInv'
  OBVIOUS
<1> USE DEF IInv
<1>1. /\ UNCHANGED <<old, data, size, i, buffer, start, offset, window, hash, delta, out>>
      /\ UNCHANGED <<input, sent>>
      /\ pc = "loop" /\ buffer = <<>> /\ pc' = "done" /\ i >= Len(data)
  BY DEF Finish, input, literal, hasher, sent
<1>2. TypeOK'
  BY <1>1 DEF TypeOK
<1>3. Hashed'
  BY <1>1, InputFrame DEF Hashed, Window
<1>4. i = Len(data)
  BY <1>1 DEF TypeOK
<1>5. Buffered'
  BY <1>1, <1>4, InputFrame DEF Buffered, Begin
<1>6. Behind' = Behind /\ End(Len(delta))' = End(Len(delta))
  BY <1>1, SentFrame DEF Behind, Begin
<1>7. Received'
  BY <1>1, <1>6 DEF Received
<1> QED
  BY <1>1, <1>2, <1>3, <1>5, <1>7, SentFrame

LEMMA CopyKeeps == IInv /\ Copy => IInv'
<1> SUFFICES ASSUME IInv, Copy PROVE IInv'
  OBVIOUS
<1> USE DEF IInv
<1>1. /\ pc = "loop" /\ buffer = <<>> /\ Window /\ i' = i + size
      /\ UNCHANGED <<old, data, size, pc, buffer, start, offset>> /\ UNCHANGED input
  BY DEF Copy, Found, input, literal
<1>2. PICK b \in Matches : Send(i, b, Block(b))
  BY DEF Copy
<1>3. /\ b \in Nat /\ Block(b) = Slice(data, i, size)
  BY <1>2 DEF Matches, BlockIndex
<1>4. /\ i \in Nat /\ i' \in Nat /\ i' <= Len(data) /\ Len(data) \in Nat /\ size \in Nat \ {0}
      /\ i <= Len(data) /\ data \in Seq(Byte) /\ window \in Seq(Byte) /\ hash \in Word
      /\ i + size <= Len(data)
  BY <1>1 DEF TypeOK, Window
<1>5. /\ Block(b) \in Seq(Byte) /\ Len(Block(b)) = size
      /\ \A k \in 1..size : Block(b)[k] = data[i + k]
  <2>1. /\ Slice(data, i, size) \in Seq(Byte) /\ Len(Slice(data, i, size)) = size
        /\ \A k \in 1..size : Slice(data, i, size)[k] = data[i + k]
    BY <1>4, FullSlice
  <2> QED
    BY <1>3, <2>1
<1>6. Behind = i
  BY <1>1, <1>4 DEF Behind, Begin
<1>7. /\ delta' \in Seq([index : Nat, block : Int, bytes : Seq(Byte)])
      /\ out' \in Seq(Byte) /\ Len(out') = i'
      /\ \A k \in 1..i' : out'[k] = data[k]
      /\ End(Len(delta))' = i'
      /\ Tiled' /\ NothingMissed'
  <2>1. Send(Behind, b, Block(b)) /\ b \in Int /\ b # NoBlock
    BY <1>2, <1>3, <1>6 DEF NoBlock
  <2>2. Behind \in Nat /\ Behind + Len(Block(b)) = i' /\ i' <= Len(data)
    BY <1>1, <1>4, <1>5, <1>6
  <2>3. \A k \in 1..Len(Block(b)) : Block(b)[k] = data[Behind + k]
    BY <1>5, <1>6
  <2> HIDE DEF IInv
  <2> QED
    BY <1>1, <1>5, <2>1, <2>2, <2>3, SendEffect DEF IInv
<1>8. IF i' + size <= Len(data)
      THEN window' = Slice(data, i', size) /\ hash' = Hash(window', size)
      ELSE UNCHANGED hasher
  BY DEF Copy
<1>9. window' \in Seq(Byte) /\ hash' \in Word
  <2>1. CASE i' + size <= Len(data)
    <3>1. Slice(data, i', size) \in Seq(Byte)
      BY <1>4, <2>1, FullSlice
    <3> QED
      BY <1>8, <2>1, <3>1, HashType
  <2>2. CASE ~(i' + size <= Len(data))
    BY <1>4, <1>8, <2>2 DEF hasher
  <2> QED
    BY <2>1, <2>2
<1>10. TypeOK'
  BY <1>1, <1>4, <1>7, <1>9 DEF TypeOK
<1>11. Hashed'
  BY <1>1, <1>8, InputFrame DEF Hashed, Window
<1>12. Buffered'
  BY <1>1, <1>4 DEF Buffered, Begin
<1>13. Behind' = i'
  BY <1>1, <1>4 DEF Behind, Begin
<1>14. Received'
  BY <1>1, <1>7, <1>13 DEF Received
<1> QED
  BY <1>7, <1>10, <1>11, <1>12, <1>14

LEMMA SendChunkKeeps == IInv /\ SendChunk => IInv'
<1> SUFFICES ASSUME IInv, SendChunk PROVE IInv'
  OBVIOUS
<1> USE DEF IInv
<1> DEFINE n == Least(MaxLiteral, Len(buffer) - offset)
           bytes == Slice(buffer, offset, MaxLiteral)
<1>1. /\ pc = "flush" /\ Send(start + offset, NoBlock, bytes)
      /\ offset' = Least(offset + MaxLiteral, Len(buffer))
      /\ \/ offset' < Len(buffer) /\ UNCHANGED <<pc, buffer>>
         \/ ~(offset' < Len(buffer)) /\ pc' = "loop" /\ buffer' = <<>>
      /\ UNCHANGED <<old, data, size, i, start, window, hash>> /\ UNCHANGED input
  BY DEF SendChunk, input, hasher
<1>2. /\ offset \in Nat /\ offset < Len(buffer) /\ Len(buffer) \in Nat
      /\ i \in Nat /\ Len(buffer) <= i /\ i <= Len(data) /\ Len(data) \in Nat
      /\ start = Begin /\ Begin \in Nat /\ Begin + Len(buffer) = i
  BY <1>1 DEF TypeOK, Buffered, Begin
<1>3. /\ n \in Nat /\ n \in 1..MaxLiteral /\ offset + n <= Len(buffer) /\ offset' = offset + n
  BY <1>1, <1>2, SizesAssumption DEF Least
<1>4. bytes \in Seq(Byte) /\ Len(bytes) = n /\ \A k \in 1..n : bytes[k] = buffer[offset + k]
  <2>1. buffer \in Seq(Byte) /\ MaxLiteral \in Nat /\ offset <= Len(buffer)
    BY <1>2, SizesAssumption DEF TypeOK
  <2> QED
    BY <1>2, <2>1, SliceFacts
<1> HIDE DEF n, bytes
<1>5. Behind = start + offset /\ Behind = Begin + offset /\ Behind \in Nat
  BY <1>1, <1>2 DEF Behind
<1>6. \A k \in 1..n : bytes[k] = data[Behind + k] /\ ~StartsBlock(Behind + k - 1)
  <2> TAKE k \in 1..n
  <2>1. /\ offset + k \in 1..Len(buffer) /\ Behind + k = Begin + (offset + k)
        /\ Behind + k - 1 = Begin + (offset + k) - 1
    BY <1>2, <1>3, <1>5
  <2>2. \A m \in 1..Len(buffer) : buffer[m] = data[Begin + m] /\ ~StartsBlock(Begin + m - 1)
    BY DEF Buffered
  <2>3. buffer[offset + k] = data[Begin + (offset + k)] /\ ~StartsBlock(Begin + (offset + k) - 1)
    BY <2>1, <2>2
  <2> QED
    BY <1>4, <2>1, <2>3
<1>7. Behind + n <= Len(data)
  BY <1>2, <1>3, <1>5
<1>8. /\ delta' \in Seq([index : Nat, block : Int, bytes : Seq(Byte)])
      /\ out' \in Seq(Byte) /\ Len(out') = Behind + n
      /\ \A k \in 1..Behind + n : out'[k] = data[k]
      /\ End(Len(delta))' = Behind + n
      /\ Tiled' /\ NothingMissed'
  <2>1. NoBlock \in Int /\ Send(Behind, NoBlock, bytes)
    BY <1>1, <1>5 DEF NoBlock
  <2> QED
    BY <1>1, <1>3, <1>4, <1>5, <1>6, <1>7, <2>1, SendEffect
<1>9. TypeOK'
  <2>1. offset' \in Nat
    BY <1>2, <1>3
  <2>2. buffer' \in Seq(Byte) /\ pc' \in {"loop", "flush", "done"}
    <3>1. <<>> \in Seq(Byte) /\ buffer \in Seq(Byte)
      BY EmptySeq DEF TypeOK
    <3> QED
      BY <1>1, <3>1
  <2> QED
    BY <1>1, <1>8, <2>1, <2>2 DEF TypeOK
<1>10. Hashed'
  BY <1>1, InputFrame DEF Hashed, Window
<1>11. Buffered' /\ Behind' = Behind + n
  <2>1. CASE offset' < Len(buffer) /\ UNCHANGED <<pc, buffer>>
    <3>1. Begin' = Begin
      BY <1>1, <2>1 DEF Begin
    <3>2. Buffered'
      BY <1>1, <2>1, <3>1, InputFrame DEF Buffered
    <3> QED
      BY <1>1, <1>2, <1>3, <1>5, <2>1, <3>1, <3>2 DEF Behind
  <2>2. CASE ~(offset' < Len(buffer)) /\ pc' = "loop" /\ buffer' = <<>>
    <3>1. Begin' = i /\ Behind' = i
      BY <1>1, <1>2, <2>2 DEF Begin, Behind
    <3>2. offset + n = Len(buffer)
      BY <1>2, <1>3, <2>2
    <3>3. Behind + n = i
      BY <1>2, <1>3, <1>5, <3>2
    <3> QED
      BY <1>1, <1>2, <2>2, <3>1, <3>3 DEF Buffered
  <2> QED
    BY <1>1, <2>1, <2>2
<1>12. Received'
  BY <1>1, <1>8, <1>11 DEF Received
<1> QED
  BY <1>8, <1>9, <1>10, <1>11, <1>12

\* The window moves on by one byte.
LEMMA SliceShift ==
  ASSUME NEW file \in Seq(Byte), NEW k \in Nat, NEW n \in Nat \ {0}, k + 1 + n <= Len(file)
  PROVE  /\ Shift(Slice(file, k, n), file[k + 1 + n]) = Slice(file, k + 1, n)
         /\ Slice(file, k, n) \in Seq(Byte) /\ Len(Slice(file, k, n)) = n
         /\ file[k + 1 + n] \in Byte
<1> DEFINE s == Slice(file, k, n)
           t == Slice(file, k + 1, n)
           b == file[k + 1 + n]
<1>1. k + n <= Len(file) /\ k + 1 \in Nat /\ n \in Nat
  OBVIOUS
<1>2. s \in Seq(Byte) /\ Len(s) = n /\ \A m \in 1..n : s[m] = file[k + m]
  BY <1>1, FullSlice
<1>3. t \in Seq(Byte) /\ Len(t) = n /\ \A m \in 1..n : t[m] = file[k + 1 + m]
  BY <1>1, FullSlice
<1>4. b \in Byte
  BY ElementOfSeq
<1> HIDE DEF s, t, b
<1>5. /\ Tail(s) \in Seq(Byte) /\ Len(Tail(s)) = n - 1
      /\ \A m \in 1..n-1 : Tail(s)[m] = s[m + 1]
  BY <1>2, EmptySeq, HeadTailProperties
<1>6. /\ Shift(s, b) \in Seq(Byte) /\ Len(Shift(s, b)) = n
      /\ \A m \in 1..n-1 : Shift(s, b)[m] = s[m + 1]
      /\ Shift(s, b)[n] = b
  BY <1>4, <1>5, AppendProperties DEF Shift
<1>7. \A m \in 1..n : Shift(s, b)[m] = t[m]
  <2> TAKE m \in 1..n
  <2>1. CASE m = n
    BY <1>3, <1>6, <2>1 DEF b
  <2>2. CASE m \in 1..n-1
    <3>1. s[m + 1] = file[k + (m + 1)] /\ k + (m + 1) = k + 1 + m
      BY <1>2, <2>2
    <3> QED
      BY <1>3, <1>6, <2>2, <3>1
  <2> QED
    BY <2>1, <2>2
<1>8. Shift(s, b) = t
  BY <1>3, <1>6, <1>7, SeqEqual
<1> QED
  BY <1>2, <1>4, <1>8 DEF s, t, b

LEMMA LiteralKeeps == IInv /\ Literal => IInv'
<1> SUFFICES ASSUME IInv, Literal PROVE IInv'
  OBVIOUS
<1> USE DEF IInv
<1>1. /\ pc = "loop" /\ ~Found /\ i < Len(data)
      /\ start' = IF buffer = <<>> THEN i ELSE start
      /\ buffer' = Append(buffer, data[i + 1])
      /\ i' = i + 1 /\ offset' = 0
      /\ pc' = IF Len(buffer') >= MaxLiteral THEN "flush" ELSE "loop"
      /\ UNCHANGED <<old, data, size, delta, out>> /\ UNCHANGED <<input, sent>>
  BY DEF Literal, input, sent
<1>2. /\ data \in Seq(Byte) /\ buffer \in Seq(Byte) /\ Len(data) \in Nat /\ Len(buffer) \in Nat
      /\ i \in Nat /\ start \in Nat /\ size \in Nat \ {0} /\ Len(buffer) <= i
      /\ window \in Seq(Byte) /\ hash \in Word
  BY DEF TypeOK, Buffered
<1>3. data[i + 1] \in Byte
  BY <1>1, <1>2, ElementOfSeq
<1>4. /\ buffer' \in Seq(Byte) /\ Len(buffer') = Len(buffer) + 1
      /\ \A k \in 1..Len(buffer) : buffer'[k] = buffer[k]
      /\ buffer'[Len(buffer) + 1] = data[i + 1]
  BY <1>1, <1>2, <1>3, AppendProperties
<1>5. Begin' = Begin /\ Begin = i - Len(buffer)
  BY <1>1, <1>2, <1>4 DEF Begin
<1>6. /\ Hashed'
      /\ window' \in Seq(Byte) /\ hash' \in Word
  <2>1. CASE ~(i' + size <= Len(data))
    <3>1. UNCHANGED hasher
      BY <2>1 DEF Literal
    <3> QED
      BY <1>1, <1>2, <2>1, <3>1 DEF Hashed, Window, hasher
  <2>2. CASE i' + size <= Len(data)
    <3> DEFINE b == data[i' + size]
    <3>1. window' = Shift(window, b) /\ hash' = Roll(hash, Head(window), b, size)
      BY <2>2 DEF Literal
    <3>2. window = Slice(data, i, size) /\ hash = Hash(window, size)
      BY <1>1, <1>2, <2>2 DEF Hashed, Window
    <3>3. i + 1 + size <= Len(data) /\ i' + size = i + 1 + size
      BY <1>1, <1>2, <2>2
    <3>4. /\ Shift(window, b) = Slice(data, i', size)
          /\ window \in Seq(Byte) /\ Len(window) = size /\ b \in Byte
      BY <1>1, <1>2, <3>2, <3>3, SliceShift
    <3> HIDE DEF b
    <3>5. hash' = Hash(window', size)
      BY <1>2, <3>1, <3>2, <3>4, RollIsFresh
    <3>6. Slice(data, i', size) \in Seq(Byte)
      <4>1. i' \in Nat /\ size \in Nat
        BY <1>1, <1>2
      <4> QED
        BY <1>2, <2>2, <4>1, FullSlice
    <3>7. window' = Slice(data, i', size)
      BY <3>1, <3>4
    <3> QED
      BY <1>1, <3>5, <3>6, <3>7, HashType, InputFrame DEF Hashed
  <2> QED
    BY <2>1, <2>2
<1>7. TypeOK'
  <2>1. i' \in Nat /\ i' <= Len(data') /\ start' \in Nat /\ offset' \in Nat
    BY <1>1, <1>2
  <2> QED
    BY <1>1, <1>4, <1>6, <2>1 DEF TypeOK
<1>8. \A k \in 1..Len(buffer') :
        buffer'[k] = data'[Begin' + k] /\ ~StartsBlock(Begin + k - 1)'
  <2> TAKE k \in 1..Len(buffer')
  <2>0. StartsBlock(Begin + k - 1)' <=> StartsBlock(Begin + k - 1)
    BY <1>1, <1>5 DEF StartsBlock, BlockIndex, Block
  <2>1. CASE k \in 1..Len(buffer)
    <3>1. buffer[k] = data[Begin + k] /\ ~StartsBlock(Begin + k - 1)
      BY <2>1 DEF Buffered
    <3> QED
      BY <1>1, <1>4, <1>5, <2>0, <2>1, <3>1
  <2>2. CASE k = Len(buffer) + 1
    <3>1. Begin + k = i + 1 /\ Begin + k - 1 = i
      BY <1>2, <1>5, <2>2
    <3>2. ~StartsBlock(i)
      BY <1>1, FoundExact
    <3> QED
      BY <1>1, <1>4, <1>5, <2>0, <2>2, <3>1, <3>2
  <2> QED
    BY <1>2, <1>4, <2>1, <2>2
<1>9. Buffered'
  <2>1. start' = Begin'
    <3>1. CASE buffer = <<>>
      BY <1>1, <1>2, <1>5, <3>1
    <3>2. CASE buffer # <<>>
      BY <1>1, <1>5, <3>2 DEF Buffered
    <3> QED
      BY <3>1, <3>2
  <2>2. Len(buffer') <= i' /\ offset' < Len(buffer')
    BY <1>1, <1>2, <1>4
  <2>3. pc' # "done"
    BY <1>1
  <2> HIDE DEF IInv
  <2> QED
    BY <1>8, <2>1, <2>2, <2>3 DEF Buffered
<1>10. Behind' = Behind
  BY <1>1, <1>2, <1>5 DEF Behind
<1>11. Received'
  BY <1>1, <1>10, SentFrame DEF Received
<1> QED
  BY <1>1, <1>6, <1>7, <1>9, <1>11, SentFrame

LEMMA StepKeeps == IInv /\ [Next]_vars => IInv'
<1> SUFFICES ASSUME IInv, [Next]_vars PROVE IInv'
  OBVIOUS
<1>1. CASE Next
  BY <1>1, FlushKeeps, CopyKeeps, LiteralKeeps, SendChunkKeeps, FinishKeeps DEF Next
<1>2. CASE UNCHANGED vars
  BY <1>2 DEF vars, IInv, TypeOK, Hashed, Window, Buffered, Begin, Received, Behind, End,
              Tiled, NothingMissed, StartsBlock, BlockIndex, Block
<1> QED
  BY <1>1, <1>2

\* Every reachable state of the sender's loop and the receiver's writer satisfies
\* the inductive invariant (transfer.rs:107-166).
THEOREM DeltaInvariance == Spec => []IInv
BY InitHolds, StepKeeps, PTL DEF Spec

\* The sender and the writer keep to their types: the sender never reads past the
\* end of its file (transfer.rs:88-166).
THEOREM DeltaTyped == Spec => []TypeOK
<1>1. IInv => TypeOK
  BY DEF IInv
<1> QED
  BY <1>1, DeltaInvariance, PTL

\* The rolled hash is the hash of the bytes ahead, wherever the sender is
\* (hash.rs:311, transfer.rs:136-160).
THEOREM HashAlwaysFresh == Spec => []RollingIsFresh
<1>1. IInv => RollingIsFresh
  BY DEF IInv, Hashed, RollingIsFresh
<1> QED
  BY <1>1, DeltaInvariance, PTL

\* What the receiver has when the sender is done is the sender's file, for all
\* files and block sizes (transfer.rs:107-171, writer.rs:39-60).
THEOREM ReceiverRebuilds == Spec => []Rebuilt
<1>1. IInv => Rebuilt
  <2> SUFFICES ASSUME IInv, pc = "done" PROVE out = data
    BY DEF Rebuilt
  <2> USE DEF IInv
  <2>1. Behind = Len(data) /\ data \in Seq(Byte) /\ out \in Seq(Byte)
    BY DEF Buffered, Behind, Begin, TypeOK
  <2>2. Len(out) = Len(data) /\ \A k \in 1..Len(data) : out[k] = data[k]
    BY <2>1 DEF Received
  <2> QED
    BY <2>1, <2>2, SeqEqual
<1> QED
  BY <1>1, DeltaInvariance, PTL

\* The instructions tile the file, in order, and literals keep to their limit
\* (transfer.rs:185-205).
THEOREM InstructionsTile == Spec => []Tiled
<1>1. IInv => Tiled
  BY DEF IInv
<1> QED
  BY <1>1, DeltaInvariance, PTL

\* No literal byte was sent where a block of the receiver begins: the rolling
\* hash misses none (transfer.rs:108-141).
THEOREM NoMatchMissed == Spec => []NothingMissed
<1>1. IInv => NothingMissed
  BY DEF IInv
<1> QED
  BY <1>1, DeltaInvariance, PTL
=============================================================================
