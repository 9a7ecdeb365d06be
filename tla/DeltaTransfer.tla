---------------------------- MODULE DeltaTransfer ---------------------------
(***************************************************************************)
(* How a delta is computed and what it rebuilds: the blocks the receiver   *)
(* signs (generate_blocks_signatures), the loop of the sender over its     *)
(* file (send_delta_from_block_signatures, send_literal_chunks) and the    *)
(* writing of the instructions at their offsets (delta_writer).  Strong    *)
(* checksums are taken to tell all blocks apart, so they are the blocks    *)
(* themselves; weak ones are BuzHash words and do collide.                 *)
(***************************************************************************)
EXTENDS BuzHash

CONSTANTS
  Files,       \* the files either side may have
  BlockSizes,  \* the block sizes a receiver may be configured with
  MaxLiteral   \* MAX_LITERAL_CHUNK_SIZE

ASSUME FilesAssumption == Files \subseteq Seq(Byte) /\ 0 \in Byte
ASSUME SizesAssumption == BlockSizes \subseteq Nat \ {0} /\ MaxLiteral \in Nat \ {0}

VARIABLES
  old,     \* the receiver's file, cut in blocks and signed
  data,    \* the sender's file
  size,    \* the block size of the signatures
  pc,      \* in the loop, in send_literal_chunks, or done
  i,       \* bytes of data behind the sender
  buffer,  \* literal bytes not sent yet
  start,   \* where the buffer begins in data
  offset,  \* bytes of the buffer sent already
  window,  \* the hasher's window
  hash,    \* the hasher's hash
  delta,   \* the instructions sent
  out      \* the receiver's temporary file

input == <<old, data, size>>
hasher == <<window, hash>>
literal == <<buffer, start, offset>>
sent == <<delta, out>>
vars == <<old, data, size, pc, i, buffer, start, offset, window, hash, delta, out>>

Least(a, b) == IF a <= b THEN a ELSE b

\* The n bytes of a file that follow the first k, or what there is of them.
Slice(file, k, n) == SubSeq(file, k + 1, Least(k + n, Len(file)))

\* Block b, counted from 0, begins at b * size; the last one may be short.
BlockIndex == {b \in 0..Len(old) : b * size < Len(old)}
Block(b) == Slice(old, b * size, size)

\* The blocks with the checksums of the slice at i.  Fault: the weak one is enough.
MatchesWeak == {b \in BlockIndex : Hash(Block(b), size) = hash}
Matches ==
  {b \in BlockIndex : Block(b) = Slice(data, i, size) /\ Hash(Block(b), size) = hash}
Window == i + size <= Len(data)

Instruction(index, block, bytes) == [index |-> index, block |-> block, bytes |-> bytes]
NoBlock == -1

\* seek and write_all; a gap would be filled with zeros.
WriteAt(file, index, bytes) ==
  [n \in 1..(IF index + Len(bytes) > Len(file) THEN index + Len(bytes) ELSE Len(file)) |->
     IF n \in index + 1..index + Len(bytes) THEN bytes[n - index]
     ELSE IF n <= Len(file) THEN file[n] ELSE 0]

TypeOK ==
  /\ old \in Seq(Byte) /\ data \in Seq(Byte)
  /\ size \in Nat \ {0}
  /\ pc \in {"loop", "flush", "done"}
  /\ i \in Nat /\ i <= Len(data)
  /\ buffer \in Seq(Byte) /\ start \in Nat /\ offset \in Nat
  /\ window \in Seq(Byte) /\ hash \in Word
  /\ delta \in Seq([index : Nat, block : Int, bytes : Seq(Byte)])
  /\ out \in Seq(Byte)

Init ==
  /\ old \in Files /\ data \in Files
  /\ size \in BlockSizes
  /\ pc = "loop" /\ i = 0
  /\ buffer = <<>> /\ start = 0 /\ offset = 0
  /\ window = Slice(data, 0, size) /\ hash = Hash(window, size)
  /\ delta = <<>> /\ out = <<>>

\* tx.send, and the writer at the other end of the stream.
Send(index, block, bytes) ==
  /\ delta' = Append(delta, Instruction(index, block, bytes))
  /\ out' = WriteAt(out, index, bytes)

Found == Window /\ Matches # {}

\* Literals go out before a match, and after the last byte.
Flush ==
  /\ pc = "loop" /\ buffer # <<>>
  /\ Found \/ i >= Len(data)
  /\ pc' = "flush" /\ offset' = 0
  /\ UNCHANGED <<input, i, buffer, start, hasher, sent>>

\* Faults: a match is not looked up by its strong checksum; a last block that is
\* short is matched as if it were full; the hash of the next window is not
\* computed afresh.
CopyWeak ==
  /\ pc = "loop" /\ buffer = <<>> /\ Window /\ MatchesWeak # {}
  /\ \E b \in MatchesWeak : Send(i, b, Block(b))
  /\ i' = i + size
  /\ IF i' + size <= Len(data)
     THEN window' = Slice(data, i', size) /\ hash' = Hash(window', size)
     ELSE UNCHANGED hasher
  /\ UNCHANGED <<input, pc, literal>>

CopyPastEnd ==
  /\ pc = "loop" /\ buffer = <<>> /\ i < Len(data) /\ Matches # {}
  /\ \E b \in Matches : Send(i, b, Block(b))
  /\ i' = i + size
  /\ IF i' + size <= Len(data)
     THEN window' = Slice(data, i', size) /\ hash' = Hash(window', size)
     ELSE UNCHANGED hasher
  /\ UNCHANGED <<input, pc, literal>>

CopyStale ==
  /\ pc = "loop" /\ buffer = <<>> /\ Found
  /\ \E b \in Matches : Send(i, b, Block(b))
  /\ i' = i + size
  /\ UNCHANGED <<input, pc, literal, hasher>>

\* A block is named instead of sent: of several equal blocks the code names the
\* last, the model any.
Copy ==
  /\ pc = "loop" /\ buffer = <<>> /\ Found
  /\ \E b \in Matches : Send(i, b, Block(b))
  /\ i' = i + size
  /\ IF i' + size <= Len(data)
     THEN window' = Slice(data, i', size) /\ hash' = Hash(window', size)
     ELSE UNCHANGED hasher
  /\ UNCHANGED <<input, pc, literal>>

\* Fault: the buffer's place is noted when it is sent.
LiteralUnplaced ==
  /\ pc = "loop" /\ ~Found /\ i < Len(data)
  /\ start' = i
  /\ buffer' = Append(buffer, data[i + 1])
  /\ i' = i + 1
  /\ pc' = IF Len(buffer') >= MaxLiteral THEN "flush" ELSE "loop"
  /\ offset' = 0
  /\ IF i' + size <= Len(data)
     THEN /\ window' = Shift(window, data[i' + size])
          /\ hash' = Roll(hash, Head(window), data[i' + size], size)
     ELSE UNCHANGED hasher
  /\ UNCHANGED <<input, sent>>

\* Fault: bytes behind the last full window are forgotten.
LiteralInWindow ==
  /\ pc = "loop" /\ ~Found /\ Window
  /\ start' = IF buffer = <<>> THEN i ELSE start
  /\ buffer' = Append(buffer, data[i + 1])
  /\ i' = i + 1
  /\ pc' = IF Len(buffer') >= MaxLiteral THEN "flush" ELSE "loop"
  /\ offset' = 0
  /\ IF i' + size <= Len(data)
     THEN /\ window' = Shift(window, data[i' + size])
          /\ hash' = Roll(hash, Head(window), data[i' + size], size)
     ELSE UNCHANGED hasher
  /\ UNCHANGED <<input, sent>>

\* One byte that starts no block.  A full buffer is sent at once (the hash, which
\* is local, is rolled after that in the code).
Literal ==
  /\ pc = "loop" /\ ~Found /\ i < Len(data)
  /\ start' = IF buffer = <<>> THEN i ELSE start
  /\ buffer' = Append(buffer, data[i + 1])
  /\ i' = i + 1
  /\ pc' = IF Len(buffer') >= MaxLiteral THEN "flush" ELSE "loop"
  /\ offset' = 0
  /\ IF i' + size <= Len(data)
     THEN /\ window' = Shift(window, data[i' + size])
          /\ hash' = Roll(hash, Head(window), data[i' + size], size)
     ELSE UNCHANGED hasher
  /\ UNCHANGED <<input, sent>>

\* send_literal_chunks, and the clear that follows each call.
SendChunk ==
  /\ pc = "flush"
  /\ Send(start + offset, NoBlock, Slice(buffer, offset, MaxLiteral))
  /\ offset' = Least(offset + MaxLiteral, Len(buffer))
  /\ IF offset' < Len(buffer) THEN UNCHANGED <<pc, buffer>> ELSE pc' = "loop" /\ buffer' = <<>>
  /\ UNCHANGED <<input, i, start, hasher>>

\* Complete is sent.
Finish ==
  /\ pc = "loop" /\ buffer = <<>> /\ i >= Len(data)
  /\ pc' = "done"
  /\ UNCHANGED <<input, i, literal, hasher, sent>>

Next == Flush \/ Copy \/ Literal \/ SendChunk \/ Finish

\* The task runs until it is done.
Spec == Init /\ [][Next]_vars /\ WF_vars(Next)
-----------------------------------------------------------------------------
(* Properties.                                                              *)

\* What the receiver has when Complete arrives is the sender's file, whatever
\* both files are and however blocks and literals fall (transfer.rs:107-166,
\* writer.rs:39-60).
Rebuilt == pc = "done" => out = data

\* The hash that is looked up is always that of the bytes ahead: rolled over
\* literals, computed afresh after a match, left alone near the end where no
\* block fits (transfer.rs:136-160).
RollingIsFresh ==
  Window => hash = Hash(Slice(data, i, size), size)

\* No byte travels that could have been copied: where a literal byte was sent,
\* no block of the receiver begins (transfer.rs:108-141).
StartsBlock(k) == k + size <= Len(data) /\ \E b \in BlockIndex : Block(b) = Slice(data, k, size)

NothingMissed ==
  \A d \in DOMAIN delta : delta[d].block = NoBlock =>
    \A k \in DOMAIN delta[d].bytes : ~StartsBlock(delta[d].index + k - 1)

\* The instructions tile the file from its beginning: each starts where the one
\* before ended, so no seek leaves a gap or rewrites a byte; and no literal is
\* empty or larger than a message may be (transfer.rs:185-205).
End(d) == IF d = 0 THEN 0 ELSE delta[d].index + Len(delta[d].bytes)

Tiled ==
  \A d \in DOMAIN delta :
    /\ delta[d].index = End(d - 1)
    /\ delta[d].block = NoBlock => Len(delta[d].bytes) \in 1..MaxLiteral

\* The loop comes to an end: every turn moves on, also where no block fits
\* (transfer.rs:107, transfer.rs:146).
Ends == <>(pc = "done")
=============================================================================
