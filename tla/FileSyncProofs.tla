--------------------------- MODULE FileSyncProofs ---------------------------
(***************************************************************************)
(* Proofs about FileSync, for every set of deltas, every channel capacity  *)
(* and every subset of the environment's events.                           *)
(***************************************************************************)
EXTENDS FileSync, TLAPS, SequenceTheorems

Has(e, type) == \E i \in DOMAIN chan[e] : chan[e][i].type = type

\* Who may do what: the sender has no writer, only the client opens, signs and
\* prepares, only the sender sends instructions.
Roles ==
  /\ wpc[Sender] = "none" /\ ~mixed[Sender] /\ wq[Sender] = <<>>
  /\ pc["client"] \in {"sign", "prepare"} => dir = "Download"
  /\ pc["client"] # "idle"
  /\ pc["server"] \notin {"call", "action", "sign", "prepare"}
  /\ pc[Receiver] # "send"
  /\ file[Sender] \in {"new", "absent"}

\* What travels in which direction, and in which order.
Traffic ==
  /\ \A e \in Endpoint : \A i \in DOMAIN chan[e] :
       /\ chan[e][i].type = "action" => e = "client" /\ i = 1
       /\ chan[e][i].type = "signatures" =>
            e = Receiver /\ dir # "Skip" /\ i = Len(chan[e]) /\ delta = NoDelta
       /\ chan[e][i].type = "delta" => e = Sender /\ chan[e][i].index \in 1..sent
       /\ chan[e][i].type = "complete" /\ e = Sender => i = Len(chan[e]) /\ sent = Len(delta)
       /\ chan[e][i].type = "complete" /\ e = Receiver => completed[Receiver]
       /\ delta = NoDelta => chan[e][i].type \in {"action", "signatures"}
  /\ delta = NoDelta => sent = 0 /\ pc[Sender] # "send" /\ \A e \in Endpoint : ~completed[e]
  /\ dir = "Skip" => delta = NoDelta

\* Nothing has happened while the client has not started, or the server has not
\* read the action.
Start ==
  /\ pc["client"] = "call" => pc["server"] = "idle"
  /\ pc["client"] \in {"call", "action"} => chan["client"] = <<>>
  /\ pc["client"] \in {"call", "action"} \/ Has("client", "action") =>
       wpc["server"] = "none" /\ chan["server"] = <<>> /\ delta = NoDelta
  /\ pc["client"] \in {"call", "action", "sign"} =>
       /\ delta = NoDelta /\ ~Has("client", "signatures")
       /\ dir = "Download" => "unreadable" \notin events
  /\ pc["client"] \in {"call", "action", "sign", "prepare"} => wpc["client"] = "none"

\* Whoever may get an instruction has a writer.
WriterReady ==
  /\ dir = "Download" /\ pc["client"] \in {"recv", "sleep"} => wpc["client"] # "none"
  /\ dir = "Upload" /\ (delta # NoDelta \/ Has("server", "signatures")) => wpc["server"] # "none"

\* The signed content b is the one in the receiver's cache, or will be.
Cached(b) ==
  /\ dir = "Upload" => b = cache["server"]
  /\ dir = "Download" /\ "edit" \notin events =>
       /\ pc["client"] = "prepare" => b = file["client"] /\ "unreadable" \notin events
       /\ wpc["client"] # "none" =>
            b = cache["client"] \/ (cache["client"] = "absent" /\ "uncached" \in events)

SameBlocks ==
  /\ \A i \in DOMAIN chan[Receiver] :
       chan[Receiver][i].type = "signatures" => Cached(chan[Receiver][i].basis)
  /\ delta # NoDelta => Cached(basis)
  /\ \A e \in Endpoint : mixed[e] \/ file[e] = "garbled" =>
       e = Receiver /\ dir = "Download" /\ "edit" \in events

\* The end of the stream: Complete is the sender's last word until the receiver
\* has answered it.
Completion ==
  /\ \A e \in Endpoint : completed[e] => pc[e] \in Final \cup {"sleep"}
  /\ completed[Receiver] => sent = Len(delta) /\ ~Has(Sender, "delta")
  /\ completed[Receiver] /\ ~completed[Sender] => chan[Sender] = <<>>
  /\ completed[Sender] => completed[Receiver]
  /\ pc[Sender] = "send" => ~Has(Sender, "complete") /\ ~completed[Receiver]

\* No instruction was lost on the way to a writer that still works.
Intact == (~reset /\ ~Ended(Receiver)) \/ Has(Sender, "complete") \/ completed[Receiver]

Reached(k) ==
  \/ k \in written[Receiver]
  \/ \E i \in DOMAIN wq[Receiver] : wq[Receiver][i] = k
  \/ \E i \in DOMAIN chan[Sender] : chan[Sender][i].type = "delta" /\ chan[Sender][i].index = k

NothingLost ==
  Intact /\ wpc[Receiver] \notin {"failed", "killed"} => \A k \in 1..sent : Reached(k)

WriterState ==
  /\ \A e \in Endpoint :
       /\ written[e] \subseteq 1..sent
       /\ \A i \in DOMAIN wq[e] : wq[e][i] \in 1..sent
       /\ wpc[e] \in {"mtime", "done", "killed"} => ~Held(e)
  /\ wpc[Receiver] \in {"none", "create", "recv", "failed"} => mtime = "kept"
  /\ wpc[Receiver] = "mtime" => mtime # "kept"
  /\ file[Receiver] = "partial" => ~completed[Receiver] /\ Ended(Receiver)

Protocol ==
  /\ Roles /\ Traffic /\ Start /\ WriterReady /\ SameBlocks
  /\ Completion /\ NothingLost /\ WriterState

\* The inductive invariant.
IInv == TypeOK /\ Protocol
-----------------------------------------------------------------------------
(* Facts about the constants, and the effect of a send on the type.         *)

USE DEF Endpoint

LEMMA MessageType ==
  ASSUME NEW type \in {"action", "signatures", "delta", "complete"},
         NEW index \in Nat, NEW content \in Contents
  PROVE  Msg(type, index, content) \in Message
BY DEF Msg, Message

\* Sending and reading keep the channels well typed and within their capacity.
ChanOK == chan \in [Endpoint -> Seq(Message)] /\ \A e \in Endpoint : Len(chan[e]) <= StreamCap

LEMMA PutType ==
  ASSUME ChanOK, NEW e \in Endpoint, NEW m \in Message, Put(e, m)
  PROVE  ChanOK'
<1> USE CapsAssumption DEF ChanOK
<1>1. Append(chan[e], m) \in Seq(Message) /\ Len(Append(chan[e], m)) = Len(chan[e]) + 1
  OBVIOUS
<1>2. CASE UNCHANGED chan
  BY <1>2
<1>3. CASE Len(chan[e]) < StreamCap /\ chan' = [chan EXCEPT ![e] = Append(@, m)]
  <2>1. Len(chan[e]) + 1 <= StreamCap
    BY <1>3
  <2> QED
    BY <1>1, <1>3, <2>1
<1> QED
  BY <1>2, <1>3 DEF Put

LEMMA ConsumeType ==
  ASSUME ChanOK, NEW e \in Endpoint, chan[Peer(e)] # <<>>, Consume(e)
  PROVE  ChanOK'
<1> USE CapsAssumption DEF ChanOK
<1>1. Peer(e) \in Endpoint
  BY DEF Peer
<1>2. Tail(chan[Peer(e)]) \in Seq(Message) /\ Len(Tail(chan[Peer(e)])) <= StreamCap
  BY <1>1
<1> QED
  BY <1>1, <1>2 DEF Consume

LEMMA ReplyType ==
  ASSUME ChanOK, NEW e \in Endpoint, NEW m \in Message, chan[Peer(e)] # <<>>, Reply(e, m)
  PROVE  ChanOK'
<1> USE CapsAssumption DEF ChanOK
<1>1. Peer(e) \in Endpoint /\ Peer(e) # e
  BY DEF Peer
<1>2. Tail(chan[Peer(e)]) \in Seq(Message) /\ Len(Tail(chan[Peer(e)])) <= StreamCap
  BY <1>1
<1>3. Append(chan[e], m) \in Seq(Message) /\ Len(Append(chan[e], m)) = Len(chan[e]) + 1
  OBVIOUS
<1>4. CASE Consume(e)
  BY <1>4, ConsumeType
<1>5. CASE /\ Len(chan[e]) < StreamCap
           /\ chan' = [chan EXCEPT ![Peer(e)] = Tail(@), ![e] = Append(@, m)]
  <2>1. Len(chan[e]) + 1 <= StreamCap
    BY <1>5
  <2> QED
    BY <1>1, <1>2, <1>3, <1>5, <2>1
<1> QED
  BY <1>4, <1>5 DEF Reply

LEMMA HeadTail ==
  ASSUME NEW S, NEW s \in Seq(S), s # <<>>
  PROVE  /\ Len(s) \in Nat \ {0} /\ Head(s) = s[1] /\ s[1] \in S
         /\ Tail(s) \in Seq(S) /\ Len(Tail(s)) = Len(s) - 1
         /\ DOMAIN s = 1..Len(s) /\ DOMAIN Tail(s) = 1..(Len(s) - 1)
         /\ \A i \in 1..(Len(s) - 1) : Tail(s)[i] = s[i + 1]
BY HeadTailProperties, EmptySeq, LenProperties

LEMMA Appended ==
  ASSUME NEW S, NEW s \in Seq(S), NEW x \in S
  PROVE  /\ Append(s, x) \in Seq(S) /\ Len(Append(s, x)) = Len(s) + 1 /\ Len(s) \in Nat
         /\ DOMAIN s = 1..Len(s) /\ DOMAIN Append(s, x) = 1..(Len(s) + 1)
         /\ \A i \in 1..Len(s) : Append(s, x)[i] = s[i]
         /\ Append(s, x)[Len(s) + 1] = x
OBVIOUS

\* The message a handler reads is the first of a well-typed channel.
LEMMA ReadMessage ==
  ASSUME TypeOK, NEW e \in Endpoint, NEW type, Reads(e, type)
  PROVE  /\ chan[Peer(e)] \in Seq(Message) /\ chan[Peer(e)] # <<>>
         /\ Head(chan[Peer(e)]) \in Message
         /\ Head(chan[Peer(e)]).type = type
         /\ Head(chan[Peer(e)]).index \in Nat
         /\ Head(chan[Peer(e)]).basis \in Contents
<1>1. chan[Peer(e)] \in Seq(Message) /\ chan[Peer(e)] # <<>>
  BY DEF TypeOK, Peer, Reads
<1>2. Head(chan[Peer(e)]) \in Message
  BY <1>1, HeadTail
<1> QED
  BY <1>1, <1>2 DEF Reads, Message

PCs == {"call", "idle", "action", "sign", "prepare", "recv", "send", "sleep"} \cup Final

LEMMA FailType ==
  ASSUME TypeOK, NEW e \in Endpoint, Fail(e)
  PROVE  pc' \in [Endpoint -> PCs] /\ reset' \in BOOLEAN
BY DEF Fail, Goto, TypeOK, Final, PCs

LEMMA GotoType ==
  ASSUME TypeOK, NEW e \in Endpoint, NEW l \in PCs, Goto(e, l)
  PROVE  pc' \in [Endpoint -> PCs]
BY DEF Goto, TypeOK, Final, PCs

LEMMA InitType == Init => TypeOK
<1> SUFFICES ASSUME Init PROVE TypeOK
  OBVIOUS
<1> USE DEF Init
<1>1. delta \in Scripts \cup {NoDelta} /\ sent \in Nat /\ sent <= Len(delta)
  BY DEF NoDelta
<1>2. /\ chan \in [Endpoint -> Seq(Message)] /\ wq \in [Endpoint -> Seq(Nat)]
      /\ \A e \in Endpoint : Len(chan[e]) <= StreamCap /\ Len(wq[e]) <= WriterCap
  BY CapsAssumption
<1>3. pc \in [Endpoint -> PCs]
  BY DEF PCs
<1> QED
  BY <1>1, <1>2, <1>3 DEF TypeOK, Contents, PCs

LEMMA NextType == TypeOK /\ [Next]_vars => TypeOK'
<1> SUFFICES ASSUME TypeOK, [Next]_vars PROVE TypeOK'
  OBVIOUS
<1> USE DEF TypeOK, Goto, Happens, May, Final, Contents, NoDelta
<1>0. ChanOK
  BY DEF ChanOK
<1>1. CASE Call
  BY <1>1 DEF Call, session, writer, disk
<1>2. CASE CallRejected
  BY <1>2 DEF CallRejected, Fail, session, writer, disk
<1>3. CASE SendAction
  <2>1. ChanOK'
    BY <1>0, <1>3, PutType, MessageType DEF SendAction
  <2> QED
    BY <1>3, <2>1 DEF SendAction, ChanOK, session, writer, disk
<1>4. CASE SendSignatures
  <2>1. ChanOK'
    BY <1>0, <1>4, PutType, MessageType DEF SendSignatures, ChanOK
  <2> QED
    BY <1>4, <2>1 DEF SendSignatures, ChanOK, session, writer, disk
<1>5. CASE PrepareWriter
  BY <1>5 DEF PrepareWriter, SpawnWriter, session, writer, disk
<1>6. CASE HandleFileAction
  <2>1. ChanOK'
    BY <1>0, <1>6, ReplyType, ConsumeType, MessageType DEF HandleFileAction, Reads
  <2> QED
    BY <1>6, <2>1 DEF HandleFileAction, ChanOK, SpawnWriter, Fail, session, writer, disk
<1>7. ASSUME NEW e \in Endpoint, Task(e) PROVE TypeOK'
  <2>1. CASE SendError(e)
    BY <2>1 DEF SendError, Fail, session, writer, disk
  <2>2. CASE HandleSignatures(e)
    <3>1. ChanOK'
      BY <1>0, <2>2, ConsumeType DEF HandleSignatures, Reads
    <3>2. Head(chan[Peer(e)]).basis \in Contents
      BY <2>2, ReadMessage DEF HandleSignatures
    <3>3. \A s \in Scripts : Len(s) \in Nat /\ 0 <= Len(s)
      BY ScriptsAssumption
    <3>4. CASE file[e] = "absent" /\ Fail(e) /\ UNCHANGED session
      BY <2>2, <3>1, <3>4 DEF HandleSignatures, ChanOK, Fail, session, writer, disk
    <3>5. CASE file[e] # "absent"
      BY <2>2, <3>1, <3>2, <3>3, <3>5
         DEF HandleSignatures, ChanOK, Computes, session, writer, disk
    <3> QED
      BY <2>2, <3>4, <3>5 DEF HandleSignatures
  <2>3. CASE SendDelta(e)
    <3>1. Len(delta) \in Nat
      OBVIOUS
    <3>2. ChanOK'
      BY <1>0, <2>3, PutType, MessageType DEF SendDelta
    <3> QED
      BY <2>3, <3>1, <3>2 DEF SendDelta, ChanOK, session, writer, disk
  <2>4. CASE SendComplete(e)
    <3>1. ChanOK'
      BY <1>0, <2>4, PutType, MessageType DEF SendComplete
    <3> QED
      BY <2>4, <3>1 DEF SendComplete, ChanOK, session, writer, disk
  <2>5. CASE HandleDelta(e)
    <3>1. ChanOK'
      BY <1>0, <2>5, ConsumeType DEF HandleDelta, Reads
    <3>2. Head(chan[Peer(e)]).index \in Nat
      BY <2>5, ReadMessage DEF HandleDelta
    <3>3. wq' \in [Endpoint -> Seq(Nat)] /\ \A d \in Endpoint : Len(wq'[d]) <= WriterCap
      <4>1. CASE UNCHANGED wq
        BY <4>1
      <4>2. CASE /\ Len(wq[e]) < WriterCap
                 /\ wq' = [wq EXCEPT ![e] = Append(@, Head(chan[Peer(e)]).index)]
        BY <3>2, <4>2, CapsAssumption, Appended
      <4> QED
        BY <2>5, <4>1, <4>2 DEF HandleDelta
    <3>4. pc' \in [Endpoint -> PCs] /\ reset' \in BOOLEAN
      BY <2>5, FailType DEF HandleDelta, PCs
    <3> QED
      BY <2>5, <3>1, <3>3, <3>4 DEF HandleDelta, ChanOK, PCs, session, writer, disk
  <2>6. CASE HandleComplete(e)
    <3>1. ChanOK'
      BY <1>0, <2>6, ReplyType, ConsumeType, MessageType DEF HandleComplete, Reads
    <3>2. pc' \in [Endpoint -> PCs] /\ reset' \in BOOLEAN
      BY <2>6, FailType, GotoType DEF HandleComplete, PCs
    <3>3. completed' \in [Endpoint -> BOOLEAN]
      <4>1. completed' = completed \/ completed' = [completed EXCEPT ![e] = TRUE]
        BY <2>6 DEF HandleComplete
      <4>2. completed \in [Endpoint -> BOOLEAN]
        BY DEF TypeOK
      <4> QED
        BY <4>1, <4>2
    <3> QED
      BY <2>6, <3>1, <3>2, <3>3 DEF HandleComplete, ChanOK, PCs, session, writer, disk
  <2>7. CASE EndOfStream(e)
    BY <2>7 DEF EndOfStream, session, writer, disk
  <2>8. CASE StreamError(e)
    BY <2>8, FailType DEF StreamError, PCs, session, writer, disk
  <2>9. CASE Wake(e)
    BY <2>9, GotoType DEF Wake, PCs, session, writer, disk
  <2> QED
    BY <1>7, <2>1, <2>2, <2>3, <2>4, <2>5, <2>6, <2>7, <2>8, <2>9 DEF Task
<1>8. ASSUME NEW e \in Endpoint, Writer(e) PROVE TypeOK'
  <2>1. CASE WriterCreate(e)
    BY <2>1 DEF WriterCreate, session, writer, disk
  <2>2. CASE WriterApply(e)
    <3>1. /\ Head(wq[e]) \in Nat /\ Tail(wq[e]) \in Seq(Nat)
          /\ Len(Tail(wq[e])) = Len(wq[e]) - 1 /\ Len(wq[e]) \in Nat
      BY <2>2, HeadTail DEF WriterApply
    <3>2. Len(Tail(wq[e])) <= WriterCap
      <4>1. Len(wq[e]) <= WriterCap
        BY DEF TypeOK
      <4>2. WriterCap \in Nat
        BY CapsAssumption
      <4> QED
        BY <3>1, <4>1, <4>2
    <3>3. /\ wq' \in [Endpoint -> Seq(Nat)] /\ written' \in [Endpoint -> SUBSET Nat]
          /\ \A d \in Endpoint : Len(wq'[d]) <= WriterCap
      BY <2>2, <3>1, <3>2 DEF WriterApply
    <3>4. /\ wpc' \in [Endpoint -> {"none", "create", "recv", "mtime", "done", "failed", "killed"}]
          /\ events' \subseteq Events
      BY <2>2 DEF WriterApply
    <3>5. mixed' \in [Endpoint -> BOOLEAN]
      <4> DEFINE stale == delta[Head(wq[e])] = "block" /\ cache[e] # basis
      <4>1. stale \in BOOLEAN /\ (mixed[e] \/ stale) \in BOOLEAN
        OBVIOUS
      <4>2. mixed' = [mixed EXCEPT ![e] = mixed[e] \/ stale] \/ mixed' = mixed
        BY <2>2 DEF WriterApply
      <4> HIDE DEF stale
      <4> QED
        BY <4>1, <4>2
    <3> QED
      BY <2>2, <3>3, <3>4, <3>5 DEF WriterApply, session, disk
  <2>3. CASE WriterCommit(e)
    BY <2>3 DEF WriterCommit, Outcome, session, writer, disk
  <2>4. CASE WriterSetMtime(e)
    BY <2>4 DEF WriterSetMtime, session, writer, disk
  <2> QED
    BY <1>8, <2>1, <2>2, <2>3, <2>4 DEF Writer
<1>9. CASE Environment
  <2>1. CASE ConnectionReset
    BY <2>1 DEF ConnectionReset, session, writer, disk
  <2>2. CASE LocalEdit
    BY <2>2 DEF LocalEdit, session, writer
  <2>3. CASE Vanish
    BY <2>3 DEF Vanish, session, writer
  <2>4. ASSUME NEW e \in Endpoint, Crash(e) PROVE TypeOK'
    <3>1. pc' \in [Endpoint -> PCs]
      BY <2>4 DEF Crash, PCs
    <3> QED
      BY <2>4, <3>1 DEF Crash, PCs, session, disk
  <2> QED
    BY <1>9, <2>1, <2>2, <2>3, <2>4 DEF Environment
<1>10. CASE UNCHANGED vars
  BY <1>10 DEF vars
<1> QED
  BY <1>1, <1>2, <1>3, <1>4, <1>5, <1>6, <1>7, <1>8, <1>9, <1>10
     DEF Next, Client, Server

\* Every variable has its type, and no channel or queue exceeds its capacity.
THEOREM TypeCorrect == Spec => []TypeOK
BY InitType, NextType, PTL DEF Spec

-----------------------------------------------------------------------------
(* How a send and a read change the two channels, element by element.       *)

Same(s, t) == Len(t) = Len(s) /\ DOMAIN t = DOMAIN s /\ \A i \in DOMAIN s : t[i] = s[i]

Longer(s, t, x) ==
  /\ Len(t) = Len(s) + 1 /\ DOMAIN t = 1..(Len(s) + 1)
  /\ \A i \in 1..Len(s) : t[i] = s[i]
  /\ t[Len(s) + 1] = x

Shorter(s, t) ==
  /\ Len(s) # 0 /\ Len(t) = Len(s) - 1 /\ DOMAIN t = 1..(Len(s) - 1)
  /\ \A i \in 1..(Len(s) - 1) : t[i] = s[i + 1]

LEMMA ChanFacts ==
  ASSUME TypeOK, NEW e \in Endpoint
  PROVE  /\ Len(chan[e]) \in Nat /\ DOMAIN chan[e] = 1..Len(chan[e])
         /\ \A i \in DOMAIN chan[e] : chan[e][i] \in Message
         /\ (chan[e] = <<>> <=> Len(chan[e]) = 0)
BY EmptySeq, LenProperties DEF TypeOK

LEMMA PutEffect ==
  ASSUME TypeOK, NEW e \in Endpoint, NEW m \in Message, Put(e, m)
  PROVE  /\ chan'[Peer(e)] = chan[Peer(e)]
         /\ \/ ~reset /\ ~Ended(Peer(e)) /\ Longer(chan[e], chan'[e], m)
            \/ (reset \/ Ended(Peer(e))) /\ chan'[e] = chan[e]
<1>1. chan[e] \in Seq(Message) /\ Peer(e) \in Endpoint /\ Peer(e) # e
  BY DEF TypeOK, Peer
<1>2. CASE chan' = [chan EXCEPT ![e] = Append(@, m)] /\ ~reset /\ ~Ended(Peer(e))
  <2>1. chan'[Peer(e)] = chan[Peer(e)] /\ chan'[e] = Append(chan[e], m)
    BY <1>1, <1>2 DEF TypeOK
  <2> QED
    BY <1>1, <1>2, <2>1, Appended DEF Longer
<1> QED
  BY <1>2 DEF Put

LEMMA ConsumeEffect ==
  ASSUME TypeOK, NEW e \in Endpoint, chan[Peer(e)] # <<>>, Consume(e)
  PROVE  chan'[e] = chan[e] /\ Shorter(chan[Peer(e)], chan'[Peer(e)])
<1>1. chan[Peer(e)] \in Seq(Message) /\ Peer(e) \in Endpoint /\ Peer(e) # e
  BY DEF TypeOK, Peer
<1> QED
  BY <1>1, HeadTail DEF Consume, TypeOK, Shorter

LEMMA ReplyEffect ==
  ASSUME TypeOK, NEW e \in Endpoint, NEW m \in Message, chan[Peer(e)] # <<>>, Reply(e, m)
  PROVE  /\ Shorter(chan[Peer(e)], chan'[Peer(e)])
         /\ \/ ~reset /\ ~Ended(Peer(e)) /\ Longer(chan[e], chan'[e], m)
            \/ (reset \/ Ended(Peer(e))) /\ chan'[e] = chan[e]
<1>1. /\ chan[Peer(e)] \in Seq(Message) /\ chan[e] \in Seq(Message)
      /\ Peer(e) \in Endpoint /\ Peer(e) # e
  BY DEF TypeOK, Peer
<1>2. CASE Consume(e) /\ (reset \/ Ended(Peer(e)))
  BY <1>2, ConsumeEffect
<1>3. CASE /\ ~reset /\ ~Ended(Peer(e))
           /\ chan' = [chan EXCEPT ![Peer(e)] = Tail(@), ![e] = Append(@, m)]
  <2>1. chan'[Peer(e)] = Tail(chan[Peer(e)]) /\ chan'[e] = Append(chan[e], m)
    BY <1>1, <1>3 DEF TypeOK
  <2> QED
    <3>1. Shorter(chan[Peer(e)], chan'[Peer(e)])
      BY <1>1, <2>1, HeadTail DEF Shorter
    <3>2. Longer(chan[e], chan'[e], m)
      BY <1>1, <2>1, Appended DEF Longer
    <3> QED
      BY <1>3, <3>1, <3>2
<1> QED
  BY <1>2, <1>3 DEF Reply

LEMMA Ends ==
  ASSUME TypeOK
  PROVE  /\ Sender \in Endpoint /\ Receiver \in Endpoint /\ Sender # Receiver
         /\ \A e \in Endpoint : e = Sender \/ e = Receiver
         /\ Peer(Sender) = Receiver /\ Peer(Receiver) = Sender
         /\ dir = "Upload" => Sender = "client" /\ Receiver = "server"
         /\ dir # "Upload" => Sender = "server" /\ Receiver = "client"
BY DEF Sender, Receiver, Peer

\* NothingLost only depends on what is where.
LEMMA NothingLostFrame ==
  ASSUME NothingLost, UNCHANGED <<dir, sent, written, wq, chan>>,
         Intact' => Intact,
         wpc'[Receiver] \notin {"failed", "killed"} => wpc[Receiver] \notin {"failed", "killed"}
  PROVE  NothingLost'
<1>1. Receiver' = Receiver /\ Sender' = Sender
  BY DEF Receiver, Sender
<1>2. \A k : Reached(k)' <=> Reached(k)
  BY <1>1 DEF Reached
<1> QED
  BY <1>1, <1>2 DEF NothingLost

-----------------------------------------------------------------------------
(* One lemma for every action that moves messages.                          *)

\* A longer sequence has the items of the shorter one, and the new one.
LEMMA LongerItems ==
  ASSUME NEW s, NEW t, NEW x, Longer(s, t, x), Len(s) \in Nat, DOMAIN s = 1..Len(s)
  PROVE  \A i \in DOMAIN t : t[i] = x \/ (i \in DOMAIN s /\ t[i] = s[i])
BY DEF Longer

LEMMA StepSendDelta ==
  ASSUME TypeOK, TypeOK', Protocol, NEW e \in Endpoint, SendDelta(e)
  PROVE  Protocol'
<1> USE DEF Protocol
<1> DEFINE m == Msg("delta", sent + 1, "absent")
<1>1. /\ e = Sender /\ delta # NoDelta /\ pc[Sender] = "send"
      /\ ~Has(Sender, "complete") /\ ~completed[Receiver]
  BY Ends DEF SendDelta, Roles, Traffic, Completion
<1>2. Sender' = Sender /\ Receiver' = Receiver
  BY DEF SendDelta, Sender, Receiver
<1>3. m \in Message /\ m.type = "delta" /\ m.index = sent + 1
  <2>1. sent + 1 \in Nat /\ "absent" \in Contents
    BY DEF TypeOK, Contents
  <2> QED
    BY <2>1, MessageType DEF Msg
<1>4. /\ chan'[Receiver] = chan[Receiver]
      /\ \/ ~reset /\ ~Ended(Receiver) /\ Longer(chan[Sender], chan'[Sender], m)
         \/ (reset \/ Ended(Receiver)) /\ chan'[Sender] = chan[Sender]
  BY <1>1, <1>3, Ends, PutEffect DEF SendDelta
<1>5. /\ sent' = sent + 1 /\ sent \in Nat
      /\ UNCHANGED <<dir, delta, basis, pc, completed, wpc, wq, cache, written, mixed,
                     file, mtime, reset, events>>
  BY DEF SendDelta, writer, disk, TypeOK
<1>6. /\ Len(chan[Sender]) \in Nat /\ DOMAIN chan[Sender] = 1..Len(chan[Sender])
      /\ \A f \in Endpoint : f = Sender \/ f = Receiver
  BY Ends, ChanFacts
<1> HIDE DEF m
<1>7. Roles'
  BY <1>2, <1>5 DEF Roles
<1>8. Traffic'
  <2> USE DEF Traffic
  <2>1. \A i \in DOMAIN chan'[Sender] :
          \/ chan'[Sender][i].type = "delta" /\ chan'[Sender][i].index = sent + 1
          \/ /\ i \in DOMAIN chan[Sender] /\ chan'[Sender][i] = chan[Sender][i]
             /\ chan[Sender][i].type \in {"action", "delta"}
    <3>1. \A i \in DOMAIN chan[Sender] : chan[Sender][i].type \in {"action", "delta"}
      BY <1>1, Ends, ChanFacts DEF Has, Message
    <3> QED
      BY <1>3, <1>4, <1>6, <3>1 DEF Longer
  <2>2. \A i \in DOMAIN chan'[Sender] :
          /\ chan'[Sender][i].type = "action" => Sender = "client" /\ i = 1
          /\ chan'[Sender][i].type = "delta" => chan'[Sender][i].index \in 1..(sent + 1)
          /\ chan'[Sender][i].type \notin {"signatures", "complete"}
    BY <1>5, <2>1, Ends
  <2> QED
    BY <1>1, <1>2, <1>4, <1>5, <1>6, <2>2, Ends
<1>9. Start'
  <2>1. Has("client", "action")' => Has("client", "action")
    <3>1. CASE "client" = Sender
      <4>1. m.type # "action"
        BY DEF m, Msg
      <4>2. \A i \in DOMAIN chan'[Sender] :
              chan'[Sender][i].type = "action" => i \in DOMAIN chan[Sender] /\ chan'[Sender][i] = chan[Sender][i]
        BY <1>4, <1>6, <4>1, LongerItems
      <4> QED
        BY <3>1, <4>2 DEF Has
    <3>2. CASE "client" = Receiver
      BY <1>4, <3>2 DEF Has
    <3> QED
      BY <3>1, <3>2, Ends
  <2> QED
    BY <1>1, <1>5, <2>1 DEF Start
<1>10. WriterReady'
  BY <1>1, <1>2, <1>3, <1>4, <1>5, <1>6, Ends DEF WriterReady, Longer, Has
<1>11. SameBlocks'
  BY <1>1, <1>2, <1>4, <1>5 DEF SameBlocks, Cached
<1>12. Completion'
  <2>1. ~Has(Sender, "complete")'
    <3>1. \A n \in DOMAIN chan[Sender] : chan[Sender][n].type # "complete"
      BY <1>1 DEF Has
    <3>2. \A n \in DOMAIN chan'[Sender] : chan'[Sender][n].type # "complete"
      <4>1. CASE Longer(chan[Sender], chan'[Sender], m)
        BY <1>3, <1>6, <3>1, <4>1, LongerItems
      <4>2. CASE chan'[Sender] = chan[Sender]
        BY <3>1, <4>2
      <4> QED
        BY <1>4, <4>1, <4>2
    <3> QED
      BY <1>2, <3>2 DEF Has
  <2>2. ~completed[Receiver] /\ ~completed[Sender]
    BY <1>1 DEF Completion
  <2>3. \A f \in Endpoint : completed[f] => pc[f] \in Final \cup {"sleep"}
    BY DEF Completion
  <2> QED
    BY <1>2, <1>5, <2>1, <2>2, <2>3 DEF Completion
<1>13. NothingLost'
  <2>1. CASE Longer(chan[Sender], chan'[Sender], m) /\ ~reset /\ ~Ended(Receiver)
    <3>1. \A k : Reached(k) => Reached(k)'
      BY <1>2, <1>5, <1>6, <2>1 DEF Reached, Longer
    <3>2. \A k : k = sent + 1 => Reached(k)'
      <4>1. /\ Len(chan[Sender]) + 1 \in DOMAIN chan'[Sender]
            /\ chan'[Sender][Len(chan[Sender]) + 1] = m
        BY <1>6, <2>1 DEF Longer
      <4> QED
        BY <1>2, <1>3, <4>1 DEF Reached
    <3>3. \A k \in 1..sent' : k \in 1..sent \/ k = sent + 1
      BY <1>5
    <3>4. Intact
      BY <2>1 DEF Intact
    <3> QED
      BY <1>2, <1>5, <3>1, <3>2, <3>3, <3>4 DEF NothingLost
  <2>2. CASE (reset \/ Ended(Receiver)) /\ chan'[Sender] = chan[Sender]
    BY <1>1, <1>2, <1>5, <2>2 DEF NothingLost, Intact, Has, Ended
  <2> QED
    BY <1>4, <2>1, <2>2
<1>14. WriterState'
  BY <1>2, <1>5 DEF WriterState, Ended, Held
<1> QED
  BY <1>7, <1>8, <1>9, <1>10, <1>11, <1>12, <1>13, <1>14

LEMMA StepSendComplete ==
  ASSUME TypeOK, TypeOK', Protocol, NEW e \in Endpoint, SendComplete(e)
  PROVE  Protocol'
<1> USE DEF Protocol
<1> DEFINE m == Msg("complete", 0, "absent")
<1>1. /\ e = Sender /\ delta # NoDelta /\ pc[Sender] = "send" /\ sent = Len(delta)
      /\ ~Has(Sender, "complete") /\ ~completed[Receiver] /\ ~completed[Sender]
  BY Ends DEF SendComplete, Roles, Traffic, Completion
<1>2. Sender' = Sender /\ Receiver' = Receiver
  BY DEF SendComplete, session, Sender, Receiver
<1>3. m \in Message /\ m.type = "complete"
  BY MessageType DEF Msg, Contents
<1>4. /\ chan'[Receiver] = chan[Receiver]
      /\ \/ ~reset /\ ~Ended(Receiver) /\ Longer(chan[Sender], chan'[Sender], m)
         \/ (reset \/ Ended(Receiver)) /\ chan'[Sender] = chan[Sender]
  BY <1>1, <1>3, Ends, PutEffect DEF SendComplete
<1>5. /\ pc' = [pc EXCEPT ![Sender] = "recv"]
      /\ UNCHANGED <<dir, delta, sent, basis, completed, wpc, wq, cache, written, mixed,
                     file, mtime, reset, events>>
  BY <1>1 DEF SendComplete, Goto, session, writer, disk
<1>6. /\ Len(chan[Sender]) \in Nat /\ DOMAIN chan[Sender] = 1..Len(chan[Sender])
      /\ \A f \in Endpoint : f = Sender \/ f = Receiver
  BY Ends, ChanFacts
<1>7. /\ pc'[Sender] = "recv" /\ pc'[Receiver] = pc[Receiver]
      /\ Ended(Sender)' = Ended(Sender) /\ Ended(Receiver)' = Ended(Receiver)
  BY <1>1, <1>2, <1>5, Ends DEF TypeOK, Ended, Final
<1> HIDE DEF m
<1>8. Roles'
  BY <1>1, <1>2, <1>5, <1>7, Ends DEF Roles
<1>9. Traffic'
  <2>1. \A i \in DOMAIN chan'[Sender] :
          \/ chan'[Sender][i].type = "complete" /\ i = Len(chan'[Sender])
          \/ /\ i \in DOMAIN chan[Sender] /\ chan'[Sender][i] = chan[Sender][i]
             /\ chan[Sender][i].type \in {"action", "delta"}
    <3>1. \A i \in DOMAIN chan[Sender] : chan[Sender][i].type \in {"action", "delta"}
      BY <1>1, Ends, ChanFacts DEF Has, Message, Traffic
    <3> QED
      BY <1>3, <1>4, <1>6, <3>1 DEF Longer
  <2>2. \A i \in DOMAIN chan'[Sender] :
          /\ chan'[Sender][i].type = "action" => Sender = "client" /\ i = 1
          /\ chan'[Sender][i].type = "delta" => chan'[Sender][i].index \in 1..sent
          /\ chan'[Sender][i].type # "signatures"
          /\ chan'[Sender][i].type = "complete" => i = Len(chan'[Sender])
    BY <2>1, Ends DEF Traffic
  <2> QED
    BY <1>1, <1>2, <1>4, <1>5, <1>6, <1>7, <2>2, Ends DEF Traffic
<1>10. Start'
  <2>1. Has("client", "action")' => Has("client", "action")
    <3>1. CASE "client" = Sender
      <4>1. m.type # "action"
        BY DEF m, Msg
      <4>2. \A i \in DOMAIN chan'[Sender] :
              chan'[Sender][i].type = "action" => i \in DOMAIN chan[Sender] /\ chan'[Sender][i] = chan[Sender][i]
        BY <1>4, <1>6, <4>1, LongerItems
      <4> QED
        BY <3>1, <4>2 DEF Has
    <3>2. CASE "client" = Receiver
      BY <1>4, <3>2 DEF Has
    <3> QED
      BY <3>1, <3>2, Ends
  <2>2. pc'["client"] \in {"call", "action", "sign", "prepare"} => pc["client"] = pc'["client"]
    BY <1>7, Ends
  <2> QED
    BY <1>1, <1>5, <2>1, <2>2 DEF Start
<1>11. WriterReady'
  BY <1>1, <1>2, <1>4, <1>5, <1>7, Ends DEF WriterReady, Has
<1>12. SameBlocks'
  BY <1>1, <1>2, <1>4, <1>5, <1>7, Ends DEF SameBlocks, Cached
<1>13. Completion'
  BY <1>1, <1>2, <1>3, <1>4, <1>5, <1>6, <1>7, Ends DEF Completion
<1>14. NothingLost'
  <2>1. \A k : Reached(k) => Reached(k)'
    BY <1>2, <1>4, <1>5, <1>6 DEF Reached, Longer
  <2>2. Intact' => Intact
    BY <1>1, <1>2, <1>4, <1>5, <1>7 DEF Intact, Has
  <2> QED
    BY <1>2, <1>5, <2>1, <2>2 DEF NothingLost
<1>15. WriterState'
  BY <1>2, <1>5, <1>6, <1>7, Ends DEF WriterState, Held
<1> QED
  BY <1>8, <1>9, <1>10, <1>11, <1>12, <1>13, <1>14, <1>15

LEMMA StepHandleSignatures ==
  ASSUME TypeOK, TypeOK', Protocol, NEW e \in Endpoint, HandleSignatures(e)
  PROVE  Protocol'
<1> USE DEF Protocol
<1>1. /\ chan[Peer(e)] # <<>> /\ Len(chan[Peer(e)]) \in Nat \ {0}
      /\ 1 \in DOMAIN chan[Peer(e)] /\ Peer(e) \in Endpoint
      /\ Head(chan[Peer(e)]) = chan[Peer(e)][1] /\ chan[Peer(e)][1].type = "signatures"
  <2>1. Peer(e) \in Endpoint /\ chan[Peer(e)] \in Seq(Message) /\ chan[Peer(e)] # <<>>
    BY DEF HandleSignatures, Reads, TypeOK, Peer
  <2> QED
    BY <2>1, HeadTail DEF HandleSignatures, Reads
<1>2. /\ e = Sender /\ Peer(e) = Receiver /\ dir # "Skip" /\ delta = NoDelta
      /\ Len(chan[Receiver]) = 1
  BY <1>1, Ends DEF Traffic
<1>3. chan'[Sender] = chan[Sender] /\ Shorter(chan[Receiver], chan'[Receiver])
  BY <1>1, <1>2, ConsumeEffect DEF HandleSignatures
<1>4. DOMAIN chan'[Receiver] = {} /\ sent = 0
  BY <1>2, <1>3 DEF Shorter, Traffic
<1>5. /\ UNCHANGED <<dir, completed, wpc, wq, cache, written, mixed, file, mtime, events>>
      /\ sent' = 0
      /\ \/ UNCHANGED <<delta, basis>> /\ pc' = [pc EXCEPT ![Sender] = "failed"]
         \/ /\ delta' # NoDelta /\ basis' = chan[Receiver][1].basis
            /\ pc' = [pc EXCEPT ![Sender] = "send"]
  <2>1. \A s \in Scripts : s # NoDelta
    <3>1. \A s \in Scripts : 1 \in DOMAIN s => s[1] \in {"block", "literal"}
      BY ScriptsAssumption, ElementOfSeq
    <3>2. 1 \in DOMAIN NoDelta /\ NoDelta[1] = "unread"
      BY DEF NoDelta
    <3> QED
      BY <3>1, <3>2
  <2>2. UNCHANGED <<dir, completed, wpc, wq, cache, written, mixed, file, mtime, events>>
    BY DEF HandleSignatures, session, writer, disk
  <2>3. CASE file[e] = "absent" /\ Fail(e) /\ UNCHANGED session
    BY <1>2, <1>4, <2>2, <2>3 DEF Fail, Goto, session
  <2>4. CASE file[e] # "absent"
    BY <1>1, <1>2, <2>1, <2>2, <2>4 DEF HandleSignatures, Goto, Computes
  <2> QED
    BY <2>3, <2>4 DEF HandleSignatures
<1>6. Sender' = Sender /\ Receiver' = Receiver
  BY <1>5 DEF Sender, Receiver
<1>7. /\ pc'[Receiver] = pc[Receiver] /\ pc'[Sender] \in {"send", "failed"}
      /\ pc'[Sender] = "send" => delta' # NoDelta
  BY <1>5, Ends DEF TypeOK
<1>8. \A i \in DOMAIN chan[Sender] : chan[Sender][i].type = "action"
  BY <1>2, Ends DEF Traffic
<1>9. \A f \in Endpoint : ~completed[f]
  BY <1>2 DEF Traffic
<1>10. /\ ~Has("client", "action") /\ pc["client"] \notin {"call", "action", "sign"}
  <2>1. CASE dir = "Upload"
    BY <1>1, <1>2, <2>1, Ends DEF Start, Roles
  <2>2. CASE dir # "Upload"
    <3>1. Receiver = "client" /\ Sender = "server"
      BY <2>2, Ends
    <3>2. ~Has("client", "action")
      BY <1>1, <1>2, <3>1 DEF Has, Traffic
    <3>3. Has("client", "signatures")
      BY <1>1, <1>2, <3>1 DEF Has
    <3> QED
      BY <3>2, <3>3 DEF Start
  <2> QED
    BY <2>1, <2>2
<1>11. Roles'
  BY <1>5, <1>6, <1>7, Ends DEF Roles
<1>12. Traffic'
  BY <1>2, <1>3, <1>4, <1>5, <1>6, <1>7, <1>8, <1>9, Ends DEF Traffic
<1>13. Start'
  BY <1>3, <1>4, <1>5, <1>7, <1>10, Ends DEF Start, Has
<1>14. WriterReady'
  BY <1>1, <1>2, <1>5, <1>7, Ends DEF WriterReady, Has
<1>15. SameBlocks'
  BY <1>1, <1>2, <1>4, <1>5, <1>6, <1>7, Ends DEF SameBlocks, Cached
<1>16. Completion'
  BY <1>3, <1>5, <1>6, <1>8, <1>9, Ends DEF Completion, Has
<1>17. NothingLost'
  BY <1>5 DEF NothingLost
<1>18. WriterState'
  BY <1>4, <1>5, <1>6, <1>7, <1>9, Ends DEF WriterState, Roles, Held, Ended
<1> QED
  BY <1>11, <1>12, <1>13, <1>14, <1>15, <1>16, <1>17, <1>18
\* What every reader knows of the message it reads.
LEMMA ReadFirst ==
  ASSUME TypeOK, NEW e \in Endpoint, NEW type, Reads(e, type)
  PROVE  /\ Peer(e) \in Endpoint /\ Peer(e) # e
         /\ pc[e] = "recv" /\ chan[Peer(e)] # <<>>
         /\ Len(chan[Peer(e)]) \in Nat \ {0} /\ 1 \in DOMAIN chan[Peer(e)]
         /\ Head(chan[Peer(e)]) = chan[Peer(e)][1] /\ chan[Peer(e)][1].type = type
<1>1. Peer(e) \in Endpoint /\ chan[Peer(e)] \in Seq(Message) /\ chan[Peer(e)] # <<>>
  BY DEF Reads, TypeOK, Peer
<1> QED
  BY <1>1, HeadTail DEF Reads, Peer

LEMMA StepHandleDelta ==
  ASSUME TypeOK, TypeOK', Protocol, NEW e \in Endpoint, HandleDelta(e)
  PROVE  Protocol'
<1> USE DEF Protocol
<1> DEFINE h == chan[Sender][1].index
<1>1. /\ e = Receiver /\ Peer(e) = Sender /\ pc[Receiver] = "recv"
      /\ 1 \in DOMAIN chan[Sender] /\ chan[Sender][1].type = "delta"
      /\ Head(chan[Sender]).index = h /\ chan[Sender] # <<>>
  BY ReadFirst, Ends DEF HandleDelta, Traffic
<1>2. delta # NoDelta /\ dir # "Skip" /\ h \in 1..sent /\ ~completed[Receiver]
  BY <1>1, Ends DEF Traffic, Completion, Final
<1>3. chan'[Receiver] = chan[Receiver] /\ Shorter(chan[Sender], chan'[Sender])
  BY <1>1, ConsumeEffect DEF HandleDelta
<1>4. /\ UNCHANGED <<dir, delta, sent, basis, completed, wpc, cache, written, mixed,
                     file, mtime, events>>
      /\ Sender' = Sender /\ Receiver' = Receiver
  BY DEF HandleDelta, session, disk, Sender, Receiver
<1>5. wpc[Receiver] # "none"
  BY <1>1, <1>2, Ends, DirectionsAssumption DEF WriterReady, TypeOK
<1>6. \/ /\ wpc[Receiver] \in {"create", "recv"}
         /\ Longer(wq[Receiver], wq'[Receiver], h) /\ wq'[Sender] = wq[Sender]
         /\ UNCHANGED <<pc, reset>>
      \/ /\ wpc[Receiver] = "failed" /\ wq' = wq
         /\ pc' = [pc EXCEPT ![Receiver] = "failed"]
  <2>1. CASE /\ wpc[e] \in {"create", "recv"} /\ UNCHANGED <<pc, reset>>
             /\ wq' = [wq EXCEPT ![e] = Append(@, Head(chan[Peer(e)]).index)]
    <3>1. wq[Receiver] \in Seq(Nat) /\ h \in Nat
      <4>1. wq[Receiver] \in Seq(Nat) /\ sent \in Nat
        BY Ends DEF TypeOK
      <4> QED
        BY <1>2, <4>1
    <3>2. wq'[Receiver] = Append(wq[Receiver], h) /\ wq'[Sender] = wq[Sender]
      BY <1>1, <2>1, Ends DEF TypeOK
    <3> QED
      BY <1>1, <2>1, <3>1, <3>2, Appended DEF Longer
  <2>2. CASE wpc[e] \notin {"none", "create", "recv"} /\ Fail(e) /\ UNCHANGED wq
    BY <1>1, <1>2, <2>2, Ends DEF WriterState, Held, Ended, Final, TypeOK, Fail, Goto
  <2> QED
    BY <1>1, <1>5, <2>1, <2>2 DEF HandleDelta
<1>7. /\ pc'[Sender] = pc[Sender] /\ pc'[Receiver] \in {"recv", "failed"}
      /\ DOMAIN chan[Sender] = 1..Len(chan[Sender]) /\ Len(chan[Sender]) \in Nat
      /\ DOMAIN wq[Receiver] = 1..Len(wq[Receiver]) /\ Len(wq[Receiver]) \in Nat
      /\ wq'[Sender] = wq[Sender]
  <2>1. pc'[Sender] = pc[Sender] /\ pc'[Receiver] \in {"recv", "failed"}
    BY <1>1, <1>6, Ends DEF TypeOK
  <2>2. DOMAIN chan[Sender] = 1..Len(chan[Sender]) /\ Len(chan[Sender]) \in Nat
    BY Ends, ChanFacts
  <2>3. wq[Receiver] \in Seq(Nat)
    BY Ends DEF TypeOK
  <2>4. DOMAIN wq[Receiver] = 1..Len(wq[Receiver]) /\ Len(wq[Receiver]) \in Nat
    BY <2>3, LenProperties
  <2> QED
    BY <1>6, <2>1, <2>2, <2>4
<1> HIDE DEF h
<1>8. Roles'
  BY <1>1, <1>4, <1>7, Ends DEF Roles
<1>0. \A i \in DOMAIN chan'[Sender] :
        i + 1 \in DOMAIN chan[Sender] /\ chan'[Sender][i] = chan[Sender][i + 1]
  BY <1>3, <1>7 DEF Shorter
<1>9. Traffic'
  <2>2. \A i \in DOMAIN chan'[Sender] :
          /\ chan'[Sender][i].type \notin {"action", "signatures"}
          /\ chan'[Sender][i].type = "delta" => chan'[Sender][i].index \in 1..sent
          /\ chan'[Sender][i].type = "complete" => i = Len(chan'[Sender]) /\ sent = Len(delta)
    <3> SUFFICES ASSUME NEW i \in DOMAIN chan'[Sender]
                 PROVE  /\ chan'[Sender][i].type \notin {"action", "signatures"}
                        /\ chan'[Sender][i].type = "delta" => chan'[Sender][i].index \in 1..sent
                        /\ chan'[Sender][i].type = "complete" =>
                             i = Len(chan'[Sender]) /\ sent = Len(delta)
      OBVIOUS
    <3>1. i \in Nat \ {0} /\ Len(chan'[Sender]) = Len(chan[Sender]) - 1
      BY <1>3, <1>7 DEF Shorter
    <3>2. i + 1 \in DOMAIN chan[Sender] /\ chan'[Sender][i] = chan[Sender][i + 1] /\ i + 1 # 1
      BY <1>0, <3>1
    <3>3. /\ chan[Sender][i + 1].type \notin {"action", "signatures"}
          /\ chan[Sender][i + 1].type = "delta" => chan[Sender][i + 1].index \in 1..sent
          /\ chan[Sender][i + 1].type = "complete" =>
               i + 1 = Len(chan[Sender]) /\ sent = Len(delta)
      BY <3>2, Ends DEF Traffic
    <3> QED
      BY <1>7, <3>1, <3>2, <3>3
  <2> QED
    BY <1>2, <1>3, <1>4, <2>2, Ends DEF Traffic
<1>10. Start'
  <2>1. Has("client", "action")' => Has("client", "action")
    <3>1. CASE "client" = Sender
      BY <1>0, <3>1 DEF Has
    <3>2. CASE "client" = Receiver
      BY <1>3, <3>2 DEF Has
    <3> QED
      BY <3>1, <3>2, Ends
  <2>2. pc'["client"] \in {"call", "action", "sign", "prepare"} => pc["client"] = pc'["client"]
    BY <1>7, Ends
  <2> QED
    BY <1>2, <1>4, <2>1, <2>2 DEF Start
<1>11. WriterReady'
  BY <1>2, <1>4, <1>5, Ends DEF WriterReady
<1>12. SameBlocks'
  BY <1>1, <1>2, <1>3, <1>4, <1>7, Ends DEF SameBlocks, Cached
<1>13. Completion'
  <2>1. \A type : ~Has(Sender, type) => ~Has(Sender, type)'
    BY <1>0, <1>4 DEF Has
  <2> QED
    BY <1>1, <1>2, <1>4, <1>7, <2>1, Ends DEF Completion
<1>14. NothingLost'
  <2>1. CASE /\ wpc[Receiver] \in {"create", "recv"} /\ Longer(wq[Receiver], wq'[Receiver], h)
             /\ UNCHANGED <<pc, reset>>
    <3>1. ASSUME NEW k, Reached(k) PROVE Reached(k)'
      <4>1. CASE k \in written[Receiver]
        BY <1>4, <4>1 DEF Reached
      <4>2. CASE \E i \in DOMAIN wq[Receiver] : wq[Receiver][i] = k
        BY <1>4, <1>7, <2>1, <4>2 DEF Reached, Longer
      <4>3. ASSUME NEW i \in DOMAIN chan[Sender], chan[Sender][i].type = "delta",
                   chan[Sender][i].index = k
            PROVE  Reached(k)'
        <5>1. CASE i = 1
          <6>1. /\ Len(wq[Receiver]) + 1 \in DOMAIN wq'[Receiver]
                /\ wq'[Receiver][Len(wq[Receiver]) + 1] = k
            BY <1>7, <2>1, <4>3, <5>1 DEF Longer, h
          <6> QED
            BY <1>4, <6>1 DEF Reached
        <5>2. CASE i # 1
          <6>1. i - 1 \in DOMAIN chan'[Sender] /\ chan'[Sender][i - 1] = chan[Sender][i]
            BY <1>3, <1>7, <5>2 DEF Shorter
          <6> QED
            BY <1>4, <4>3, <6>1 DEF Reached
        <5> QED
          BY <5>1, <5>2
      <4> QED
        BY <3>1, <4>1, <4>2, <4>3 DEF Reached
    <3>2. Intact' => Intact
      BY <1>0, <1>4, <2>1 DEF Intact, Has, Ended
    <3> QED
      BY <1>4, <2>1, <3>1, <3>2 DEF NothingLost
  <2>2. CASE wpc[Receiver] = "failed"
    BY <1>4, <2>2 DEF NothingLost
  <2> QED
    BY <1>6, <2>1, <2>2
<1>15. WriterState'
  <2>1. \A i \in DOMAIN wq'[Receiver] : wq'[Receiver][i] \in 1..sent
    <3>1. \A i \in DOMAIN wq[Receiver] : wq[Receiver][i] \in 1..sent
      BY Ends DEF WriterState
    <3>2. CASE Longer(wq[Receiver], wq'[Receiver], h)
      <4>1. \A i \in DOMAIN wq'[Receiver] :
              \/ wq'[Receiver][i] = h
              \/ i \in DOMAIN wq[Receiver] /\ wq'[Receiver][i] = wq[Receiver][i]
        <5> HIDE DEF h
        <5> QED
          BY <1>7, <3>2, LongerItems
      <4> QED
        BY <1>2, <3>1, <4>1
    <3> QED
      BY <1>6, <3>1, <3>2
  <2> QED
    BY <1>1, <1>2, <1>4, <1>6, <1>7, <2>1, Ends DEF WriterState, Held, Ended, Final, Roles
<1> QED
  BY <1>8, <1>9, <1>10, <1>11, <1>12, <1>13, <1>14, <1>15
\* The two outcomes of HandleComplete: the reply is sent (or lost) and the task
\* goes to sleep, or the reply fails and the task with it.
LEMMA CompleteEffect ==
  ASSUME TypeOK, Protocol, NEW e \in Endpoint, HandleComplete(e)
  PROVE  /\ pc[e] = "recv" /\ ~completed[e]
         /\ 1 \in DOMAIN chan[Peer(e)] /\ chan[Peer(e)][1].type = "complete"
         /\ Shorter(chan[Peer(e)], chan'[Peer(e)])
         /\ UNCHANGED <<dir, delta, sent, basis, wpc, wq, cache, written, mixed, file,
                        mtime, events>>
         /\ Sender' = Sender /\ Receiver' = Receiver
         /\ \/ /\ completed' = [completed EXCEPT ![e] = TRUE]
               /\ pc' = [pc EXCEPT ![e] = "sleep"] /\ reset' = reset
               /\ \/ Longer(chan[e], chan'[e], Msg("complete", 0, "absent"))
                  \/ chan'[e] = chan[e]
            \/ /\ completed' = completed /\ chan'[e] = chan[e]
               /\ pc' = [pc EXCEPT ![e] = "failed"]
<1>1. /\ pc[e] = "recv" /\ chan[Peer(e)] # <<>> /\ 1 \in DOMAIN chan[Peer(e)]
      /\ chan[Peer(e)][1].type = "complete"
  BY ReadFirst DEF HandleComplete
<1>2. ~completed[e]
  BY <1>1 DEF Protocol, Completion, Final
<1>3. Msg("complete", 0, "absent") \in Message
  BY MessageType DEF Contents
<1>4. /\ UNCHANGED <<dir, delta, sent, basis, wpc, wq, cache, written, mixed, file,
                     mtime, events>>
      /\ Sender' = Sender /\ Receiver' = Receiver
  BY DEF HandleComplete, session, writer, disk, Sender, Receiver
<1>5. CASE /\ Reply(e, Msg("complete", 0, "absent"))
           /\ completed' = [completed EXCEPT ![e] = TRUE]
           /\ Goto(e, "sleep") /\ UNCHANGED reset
  BY <1>1, <1>2, <1>3, <1>4, <1>5, ReplyEffect DEF Goto
<1>6. CASE Consume(e) /\ Fail(e) /\ UNCHANGED completed
  BY <1>1, <1>2, <1>4, <1>6, ConsumeEffect DEF Fail, Goto
<1> QED
  BY <1>5, <1>6 DEF HandleComplete

LEMMA StepReceiverComplete ==
  ASSUME TypeOK, TypeOK', Protocol, HandleComplete(Receiver)
  PROVE  Protocol'
<1> USE DEF Protocol
<1> DEFINE m == Msg("complete", 0, "absent")
           Replied == /\ completed' = [completed EXCEPT ![Receiver] = TRUE]
                      /\ pc' = [pc EXCEPT ![Receiver] = "sleep"] /\ reset' = reset
                      /\ Longer(chan[Receiver], chan'[Receiver], m) \/ chan'[Receiver] = chan[Receiver]
           Failed == /\ completed' = completed /\ chan'[Receiver] = chan[Receiver]
                     /\ pc' = [pc EXCEPT ![Receiver] = "failed"]
<1>1. /\ pc[Receiver] = "recv" /\ ~completed[Receiver]
      /\ 1 \in DOMAIN chan[Sender] /\ chan[Sender][1].type = "complete"
      /\ Shorter(chan[Sender], chan'[Sender])
      /\ UNCHANGED <<dir, delta, sent, basis, wpc, wq, cache, written, mixed, file, mtime, events>>
      /\ Sender' = Sender /\ Receiver' = Receiver /\ (Replied \/ Failed)
  BY Ends, CompleteEffect
<1>2. /\ delta # NoDelta /\ dir # "Skip" /\ sent = Len(delta) /\ Len(chan[Sender]) = 1
      /\ Has(Sender, "complete") /\ pc[Sender] # "send" /\ ~completed[Sender]
  BY <1>1, Ends DEF Traffic, Has, Completion
<1>3. DOMAIN chan'[Sender] = {} /\ chan'[Sender] = <<>>
  <2>1. Len(chan'[Sender]) = 0 /\ DOMAIN chan'[Sender] = {}
    BY <1>1, <1>2 DEF Shorter
  <2>2. chan'[Sender] \in Seq(Message)
    BY Ends DEF TypeOK
  <2> QED
    BY <2>1, <2>2, EmptySeq
<1>4. /\ pc'[Sender] = pc[Sender] /\ completed'[Sender] = FALSE
      /\ \/ Replied /\ pc'[Receiver] = "sleep" /\ completed'[Receiver]
         \/ Failed /\ pc'[Receiver] = "failed" /\ ~completed'[Receiver]
  BY <1>1, <1>2, Ends DEF TypeOK
<1>5. \A i \in DOMAIN chan'[Receiver] :
        /\ chan'[Receiver][i].type = "complete"
        /\ completed'[Receiver]
  <2>1. DOMAIN chan[Receiver] = 1..Len(chan[Receiver]) /\ Len(chan[Receiver]) \in Nat
    BY Ends, ChanFacts
  <2>2. \A i \in DOMAIN chan[Receiver] : chan[Receiver][i].type = "action"
    BY <1>1, <1>2, Ends, ChanFacts DEF Traffic, Message
  <2>3. ~Has("client", "action") \/ Receiver # "client"
    BY <1>2 DEF Start
  <2>4. DOMAIN chan[Receiver] = {}
    BY <2>2, <2>3, Ends DEF Has, Traffic
  <2> QED
    BY <1>4, <2>1, <2>4 DEF Longer, Msg
<1>6. /\ pc["client"] \notin {"call", "action", "sign"} /\ pc'["client"] \notin {"call", "action", "sign"}
      /\ ~Has("client", "action")
      /\ pc'["client"] = "prepare" => pc["client"] = "prepare"
  BY <1>2, <1>4, Ends DEF Start
<1> HIDE DEF m, Replied, Failed
<1>7. Roles'
  BY <1>1, <1>4, Ends DEF Roles
<1>8. Traffic'
  BY <1>1, <1>2, <1>3, <1>4, <1>5, Ends DEF Traffic
<1>9. Start'
  <2>1. ~Has("client", "action")'
    BY <1>3, <1>5, Ends DEF Has
  <2> QED
    BY <1>1, <1>6, <2>1 DEF Start
<1>10. WriterReady'
  BY <1>1, <1>2, <1>4, Ends DEF WriterReady
<1>11. SameBlocks'
  BY <1>1, <1>2, <1>5, <1>6, Ends DEF SameBlocks, Cached
<1>12. Completion'
  BY <1>1, <1>2, <1>3, <1>4, Ends DEF Completion, Has, Final
<1>13. NothingLost'
  <2>1. Intact /\ (Intact' => completed'[Receiver])
    BY <1>1, <1>2, <1>3, <1>4 DEF Intact, Has, Ended, Final
  <2>2. ASSUME NEW k, Reached(k) PROVE Reached(k)'
    <3>1. \A i \in DOMAIN chan[Sender] : chan[Sender][i].type # "delta"
      BY <1>1, <1>2, Ends, ChanFacts
    <3> QED
      BY <1>1, <2>2, <3>1 DEF Reached
  <2> QED
    BY <1>1, <2>1, <2>2 DEF NothingLost
<1>14. WriterState'
  BY <1>1, <1>2, <1>4, Ends DEF WriterState, Held, Ended, Final
<1> QED
  BY <1>7, <1>8, <1>9, <1>10, <1>11, <1>12, <1>13, <1>14

LEMMA StepSenderComplete ==
  ASSUME TypeOK, TypeOK', Protocol, HandleComplete(Sender)
  PROVE  Protocol'
<1> USE DEF Protocol
<1> DEFINE m == Msg("complete", 0, "absent")
<1>1. /\ pc[Sender] = "recv" /\ ~completed[Sender]
      /\ 1 \in DOMAIN chan[Receiver] /\ chan[Receiver][1].type = "complete"
      /\ Shorter(chan[Receiver], chan'[Receiver])
      /\ UNCHANGED <<dir, delta, sent, basis, wpc, wq, cache, written, mixed, file, mtime, events>>
      /\ Sender' = Sender /\ Receiver' = Receiver
      /\ \/ /\ completed' = [completed EXCEPT ![Sender] = TRUE]
            /\ pc' = [pc EXCEPT ![Sender] = "sleep"]
            /\ Longer(chan[Sender], chan'[Sender], m) \/ chan'[Sender] = chan[Sender]
         \/ /\ completed' = completed /\ chan'[Sender] = chan[Sender]
            /\ pc' = [pc EXCEPT ![Sender] = "failed"]
  BY Ends, CompleteEffect
<1>2. /\ delta # NoDelta /\ dir # "Skip" /\ completed[Receiver] /\ sent = Len(delta)
      /\ chan[Sender] = <<>> /\ Len(chan[Sender]) = 0 /\ DOMAIN chan[Sender] = {}
  BY <1>1, Ends, ChanFacts DEF Traffic, Completion
<1>3. /\ completed'[Receiver] /\ pc'[Receiver] = pc[Receiver] /\ pc'[Sender] \in {"sleep", "failed"}
      /\ completed'[Sender] \/ chan'[Sender] = chan[Sender]
      /\ completed'[Sender] => completed'[Receiver]
  BY <1>1, <1>2, Ends DEF TypeOK
<1>4. \A i \in DOMAIN chan'[Sender] :
        chan'[Sender][i].type = "complete" /\ i = Len(chan'[Sender])
  <2>1. m.type = "complete"
    BY DEF Msg
  <2>2. Longer(chan[Sender], chan'[Sender], m) \/ chan'[Sender] = chan[Sender]
    BY <1>1
  <2> HIDE DEF m
  <2>3. CASE Longer(chan[Sender], chan'[Sender], m)
    <3>1. DOMAIN chan'[Sender] = 1..1 /\ Len(chan'[Sender]) = 1 /\ chan'[Sender][1] = m
      BY <1>2, <2>3 DEF Longer
    <3> QED
      BY <2>1, <3>1
  <2> QED
    BY <1>2, <2>2, <2>3
<1>5. /\ DOMAIN chan[Receiver] = 1..Len(chan[Receiver]) /\ Len(chan[Receiver]) \in Nat
      /\ \A i \in DOMAIN chan'[Receiver] :
           /\ i \in Nat \ {0} /\ i + 1 \in DOMAIN chan[Receiver]
           /\ chan'[Receiver][i] = chan[Receiver][i + 1]
  <2>1. Shorter(chan[Receiver], chan'[Receiver])
    BY <1>1
  <2>2. DOMAIN chan[Receiver] = 1..Len(chan[Receiver]) /\ Len(chan[Receiver]) \in Nat
    BY Ends, ChanFacts
  <2> QED
    BY <2>1, <2>2 DEF Shorter
<1>6. \A i \in DOMAIN chan'[Receiver] :
        /\ chan'[Receiver][i].type \notin {"action", "signatures", "delta"}
        /\ chan'[Receiver][i].type = "complete" => completed[Receiver]
  BY <1>2, <1>5, Ends DEF Traffic
<1>7. /\ pc'["client"] \notin {"call", "action", "sign"} /\ ~Has("client", "action")
      /\ pc'["client"] = "prepare" => pc["client"] = "prepare"
  BY <1>2, <1>3, Ends DEF Start
<1>8. Roles'
  BY <1>1, <1>3, Ends DEF Roles
<1>9. Traffic'
  BY <1>1, <1>2, <1>3, <1>4, <1>6, Ends DEF Traffic
<1>10. Start'
  <2>1. ~Has("client", "action")'
    BY <1>4, <1>6, Ends DEF Has
  <2> QED
    BY <1>1, <1>7, <2>1 DEF Start
<1>11. WriterReady'
  BY <1>1, <1>2, <1>3, Ends DEF WriterReady
<1>12. SameBlocks'
  BY <1>1, <1>2, <1>6, <1>7, Ends DEF SameBlocks, Cached
<1>13. Completion'
  BY <1>1, <1>2, <1>3, <1>4, Ends DEF Completion, Has, Final
<1>14. NothingLost'
  <2>1. Intact
    BY <1>2 DEF Intact
  <2>2. ASSUME NEW k, Reached(k) PROVE Reached(k)'
    BY <1>1, <1>2, <2>2 DEF Reached
  <2> QED
    BY <1>1, <2>1, <2>2 DEF NothingLost
<1>15. WriterState'
  BY <1>1, <1>2, <1>3, Ends DEF WriterState, Held, Ended, Final, Roles
<1> QED
  BY <1>8, <1>9, <1>10, <1>11, <1>12, <1>13, <1>14, <1>15

LEMMA StepSendSignatures ==
  ASSUME TypeOK, TypeOK', Protocol, SendSignatures
  PROVE  Protocol'
<1> USE DEF Protocol
<1> DEFINE m == Msg("signatures", 0, file["client"])
<1>1. /\ dir = "Download" /\ Receiver = "client" /\ Sender = "server"
      /\ pc["client"] = "sign" /\ delta = NoDelta /\ sent = 0 /\ wpc["client"] = "none"
      /\ ~Has("client", "signatures") /\ "unreadable" \notin events
  BY Ends DEF SendSignatures, Roles, Start, Traffic
<1>2. m \in Message /\ m.type = "signatures" /\ m.basis = file["client"]
  <2>1. file["client"] \in Contents
    BY DEF TypeOK
  <2> QED
    BY <2>1, MessageType DEF Msg
<1>3. /\ UNCHANGED <<dir, delta, sent, basis, completed, wpc, wq, cache, written, mixed,
                     file, mtime, reset>>
      /\ Sender' = Sender /\ Receiver' = Receiver
      /\ pc' = [pc EXCEPT !["client"] = "prepare"]
  BY DEF SendSignatures, session, writer, disk, Sender, Receiver, Goto
<1>4. /\ chan'["server"] = chan["server"]
      /\ \/ /\ events' = events
            /\ Longer(chan["client"], chan'["client"], m) \/ chan'["client"] = chan["client"]
         \/ events' = events \cup {"unreadable"} /\ chan'["client"] = chan["client"]
  BY <1>2, PutEffect DEF SendSignatures, Happens, Peer
<1> HIDE DEF m
<1>5. /\ pc'["client"] = "prepare" /\ pc'["server"] = pc["server"]
      /\ DOMAIN chan["client"] = 1..Len(chan["client"]) /\ Len(chan["client"]) \in Nat
      /\ ("edit" \in events' <=> "edit" \in events)
  <2>1. pc'["client"] = "prepare" /\ pc'["server"] = pc["server"]
    BY <1>3 DEF TypeOK
  <2>2. "edit" \in events' <=> "edit" \in events
    BY <1>4
  <2> QED
    BY <2>1, <2>2, ChanFacts
<1>6. \A i \in DOMAIN chan["client"] : chan["client"][i].type = "action" /\ i = 1
  BY <1>1, ChanFacts DEF Has, Traffic
<1>7. \A i \in DOMAIN chan'["client"] :
        \/ /\ i \in DOMAIN chan["client"] /\ chan'["client"][i] = chan["client"][i]
           /\ chan'["client"][i].type = "action" /\ i = 1
        \/ /\ chan'["client"][i] = m /\ i = Len(chan'["client"]) /\ events' = events
  BY <1>4, <1>5, <1>6 DEF Longer
<1>8. Roles'
  BY <1>1, <1>3, <1>5 DEF Roles
<1>9. Traffic'
  <2>1. \A i \in DOMAIN chan'["client"] :
          /\ chan'["client"][i].type = "action" => i = 1
          /\ chan'["client"][i].type = "signatures" => i = Len(chan'["client"])
          /\ chan'["client"][i].type \in {"action", "signatures"}
    BY <1>2, <1>7
  <2> QED
    BY <1>1, <1>3, <1>4, <1>5, <2>1 DEF Traffic
<1>10. Start'
  <2>1. Has("client", "action")' => Has("client", "action")
    BY <1>2, <1>7 DEF Has
  <2> QED
    BY <1>1, <1>3, <1>4, <1>5, <2>1 DEF Start
<1>11. WriterReady'
  BY <1>1, <1>3, <1>5 DEF WriterReady
<1>12. SameBlocks'
  <2>1. \A i \in DOMAIN chan'["client"] :
          chan'["client"][i].type = "signatures" =>
            chan'["client"][i].basis = file["client"] /\ events' = events
    BY <1>2, <1>7
  <2> QED
    BY <1>1, <1>3, <1>5, <2>1, Ends DEF SameBlocks, Cached
<1>13. Completion'
  BY <1>1, <1>3, <1>4, <1>5, Ends DEF Completion, Has, Traffic
<1>14. NothingLost'
  BY <1>1, <1>3 DEF NothingLost
<1>15. WriterState'
  BY <1>1, <1>3, <1>5, Ends DEF WriterState, Held, Ended, Final
<1> QED
  BY <1>8, <1>9, <1>10, <1>11, <1>12, <1>13, <1>14, <1>15

LEMMA StepPrepareWriter ==
  ASSUME TypeOK, TypeOK', Protocol, PrepareWriter
  PROVE  Protocol'
<1> USE DEF Protocol
<1>1. /\ dir = "Download" /\ Receiver = "client" /\ Sender = "server"
      /\ pc["client"] = "prepare" /\ wpc["client"] = "none"
  BY Ends DEF PrepareWriter, Roles, Start
<1>2. /\ UNCHANGED <<dir, delta, sent, basis, completed, wq, written, mixed, file, mtime,
                     reset, chan>>
      /\ events' = events \/ events' = events \cup {"uncached"}
      /\ Sender' = Sender /\ Receiver' = Receiver
  BY DEF PrepareWriter, SpawnWriter, Happens, session, disk, Sender, Receiver
<1>3. /\ pc'["client"] = "recv" /\ pc'["server"] = pc["server"]
      /\ wpc'["client"] = "create" /\ wpc'["server"] = wpc["server"]
      /\ cache'["server"] = cache["server"]
      /\ "unreadable" \notin events =>
           \/ cache'["client"] = file["client"]
           \/ cache'["client"] = "absent" /\ "uncached" \in events'
  BY DEF PrepareWriter, SpawnWriter, Happens, Goto, TypeOK
<1>4. Roles' /\ Traffic' /\ Start' /\ WriterReady'
  BY <1>1, <1>2, <1>3, Ends DEF Roles, Traffic, Start, WriterReady, Has
<1>5. SameBlocks'
  BY <1>1, <1>2, <1>3, Ends DEF SameBlocks, Cached
<1>6. Completion' /\ WriterState'
  BY <1>1, <1>2, <1>3, Ends DEF Completion, WriterState, Has, Held, Ended, Final
<1>7. NothingLost'
  <2>1. Intact' => Intact
    BY <1>1, <1>2, <1>3 DEF Intact, Has, Ended, Final
  <2> QED
    BY <1>1, <1>2, <2>1, NothingLostFrame
<1> QED
  BY <1>4, <1>5, <1>6, <1>7
LEMMA StepHandleFileAction ==
  ASSUME TypeOK, TypeOK', Protocol, HandleFileAction
  PROVE  Protocol'
<1> USE DEF Protocol
<1> DEFINE m == Msg("signatures", 0, file["server"])
           Answers == /\ dir = "Upload"
                      /\ Reply("server", m) /\ SpawnWriter("server", file["server"])
                      /\ UNCHANGED <<pc, reset, events>>
           Fails == /\ dir = "Upload" /\ Fail("server") /\ Consume("server") /\ UNCHANGED writer
                    /\ Happens("unreadable") \/ UNCHANGED events
           Ignores == /\ dir # "Upload" /\ Consume("server")
                      /\ UNCHANGED <<pc, writer, reset, events>>
<1>1. /\ pc["server"] = "recv" /\ chan["client"] # <<>> /\ 1 \in DOMAIN chan["client"]
      /\ chan["client"][1].type = "action" /\ Peer("server") = "client"
  BY ReadFirst DEF HandleFileAction, Peer
<1>2. /\ wpc["server"] = "none" /\ chan["server"] = <<>> /\ delta = NoDelta /\ sent = 0
      /\ pc["client"] \notin {"call", "action"} /\ \A e \in Endpoint : ~completed[e]
      /\ DOMAIN chan["server"] = {} /\ Len(chan["server"]) = 0
  BY <1>1, ChanFacts DEF Start, Has, Traffic
<1>3. /\ UNCHANGED <<dir, delta, sent, basis, completed, wq, written, mixed, file, mtime>>
      /\ Sender' = Sender /\ Receiver' = Receiver
      /\ Answers \/ Fails \/ Ignores
  BY DEF HandleFileAction, SpawnWriter, session, writer, disk, Sender, Receiver
<1>4. m \in Message /\ m.type = "signatures" /\ m.basis = file["server"]
  <2>1. file["server"] \in Contents
    BY DEF TypeOK
  <2> QED
    BY <2>1, MessageType DEF Msg
<1>5. /\ DOMAIN chan["client"] = 1..Len(chan["client"]) /\ Len(chan["client"]) \in Nat
      /\ \A i \in DOMAIN chan["client"] : i # 1 => chan["client"][i].type # "action"
  BY ChanFacts DEF Traffic
<1> HIDE DEF m
<1>6. NothingLost'
  BY <1>2, <1>3 DEF NothingLost
<1>7. CASE dir = "Upload"
  <2>1. Sender = "client" /\ Receiver = "server"
    BY <1>7, Ends
  <2>2. Len(chan["client"]) = 1
    <3>1. \A i \in DOMAIN chan["client"] : i = 1
      BY <1>2, <2>1 DEF Traffic
    <3>2. Len(chan["client"]) \in DOMAIN chan["client"]
      BY <1>1, <1>5
    <3> QED
      BY <3>1, <3>2
  <2>3. /\ Shorter(chan["client"], chan'["client"])
        /\ chan'["server"] = chan["server"] \/ (Answers /\ Longer(chan["server"], chan'["server"], m))
    <3>1. CASE Answers
      BY <1>1, <1>4, <3>1, ReplyEffect
    <3>2. CASE Fails
      BY <1>1, <3>2, ConsumeEffect
    <3> QED
      BY <1>3, <1>7, <3>1, <3>2
  <2>4. DOMAIN chan'["client"] = {}
    BY <2>2, <2>3 DEF Shorter
  <2>5. \A i \in DOMAIN chan'["server"] :
          Answers /\ i = Len(chan'["server"]) /\ chan'["server"][i] = m
    <3> HIDE DEF Answers
    <3>1. CASE chan'["server"] = chan["server"]
      BY <1>2, <3>1
    <3>2. CASE Answers /\ Longer(chan["server"], chan'["server"], m)
      <4>1. DOMAIN chan'["server"] = 1..1 /\ Len(chan'["server"]) = 1 /\ chan'["server"][1] = m
        BY <1>2, <3>2 DEF Longer
      <4> QED
        BY <3>2, <4>1
    <3> QED
      BY <2>3, <3>1, <3>2
  <2>6. /\ wpc'["client"] = wpc["client"] /\ pc'["client"] = pc["client"]
        /\ pc'["server"] \in {"recv", "failed"}
        /\ \/ Answers /\ wpc'["server"] = "create" /\ cache'["server"] = file["server"]
           \/ ~Answers /\ wpc' = wpc /\ cache' = cache
    <3>1. CASE Answers
      BY <1>1, <3>1 DEF SpawnWriter, TypeOK
    <3>2. CASE ~Answers
      BY <1>3, <1>7, <3>2 DEF Fail, Goto, writer, TypeOK
    <3> QED
      BY <3>1, <3>2
  <2> HIDE DEF Answers, Fails, Ignores
  <2>7. Roles'
    BY <1>3, <2>1, <2>6 DEF Roles
  <2>8. Traffic'
    BY <1>2, <1>3, <1>4, <1>7, <2>1, <2>4, <2>5, <2>6 DEF Traffic
  <2>9. Start' /\ WriterReady'
    BY <1>2, <1>3, <1>7, <2>4, <2>5, <2>6 DEF Start, WriterReady, Roles, Has
  <2>10. SameBlocks'
    BY <1>2, <1>3, <1>4, <1>7, <2>1, <2>5, <2>6 DEF SameBlocks, Cached
  <2>11. Completion'
    BY <1>2, <1>3, <2>1, <2>4, <2>6 DEF Completion, Has
  <2>12. WriterState'
    BY <1>1, <1>2, <1>3, <2>1, <2>6 DEF WriterState, Held, Ended, Final, Roles
  <2> QED
    BY <1>6, <2>7, <2>8, <2>9, <2>10, <2>11, <2>12
<1>8. CASE dir # "Upload"
  <2>1. Sender = "server" /\ Receiver = "client"
    BY <1>8, Ends
  <2>2. /\ chan'["server"] = chan["server"] /\ Shorter(chan["client"], chan'["client"])
        /\ UNCHANGED <<pc, wpc, cache, reset, events>>
    BY <1>1, <1>3, <1>8, ConsumeEffect DEF writer
  <2>3. \A i \in DOMAIN chan'["client"] :
          /\ i + 1 \in DOMAIN chan["client"] /\ i + 1 # 1 /\ chan'["client"][i] = chan["client"][i + 1]
          /\ i + 1 = Len(chan["client"]) => i = Len(chan'["client"])
    BY <1>5, <2>2 DEF Shorter
  <2>4. \A i \in DOMAIN chan'["client"] :
          /\ chan'["client"][i].type = "signatures"
          /\ i = Len(chan'["client"]) /\ dir # "Skip"
    <3> SUFFICES ASSUME NEW i \in DOMAIN chan'["client"]
                 PROVE  /\ chan'["client"][i].type = "signatures"
                        /\ i = Len(chan'["client"]) /\ dir # "Skip"
      OBVIOUS
    <3>1. chan["client"][i + 1].type = "signatures"
      BY <1>2, <1>5, <2>3 DEF Traffic
    <3> QED
      BY <2>3, <3>1 DEF Traffic
  <2> HIDE DEF Answers, Fails, Ignores
  <2>5. Roles' /\ WriterReady' /\ WriterState'
    BY <1>3, <1>8, <2>2 DEF Roles, WriterReady, WriterState, Held, Ended
  <2>6. Traffic'
    BY <1>2, <1>3, <2>1, <2>2, <2>4 DEF Traffic
  <2>7. Start'
    BY <1>2, <1>3, <2>2, <2>3, <2>4 DEF Start, Has
  <2>8. SameBlocks'
    BY <1>2, <1>3, <2>1, <2>2, <2>3, <2>4 DEF SameBlocks, Cached
  <2>9. Completion'
    BY <1>2, <1>3, <2>1, <2>2, <2>4 DEF Completion, Has
  <2> QED
    BY <1>6, <2>5, <2>6, <2>7, <2>8, <2>9
<1> QED
  BY <1>7, <1>8
-----------------------------------------------------------------------------
(* The actions that leave the channels alone.                               *)

\* A task returns, leaves its loop or is killed with its writer, or the stream
\* is reset: SendError, CallRejected, EndOfStream, StreamError, Wake,
\* ConnectionReset and Crash.
LEMMA StepLeave ==
  ASSUME TypeOK, TypeOK', Protocol,
         UNCHANGED <<dir, delta, sent, basis, chan, completed, wq, cache, written, mixed,
                     file, mtime>>,
         reset => reset',
         events' \subseteq events \cup {"noSession", "reset", "crash"}, events \subseteq events',
         \A f \in Endpoint :
           /\ \/ pc'[f] = pc[f] \/ pc'[f] \in Final
              \/ pc'[f] = "sleep" /\ pc[f] = "recv"
           /\ pc[f] \in Final => pc'[f] \in Final
           /\ pc[f] = "idle" => pc'[f] = "idle"
           /\ \/ wpc'[f] = wpc[f]
              \/ wpc'[f] = "killed" /\ wpc[f] \in {"create", "recv", "mtime"} /\ pc'[f] \in Final
  PROVE  Protocol'
<1> USE DEF Protocol
<1>1. /\ Sender' = Sender /\ Receiver' = Receiver
      /\ ("edit" \in events' <=> "edit" \in events)
      /\ ("unreadable" \in events' <=> "unreadable" \in events)
  BY DEF Sender, Receiver
<1>2. Roles'
  BY <1>1, Ends DEF Roles, Final
<1>3. Traffic'
  BY <1>1, Ends DEF Traffic, Final
<1>4. Start'
  BY <1>1 DEF Start, Has, Final
<1>5. WriterReady'
  BY DEF WriterReady, Has, Final
<1>6. SameBlocks'
  <2>1. \A b \in Contents : Cached(b) => Cached(b)'
    BY <1>1 DEF Cached, Final, Start
  <2>2. \A i \in DOMAIN chan[Receiver] : chan[Receiver][i].basis \in Contents
    BY Ends, ChanFacts DEF Message
  <2>3. basis \in Contents
    BY DEF TypeOK
  <2> QED
    BY <1>1, <2>1, <2>2, <2>3 DEF SameBlocks
<1>7. Completion'
  BY <1>1, Ends DEF Completion, Has, Final
<1>8. NothingLost'
  <2>1. Intact' => Intact
    BY <1>1, Ends DEF Intact, Has, Ended
  <2> QED
    BY <2>1, Ends, NothingLostFrame
<1>9. WriterState'
  BY <1>1, Ends DEF WriterState, Held, Ended, Final
<1> QED
  BY <1>2, <1>3, <1>4, <1>5, <1>6, <1>7, <1>8, <1>9

LEMMA StepCall ==
  ASSUME TypeOK, TypeOK', Protocol, Call
  PROVE  Protocol'
<1> USE DEF Protocol
<1>1. /\ UNCHANGED <<dir, delta, sent, basis, chan, completed, wpc, wq, cache, written, mixed,
                     file, mtime, reset, events>>
      /\ pc["client"] = "call" /\ pc'["client"] = "action" /\ pc'["server"] = "recv"
      /\ Sender' = Sender /\ Receiver' = Receiver
  BY DEF Call, session, writer, disk, Sender, Receiver
<1>2. delta = NoDelta /\ \A e \in Endpoint : ~completed[e]
  BY <1>1 DEF Start, Traffic
<1>3. Roles' /\ Traffic' /\ Start' /\ WriterReady'
  BY <1>1, Ends DEF Roles, Traffic, Start, WriterReady, Has
<1>4. SameBlocks' /\ Completion'
  BY <1>1, <1>2, Ends DEF SameBlocks, Cached, Completion, Has
<1>5. NothingLost'
  BY <1>1, <1>2 DEF NothingLost, Traffic
<1>6. WriterState'
  <2>1. /\ wpc["client"] = "none" /\ wpc["server"] = "none" /\ mtime = "kept"
    BY <1>1, Ends DEF Start, WriterState
  <2>2. file[Receiver] # "partial" \/ Ended(Receiver)'
    BY <1>1, Ends DEF WriterState, Start, Ended, Final
  <2> QED
    BY <1>1, <1>2, <2>1, <2>2, Ends DEF WriterState
<1> QED
  BY <1>3, <1>4, <1>5, <1>6
LEMMA StepSendAction ==
  ASSUME TypeOK, TypeOK', Protocol, SendAction
  PROVE  Protocol'
<1> USE DEF Protocol
<1> DEFINE m == Msg("action", 0, "absent")
<1>1. /\ UNCHANGED <<dir, delta, sent, basis, completed, wpc, wq, cache, written, mixed,
                     file, mtime, reset, events>>
      /\ pc["client"] = "action" /\ pc'["server"] = pc["server"]
      /\ pc'["client"] = IF dir = "Download" THEN "sign" ELSE "recv"
      /\ Sender' = Sender /\ Receiver' = Receiver
  BY DEF SendAction, Goto, TypeOK, session, writer, disk, Sender, Receiver
<1>2. /\ delta = NoDelta /\ sent = 0 /\ (\A e \in Endpoint : ~completed[e])
      /\ chan["client"] = <<>> /\ Len(chan["client"]) = 0 /\ DOMAIN chan["client"] = {}
      /\ chan["server"] = <<>> /\ DOMAIN chan["server"] = {} /\ wpc["server"] = "none"
      /\ wpc["client"] = "none"
  BY <1>1, ChanFacts DEF Start, Traffic
<1>3. m \in Message /\ m.type = "action"
  BY MessageType DEF Msg, Contents
<1>4. /\ chan'["server"] = chan["server"]
      /\ chan'["client"] = chan["client"] \/ Longer(chan["client"], chan'["client"], m)
  BY <1>3, PutEffect DEF SendAction, Peer
<1> HIDE DEF m
<1>5. \A i \in DOMAIN chan'["client"] : i = 1 /\ chan'["client"][i].type = "action"
  <2>1. CASE Longer(chan["client"], chan'["client"], m)
    <3>1. DOMAIN chan'["client"] = 1..1 /\ chan'["client"][1] = m
      BY <1>2, <2>1 DEF Longer
    <3> QED
      BY <1>3, <3>1
  <2> QED
    BY <1>2, <1>4, <2>1
<1>6. Roles' /\ WriterReady' /\ Completion'
  BY <1>1, <1>2, <1>4, <1>5, Ends DEF Roles, WriterReady, Completion, Has
<1>7. Traffic' /\ Start'
  BY <1>1, <1>2, <1>4, <1>5, Ends DEF Traffic, Start, Has
<1>8. SameBlocks'
  BY <1>1, <1>2, <1>4, <1>5, Ends DEF SameBlocks
<1>9. NothingLost'
  BY <1>1, <1>2 DEF NothingLost
<1>10. WriterState'
  BY <1>1, <1>2, Ends DEF WriterState, Ended, Final
<1> QED
  BY <1>6, <1>7, <1>8, <1>9, <1>10

LEMMA StepUsers ==
  ASSUME TypeOK, TypeOK', Protocol, LocalEdit \/ Vanish
  PROVE  Protocol'
<1> USE DEF Protocol
<1>1. /\ UNCHANGED <<dir, delta, sent, basis, pc, chan, completed, wpc, wq, cache, written,
                     mixed, mtime, reset>>
      /\ Sender' = Sender /\ Receiver' = Receiver
  BY DEF LocalEdit, Vanish, session, writer, Sender, Receiver
<1>2. \/ /\ file'[Receiver] = "edited" /\ file'[Sender] = file[Sender]
         /\ events' = events \cup {"edit"}
      \/ /\ file'[Receiver] = file[Receiver] /\ file'[Sender] = "absent"
         /\ events' = events \cup {"vanish"}
  BY Ends DEF LocalEdit, Vanish, Happens, TypeOK
<1>3. Roles' /\ Traffic' /\ Start' /\ WriterReady' /\ Completion'
  BY <1>1, <1>2, Ends DEF Roles, Traffic, Start, WriterReady, Completion, Has
<1>4. SameBlocks'
  <2>1. CASE events' = events \cup {"edit"} /\ file'[Sender] = file[Sender] /\ file'[Receiver] = "edited"
    BY <1>1, <2>1, Ends DEF SameBlocks, Cached
  <2>2. CASE events' = events \cup {"vanish"} /\ file'[Receiver] = file[Receiver] /\ file'[Sender] = "absent"
    BY <1>1, <2>2, Ends DEF SameBlocks, Cached
  <2> QED
    BY <1>2, <2>1, <2>2
<1>5. NothingLost'
  BY <1>1, NothingLostFrame DEF Intact, Has, Ended
<1>6. WriterState'
  BY <1>1, <1>2, Ends DEF WriterState, Held, Ended
<1> QED
  BY <1>3, <1>4, <1>5, <1>6
-----------------------------------------------------------------------------
(* The delta writer.                                                        *)

\* The steps of the writer that move no instruction.
LEMMA StepWriterIdle ==
  ASSUME TypeOK, TypeOK', Protocol, NEW e \in Endpoint, WriterCreate(e) \/ WriterSetMtime(e)
  PROVE  Protocol'
<1> USE DEF Protocol
<1>1. e = Receiver
  BY Ends DEF WriterCreate, WriterSetMtime, Roles
<1>2. /\ UNCHANGED <<dir, delta, sent, basis, pc, chan, completed, wq, cache, written,
                     mixed, file, reset>>
      /\ Sender' = Sender /\ Receiver' = Receiver
  BY DEF WriterCreate, WriterSetMtime, session, disk, Sender, Receiver
<1>3. /\ wpc'[Sender] = wpc[Sender] /\ wpc[Receiver] \in {"create", "mtime"}
      /\ \/ wpc[Receiver] = "create" /\ wpc'[Receiver] \in {"recv", "failed"} /\ mtime' = mtime
         \/ wpc[Receiver] = "mtime" /\ wpc'[Receiver] = "done"
      /\ events' = events \/ events' = events \cup {"diskError"}
  BY <1>1, Ends DEF WriterCreate, WriterSetMtime, Happens, TypeOK, disk
<1>4. Roles' /\ Traffic' /\ Start' /\ WriterReady' /\ Completion'
  BY <1>2, <1>3, Ends DEF Roles, Traffic, Start, WriterReady, Completion, Has
<1>5. SameBlocks'
  <2>1. "edit" \in events' <=> "edit" \in events
    BY <1>3
  <2>2. "unreadable" \in events' <=> "unreadable" \in events
    BY <1>3
  <2>3. \A b \in Contents : Cached(b) => Cached(b)'
    BY <1>2, <1>3, <2>1, <2>2, Ends DEF Cached
  <2>4. \A i \in DOMAIN chan[Receiver] : chan[Receiver][i].basis \in Contents
    BY Ends, ChanFacts DEF Message
  <2>5. basis \in Contents
    BY DEF TypeOK
  <2> QED
    BY <1>2, <2>1, <2>3, <2>4, <2>5 DEF SameBlocks
<1>6. NothingLost'
  BY <1>2, <1>3, NothingLostFrame DEF Intact, Has, Ended
<1>7. WriterState'
  BY <1>2, <1>3, Ends DEF WriterState, Held, Ended, Roles
<1> QED
  BY <1>4, <1>5, <1>6, <1>7

LEMMA StepWriterApply ==
  ASSUME TypeOK, TypeOK', Protocol, NEW e \in Endpoint, WriterApply(e)
  PROVE  Protocol'
<1> USE DEF Protocol
<1> DEFINE h == wq[Receiver][1]
           stale == delta[h] = "block" /\ cache[Receiver] # basis /\ cache[Receiver] # "absent"
<1>1. e = Receiver /\ wpc[Receiver] = "recv" /\ wq[Receiver] # <<>>
  BY Ends DEF WriterApply, Roles
<1>2. wq[Receiver] \in Seq(Nat)
  BY Ends DEF TypeOK
<1>3. Head(wq[Receiver]) = h /\ 1 \in DOMAIN wq[Receiver] /\ h \in 1..sent
  <2>1. Head(wq[Receiver]) = h /\ 1 \in DOMAIN wq[Receiver]
    BY <1>1, <1>2, HeadTail
  <2> QED
    BY <2>1, Ends DEF WriterState
<1>4. delta # NoDelta /\ dir # "Skip"
  BY <1>3 DEF Traffic
<1>5. /\ UNCHANGED <<dir, delta, sent, basis, pc, chan, completed, cache, file, mtime, reset>>
      /\ Sender' = Sender /\ Receiver' = Receiver
      /\ events' = events \/ events' = events \cup {"diskError"}
  BY DEF WriterApply, Happens, session, disk, Sender, Receiver
<1>6. wq'[Receiver] = Tail(wq[Receiver]) /\ wq'[Sender] = wq[Sender]
  BY <1>1, Ends DEF WriterApply, TypeOK
<1>7. /\ wpc'[Sender] = wpc[Sender] /\ mixed'[Sender] = mixed[Sender]
      /\ written'[Sender] = written[Sender]
      /\ \/ /\ written'[Receiver] = written[Receiver] \cup {h}
            /\ mixed'[Receiver] => mixed[Receiver] \/ stale
            /\ wpc' = wpc
         \/ /\ wpc'[Receiver] = "failed" /\ written' = written /\ mixed' = mixed
  <2>1. CASE /\ written' = [written EXCEPT ![e] = @ \cup {Head(wq[e])}]
             /\ mixed' = [mixed EXCEPT ![e] = @ \/ (delta[Head(wq[e])] = "block" /\ cache[e] # basis)]
             /\ ~(delta[Head(wq[e])] = "block" /\ cache[e] # basis) \/ cache[e] # "absent"
             /\ UNCHANGED <<wpc, events>>
    BY <1>1, <1>3, <2>1, Ends DEF TypeOK
  <2>2. CASE wpc' = [wpc EXCEPT ![e] = "failed"] /\ UNCHANGED <<written, mixed>>
    BY <1>1, <2>2, Ends DEF TypeOK
  <2> QED
    BY <2>1, <2>2 DEF WriterApply
<1>8. stale => dir = "Download" /\ "edit" \in events
  <2>1. Cached(basis)
    BY <1>4 DEF SameBlocks
  <2> QED
    BY <1>1, <1>4, <2>1, Ends, DirectionsAssumption DEF Cached, TypeOK
<1> HIDE DEF h, stale
<1>9. /\ DOMAIN wq[Receiver] = 1..Len(wq[Receiver]) /\ Len(wq[Receiver]) \in Nat \ {0}
      /\ DOMAIN wq'[Receiver] = 1..(Len(wq[Receiver]) - 1)
      /\ \A i \in DOMAIN wq'[Receiver] : wq'[Receiver][i] = wq[Receiver][i + 1]
  BY <1>1, <1>2, <1>6, HeadTail
<1>10. Roles' /\ Traffic' /\ Start' /\ WriterReady' /\ Completion'
  BY <1>1, <1>5, <1>6, <1>7, Ends DEF Roles, Traffic, Start, WriterReady, Completion, Has
<1>11. SameBlocks'
  <2>1. /\ "edit" \in events' <=> "edit" \in events
        /\ "unreadable" \in events' <=> "unreadable" \in events
    BY <1>5
  <2>2. \A b \in Contents : Cached(b) => Cached(b)'
    BY <1>1, <1>5, <1>7, <2>1, Ends DEF Cached
  <2>3. \A i \in DOMAIN chan[Receiver] : chan[Receiver][i].basis \in Contents
    BY Ends, ChanFacts DEF Message
  <2>4. basis \in Contents
    BY DEF TypeOK
  <2>5. \A f \in Endpoint : mixed'[f] \/ file'[f] = "garbled" =>
          f = Receiver /\ dir = "Download" /\ "edit" \in events
    BY <1>5, <1>7, <1>8, Ends DEF SameBlocks
  <2> QED
    BY <1>5, <2>1, <2>2, <2>3, <2>4, <2>5 DEF SameBlocks
<1>12. NothingLost'
  <2>1. CASE written'[Receiver] = written[Receiver] \cup {h} /\ wpc' = wpc
    <3>1. ASSUME NEW k, Reached(k) PROVE Reached(k)'
      <4>1. CASE k \in written[Receiver]
        BY <1>5, <2>1, <4>1 DEF Reached
      <4>2. ASSUME NEW i \in DOMAIN wq[Receiver], wq[Receiver][i] = k
            PROVE  Reached(k)'
        <5>1. CASE i = 1
          BY <1>5, <2>1, <4>2, <5>1 DEF Reached, h
        <5>2. CASE i # 1
          <6>1. i - 1 \in DOMAIN wq'[Receiver] /\ wq'[Receiver][i - 1] = k
            BY <1>9, <4>2, <5>2
          <6> QED
            BY <1>5, <6>1 DEF Reached
        <5> QED
          BY <5>1, <5>2
      <4>3. CASE \E i \in DOMAIN chan[Sender] :
                   chan[Sender][i].type = "delta" /\ chan[Sender][i].index = k
        BY <1>5, <4>3 DEF Reached
      <4> QED
        BY <3>1, <4>1, <4>2, <4>3 DEF Reached
    <3>2. Intact' => Intact
      BY <1>5 DEF Intact, Has, Ended
    <3> QED
      BY <1>5, <2>1, <3>1, <3>2 DEF NothingLost
  <2>2. CASE wpc'[Receiver] = "failed"
    BY <1>5, <2>2 DEF NothingLost
  <2> QED
    BY <1>7, <2>1, <2>2
<1>13. WriterState'
  <2>1. \A i \in DOMAIN wq'[Receiver] : wq'[Receiver][i] \in 1..sent
    <3>1. \A i \in DOMAIN wq[Receiver] : wq[Receiver][i] \in 1..sent
      BY Ends DEF WriterState
    <3> QED
      BY <1>9, <3>1
  <2>2. written'[Receiver] \subseteq 1..sent /\ written'[Sender] \subseteq 1..sent
    BY <1>3, <1>7, Ends DEF WriterState
  <2> QED
    BY <1>1, <1>5, <1>6, <1>7, <2>1, <2>2, Ends DEF WriterState, Held, Ended, Roles
<1> QED
  BY <1>10, <1>11, <1>12, <1>13

\* A writer that renames after its receiver saw Complete has every instruction.
LEMMA WholeAtCommit ==
  ASSUME TypeOK, Protocol, WriterCommit(Receiver)
  PROVE  /\ Outcome(Receiver) = "partial" => ~completed[Receiver] /\ Ended(Receiver)
         /\ Outcome(Receiver) = "garbled" => mixed[Receiver]
         /\ Outcome(Receiver) \in {"partial", "garbled", "new"}
<1>1. wpc[Receiver] = "recv" /\ wq[Receiver] = <<>> /\ ~Held(Receiver)
  BY DEF WriterCommit
<1>2. ASSUME completed[Receiver] PROVE Outcome(Receiver) # "partial"
  <2>1. /\ delta # NoDelta /\ sent = Len(delta)
        /\ \A i \in DOMAIN chan[Sender] : chan[Sender][i].type # "delta"
    BY <1>2, Ends DEF Protocol, Traffic, Completion, Has
  <2>2. \A k \in 1..sent : Reached(k)
    BY <1>1, <1>2 DEF Protocol, NothingLost, Intact
  <2>3. written[Receiver] = 1..sent
    <3>1. DOMAIN wq[Receiver] = {}
      BY <1>1
    <3>2. \A k \in 1..sent : k \in written[Receiver]
      BY <2>1, <2>2, <3>1 DEF Reached
    <3>3. written[Receiver] \subseteq 1..sent
      BY Ends DEF Protocol, WriterState
    <3> QED
      BY <3>2, <3>3
  <2>4. DOMAIN delta = 1..Len(delta)
    BY <2>1, ScriptsAssumption DEF TypeOK
  <2> QED
    BY <2>1, <2>3, <2>4 DEF Outcome
<1> QED
  BY <1>1, <1>2 DEF Outcome, Held

LEMMA StepWriterCommit ==
  ASSUME TypeOK, TypeOK', Protocol, NEW e \in Endpoint, WriterCommit(e)
  PROVE  Protocol'
<1> USE DEF Protocol
<1>1. e = Receiver /\ wpc[Receiver] = "recv" /\ ~Held(Receiver)
  BY Ends DEF WriterCommit, Roles
<1>2. /\ UNCHANGED <<dir, delta, sent, basis, pc, chan, completed, wq, cache, written,
                     mixed, reset>>
      /\ events' = events \/ events' = events \cup {"diskError"}
      /\ Sender' = Sender /\ Receiver' = Receiver
  BY DEF WriterCommit, Happens, session, Sender, Receiver
<1>3. /\ wpc'[Sender] = wpc[Sender] /\ file'[Sender] = file[Sender]
      /\ \/ /\ wpc'[Receiver] = "mtime" /\ mtime' = "now"
            /\ file'[Receiver] = Outcome(Receiver)
         \/ wpc'[Receiver] = "failed" /\ UNCHANGED <<file, mtime>>
  BY <1>1, Ends DEF WriterCommit, TypeOK, disk
<1>4. /\ Outcome(Receiver) = "partial" => ~completed[Receiver] /\ Ended(Receiver)
      /\ Outcome(Receiver) = "garbled" => mixed[Receiver]
  BY <1>1, WholeAtCommit
<1>5. Roles' /\ Traffic' /\ Start' /\ WriterReady' /\ Completion'
  BY <1>1, <1>2, <1>3, Ends DEF Roles, Traffic, Start, WriterReady, Completion, Has
<1>6. SameBlocks'
  <2>1. \A b \in Contents : Cached(b) => Cached(b)'
    BY <1>1, <1>2, <1>3, Ends DEF Cached, Start
  <2>2. \A i \in DOMAIN chan[Receiver] : chan[Receiver][i].basis \in Contents
    BY Ends, ChanFacts DEF Message
  <2>3. basis \in Contents
    BY DEF TypeOK
  <2> QED
    BY <1>2, <1>3, <1>4, <2>1, <2>2, <2>3, Ends DEF SameBlocks
<1>7. NothingLost'
  BY <1>1, <1>2, <1>3, NothingLostFrame DEF Intact, Has, Ended
<1>8. WriterState'
  BY <1>1, <1>2, <1>3, <1>4, Ends DEF WriterState, Held, Ended, Roles
<1> QED
  BY <1>5, <1>6, <1>7, <1>8
-----------------------------------------------------------------------------
(* The theorems.                                                            *)

LEMMA InitInvariant == Init => IInv
<1> SUFFICES ASSUME Init PROVE IInv
  OBVIOUS
<1> USE DEF Init
<1>1. TypeOK
  BY InitType
<1>2. /\ \A e \in Endpoint : DOMAIN chan[e] = {} /\ DOMAIN wq[e] = {} /\ written[e] = {}
      /\ pc["client"] = "call" /\ pc["server"] = "idle"
  OBVIOUS
<1>3. file[Sender] \in {"new", "absent"} /\ \A e \in Endpoint : file[e] \notin {"partial", "garbled"}
  BY Ends, <1>1
<1>4. Roles /\ Traffic /\ Start /\ WriterReady
  BY <1>1, <1>2, <1>3, Ends DEF Roles, Traffic, Start, WriterReady, Has
<1>5. SameBlocks /\ Completion /\ NothingLost /\ WriterState
  BY <1>1, <1>2, <1>3, Ends DEF SameBlocks, Completion, NothingLost, WriterState, Has
<1> QED
  BY <1>1, <1>4, <1>5 DEF IInv, Protocol

LEMMA NextInvariant == IInv /\ [Next]_vars => IInv'
<1> SUFFICES ASSUME IInv, [Next]_vars PROVE IInv'
  OBVIOUS
<1>0. TypeOK /\ Protocol /\ TypeOK'
  BY NextType DEF IInv
<1>1. CASE Call
  BY <1>0, <1>1, StepCall DEF IInv
<1>2. CASE CallRejected
  <2>1. /\ UNCHANGED <<dir, delta, sent, basis, chan, completed, wq, cache, written, mixed,
                       file, mtime, wpc>>
        /\ pc["client"] = "call" /\ pc'["client"] = "failed" /\ pc'["server"] = pc["server"]
        /\ events' = events \/ events' = events \cup {"noSession"}
        /\ reset => reset'
    BY <1>0, <1>2 DEF CallRejected, Fail, Goto, Happens, session, writer, disk, TypeOK
  <2> QED
    BY <1>0, <2>1, StepLeave DEF IInv, Final
<1>3. CASE SendAction
  BY <1>0, <1>3, StepSendAction DEF IInv
<1>4. CASE SendSignatures
  BY <1>0, <1>4, StepSendSignatures DEF IInv
<1>5. CASE PrepareWriter
  BY <1>0, <1>5, StepPrepareWriter DEF IInv
<1>6. CASE HandleFileAction
  BY <1>0, <1>6, StepHandleFileAction DEF IInv
<1>7. ASSUME NEW e \in Endpoint, Task(e) PROVE IInv'
  <2>1. CASE SendError(e) \/ StreamError(e) \/ EndOfStream(e) \/ Wake(e)
    <3>1. /\ UNCHANGED <<dir, delta, sent, basis, chan, completed, wq, cache, written, mixed,
                         file, mtime, wpc, events>>
          /\ reset => reset'
          /\ \/ pc' = [pc EXCEPT ![e] = "failed"] /\ pc[e] \in {"action", "send", "recv"}
             \/ pc' = [pc EXCEPT ![e] = "sleep"] /\ pc[e] = "recv"
             \/ pc' = [pc EXCEPT ![e] = "done"] /\ pc[e] = "sleep"
      <4>1. CASE SendError(e)
        BY <4>1 DEF SendError, Fail, Goto, session, writer, disk
      <4>2. CASE StreamError(e)
        BY <4>2 DEF StreamError, Fail, Goto, session, writer, disk
      <4>3. CASE EndOfStream(e)
        BY <4>3 DEF EndOfStream, Goto, session, writer, disk
      <4>4. CASE Wake(e)
        BY <4>4 DEF Wake, Goto, session, writer, disk
      <4> QED
        BY <2>1, <4>1, <4>2, <4>3, <4>4
    <3>2. \A f \in Endpoint :
            /\ pc'[f] = pc[f] \/ pc'[f] \in Final \/ (pc'[f] = "sleep" /\ pc[f] = "recv")
            /\ pc[f] \in Final => pc'[f] \in Final
            /\ pc[f] = "idle" => pc'[f] = "idle"
      BY <1>0, <3>1 DEF TypeOK, Final
    <3> QED
      BY <1>0, <3>1, <3>2, StepLeave DEF IInv
  <2>2. CASE HandleSignatures(e)
    BY <1>0, <2>2, StepHandleSignatures DEF IInv
  <2>3. CASE SendDelta(e)
    BY <1>0, <2>3, StepSendDelta DEF IInv
  <2>4. CASE SendComplete(e)
    BY <1>0, <2>4, StepSendComplete DEF IInv
  <2>5. CASE HandleDelta(e)
    BY <1>0, <2>5, StepHandleDelta DEF IInv
  <2>6. CASE HandleComplete(e)
    BY <1>0, <2>6, Ends, StepReceiverComplete, StepSenderComplete DEF IInv
  <2> QED
    BY <1>7, <2>1, <2>2, <2>3, <2>4, <2>5, <2>6 DEF Task
<1>8. ASSUME NEW e \in Endpoint, Writer(e) PROVE IInv'
  BY <1>0, <1>8, StepWriterIdle, StepWriterApply, StepWriterCommit DEF IInv, Writer
<1>9. CASE ConnectionReset
  BY <1>0, <1>9, StepLeave
     DEF IInv, ConnectionReset, Happens, session, writer, disk, Final
<1>10. CASE LocalEdit \/ Vanish
  BY <1>0, <1>10, StepUsers DEF IInv
<1>11. ASSUME NEW e \in Endpoint, Crash(e) PROVE IInv'
  <2>1. /\ UNCHANGED <<dir, delta, sent, basis, chan, completed, wq, cache, written, mixed,
                       file, mtime>>
        /\ reset' /\ events' = events \cup {"crash"} /\ pc[e] # "idle"
        /\ pc'[e] = IF pc[e] \in Final THEN pc[e] ELSE "failed"
        /\ wpc'[e] = IF wpc[e] \in {"create", "recv", "mtime"} THEN "killed" ELSE wpc[e]
        /\ \A f \in Endpoint : f # e => pc'[f] = pc[f] /\ wpc'[f] = wpc[f]
    BY <1>0, <1>11 DEF Crash, Goto, Ended, Happens, session, disk, TypeOK
  <2>2. \A f \in Endpoint :
          /\ pc'[f] = pc[f] \/ pc'[f] \in Final \/ (pc'[f] = "sleep" /\ pc[f] = "recv")
          /\ pc[f] \in Final => pc'[f] \in Final
          /\ pc[f] = "idle" => pc'[f] = "idle"
          /\ \/ wpc'[f] = wpc[f]
             \/ wpc'[f] = "killed" /\ wpc[f] \in {"create", "recv", "mtime"} /\ pc'[f] \in Final
    BY <2>1 DEF Final
  <2> QED
    BY <1>0, <2>1, <2>2, StepLeave DEF IInv
<1>12. CASE UNCHANGED vars
  <2> USE <1>0, <1>12 DEF vars, IInv, Sender, Receiver, Has, Held, Ended
  <2>0. TypeOK' /\ Roles'
    BY DEF TypeOK, Protocol, Roles
  <2>1. Traffic' /\ Start'
    BY DEF Protocol, Traffic, Start
  <2>2. WriterReady' /\ SameBlocks' /\ Completion'
    BY DEF Protocol, WriterReady, SameBlocks, Cached, Completion
  <2>3. NothingLost' /\ WriterState'
    BY DEF Protocol, NothingLost, Intact, Reached, WriterState
  <2> QED
    BY <2>0, <2>1, <2>2, <2>3 DEF Protocol
<1> QED
  BY <1>1, <1>2, <1>3, <1>4, <1>5, <1>6, <1>7, <1>8, <1>9, <1>10, <1>11, <1>12
     DEF Next, Client, Server, Environment

THEOREM Invariance == Spec => []IInv
BY InitInvariant, NextInvariant, PTL DEF Spec

\* A receiver that has handled Complete is not left with a part of the file.
THEOREM WholeOnComplete == Spec => []CompleteImpliesWhole
<1>1. IInv => CompleteImpliesWhole
  BY DEF IInv, Protocol, WriterState, CompleteImpliesWhole
<1> QED
  BY <1>1, Invariance, PTL

\* Only a Download whose local file was edited can mix up blocks.
THEOREM NoUploadGarbled == Spec => []GarbledOnlyByRace
<1>1. IInv => GarbledOnlyByRace
  BY DEF IInv, Protocol, SameBlocks, GarbledOnlyByRace
<1> QED
  BY <1>1, Invariance, PTL

\* Whoever reads an instruction has a writer to give it to.
THEOREM EveryDeltaHasAWriter == Spec => []NoDeltaDropped
<1>1. IInv => NoDeltaDropped
  <2> SUFFICES ASSUME IInv, NEW e \in Endpoint, Reads(e, "delta") PROVE wpc[e] # "none"
    BY DEF NoDeltaDropped
  <2>1. TypeOK /\ Protocol
    BY DEF IInv
  <2>2. e = Receiver /\ pc[e] = "recv" /\ delta # NoDelta /\ dir # "Skip"
    BY <2>1, ReadFirst, Ends DEF Protocol, Traffic
  <2> QED
    BY <2>1, <2>2, Ends, DirectionsAssumption DEF Protocol, WriterReady, TypeOK
<1> QED
  BY <1>1, Invariance, PTL

\* No step writes the file of the side that sends it.
THEOREM SourceIsSafe == Spec => SourceUntouched
<1>1. IInv /\ [Next]_vars => [file'[Sender] \in {file[Sender], "absent"}]_vars
  <2> SUFFICES ASSUME IInv, [Next]_vars PROVE file'[Sender] \in {file[Sender], "absent"}
    OBVIOUS
  <2>1. TypeOK /\ wpc[Sender] = "none"
    BY DEF IInv, Protocol, Roles
  <2>2. CASE \E e \in Endpoint : WriterCommit(e)
    BY <2>1, <2>2, Ends DEF WriterCommit, TypeOK, disk
  <2>3. CASE LocalEdit \/ Vanish
    BY <2>1, <2>3, Ends DEF LocalEdit, Vanish, TypeOK
  <2>4. CASE UNCHANGED file
    BY <2>4
  <2> QED
    BY <2>2, <2>3, <2>4 DEF Next, Client, Server, Task, Writer, Environment, disk, vars,
       Call, CallRejected, SendAction, SendSignatures, PrepareWriter, HandleFileAction,
       SendError, HandleSignatures, SendDelta, SendComplete, HandleDelta, HandleComplete,
       EndOfStream, StreamError, Wake, WriterCreate, WriterApply, WriterSetMtime,
       ConnectionReset, Crash
<1> QED
  BY <1>1, Invariance, PTL DEF Spec, SourceUntouched

\* Interruption is for good: a receiver that has left the loop without having
\* handled Complete never handles it.
Cut == pc[Receiver] \in Final \cup {"sleep"} /\ ~completed[Receiver]

LEMMA DirKept ==
  ASSUME [Next]_vars
  PROVE  dir' = dir /\ place' = place /\ Receiver' = Receiver /\ Sender' = Sender
<1>1. dir' = dir /\ place' = place
  BY DEF Next, Client, Server, Task, Writer, Environment, session, vars,
     Call, CallRejected, SendAction, SendSignatures, PrepareWriter, HandleFileAction,
     SendError, HandleSignatures, SendDelta, SendComplete, HandleDelta, HandleComplete,
     EndOfStream, StreamError, Wake, WriterCreate, WriterApply, WriterCommit,
     WriterSetMtime, ConnectionReset, LocalEdit, Vanish, Crash
<1> QED
  BY <1>1 DEF Receiver, Sender

LEMMA CutStays ==
  ASSUME TypeOK, Start, [Next]_vars, Cut
  PROVE  Cut'
<1> USE DEF Cut
<1>1. dir' = dir /\ Receiver' = Receiver
  BY DirKept
<1>2. Receiver \in Endpoint
  BY Ends
<1>3. CASE Client \/ Server
  <2> USE <1>1, <1>2 DEF TypeOK, Final, Goto, Fail, Reads, session, writer, disk
  <2>1. CASE Call
    BY <2>1 DEF Call, Start, Endpoint
  <2> QED
    BY <1>3, <2>1, Ends DEF Client, Server, Task, CallRejected, SendAction, SendSignatures,
       PrepareWriter, HandleFileAction, SendError, HandleSignatures, SendDelta, SendComplete,
       HandleDelta, HandleComplete, EndOfStream, StreamError, Wake
<1>4. CASE (\E e \in Endpoint : Writer(e)) \/ ConnectionReset \/ LocalEdit \/ Vanish
  BY <1>1, <1>4 DEF Writer, WriterCreate, WriterApply, WriterCommit, WriterSetMtime,
     ConnectionReset, LocalEdit, Vanish
<1>5. CASE \E e \in Endpoint : Crash(e)
  BY <1>1, <1>2, <1>5 DEF Crash, Goto, Ended, Final, TypeOK
<1>6. CASE UNCHANGED vars
  BY <1>1, <1>6 DEF vars
<1> QED
  BY <1>3, <1>4, <1>5, <1>6 DEF Next, Environment

\* The transfer of a file replaces it at most once, by the new content unless
\* the session was cut or the file was edited meanwhile: FileReplace.
LEMMA ReplaceInit == Init => Replace!Init
<1> SUFFICES ASSUME Init PROVE Replace!Init
  OBVIOUS
<1>1. Receiver \in Endpoint /\ pc[Receiver] \in {"call", "idle"}
  BY Ends, InitType DEF Init, Endpoint
<1> QED
  BY <1>1 DEF Init, Replace!Init, Final

LEMMA ReplaceNext ==
  ASSUME IInv, [Next]_vars
  PROVE  [Replace!Next]_(Replace!vars)
<1>0. /\ TypeOK /\ Roles /\ Start /\ SameBlocks /\ WriterState
      /\ Receiver \in Endpoint /\ Sender \in Endpoint
  BY Ends DEF IInv, Protocol
<1>1. dir' = dir /\ Receiver' = Receiver /\ Sender' = Sender
  BY DirKept
<1>2. CASE LocalEdit
  <2>1. /\ mtime = "kept" /\ mtime' = mtime
        /\ "edit" \notin events /\ "edit" \in events' 
        /\ file'[Receiver] = "edited"
        /\ pc' = pc /\ completed' = completed
    BY <1>0, <1>2 DEF LocalEdit, Happens, May, TypeOK
  <2> QED
    BY <1>1, <2>1 DEF Replace!Next, Replace!Edit
<1>3. ASSUME NEW e \in Endpoint, WriterCommit(e), mtime' = "now", UNCHANGED events,
             file' = [file EXCEPT ![e] = Outcome(e)]
      PROVE  Replace!Replace
  <2>1. e = Receiver /\ wpc[e] = "recv" /\ ~Held(e)
    BY <1>0, <1>3, Ends DEF WriterCommit, Roles
  <2>2. /\ mtime = "kept" /\ mtime' = "now" /\ file'[Receiver] = Outcome(Receiver)
        /\ pc' = pc /\ completed' = completed /\ events' = events
    BY <1>0, <1>3, <2>1 DEF WriterCommit, WriterState, TypeOK
  <2>3. /\ Outcome(Receiver) = "partial" => Cut
        /\ Outcome(Receiver) = "garbled" => "edit" \in events
    BY <1>0, <1>3, <2>1, WholeAtCommit DEF IInv, SameBlocks, Cut, Ended
  <2>4. Outcome(Receiver) \in {"new", "partial", "garbled"}
    BY DEF Outcome
  <2> QED
    BY <1>1, <2>2, <2>3, <2>4 DEF Replace!Replace, Cut
<1>4. ASSUME file'[Receiver] = file[Receiver],
             (mtime' # "kept") = (mtime # "kept"),
             ("edit" \in events') = ("edit" \in events)
      PROVE  [Replace!Next]_(Replace!vars)
  <2>1. Cut => Cut'
    BY <1>0, CutStays
  <2>2. CASE Cut <=> Cut'
    BY <1>1, <1>4, <2>2 DEF Cut, Replace!vars
  <2>3. CASE ~Cut /\ Cut'
    BY <1>1, <1>4, <2>3 DEF Cut, Replace!Next, Replace!Interrupt
  <2> QED
    BY <2>1, <2>2, <2>3
<1>5. CASE \E e \in Endpoint : WriterSetMtime(e)
  <2>1. wpc[Receiver] = "mtime" /\ mtime' = "plan" /\ file' = file /\ events' = events
    BY <1>0, <1>5, Ends DEF WriterSetMtime, Roles
  <2> QED
    BY <1>0, <1>4, <2>1 DEF WriterState
<1>6. CASE Vanish
  <2>1. Receiver # Sender
    BY <1>0, Ends
  <2> QED
    BY <1>0, <1>4, <1>6, <2>1 DEF Vanish, Happens, TypeOK
<1>7. CASE UNCHANGED <<file, mtime>> /\ (events' = events \/ \E x \in Events \ {"edit"} : events' = events \cup {x})
  BY <1>4, <1>7
<1>8. CASE Client \/ Server \/ ConnectionReset \/ UNCHANGED vars
  BY <1>7, <1>8 DEF Client, Server, Task, session, writer, disk, vars, Happens, May,
     Call, CallRejected, SendAction, SendSignatures, PrepareWriter, HandleFileAction,
     SendError, HandleSignatures, SendDelta, SendComplete, HandleDelta, HandleComplete,
     EndOfStream, StreamError, Wake, ConnectionReset
<1>9. CASE \E e \in Endpoint : WriterCreate(e) \/ WriterApply(e) \/ Crash(e)
  BY <1>7, <1>9 DEF WriterCreate, WriterApply, Crash, disk, Happens, May
<1>10. CASE \E e \in Endpoint : WriterCommit(e)
  <2> PICK e \in Endpoint : WriterCommit(e)
    BY <1>10
  <2>1. CASE mtime' = "now" /\ UNCHANGED events /\ file' = [file EXCEPT ![e] = Outcome(e)]
    BY <1>3, <2>1 DEF Replace!Next
  <2>2. CASE UNCHANGED disk /\ (UNCHANGED events \/ Happens("diskError"))
    BY <1>7, <2>2 DEF disk, Happens, May
  <2> QED
    BY <2>1, <2>2 DEF WriterCommit
<1> QED
  BY <1>2, <1>5, <1>6, <1>8, <1>9, <1>10 DEF Next, Writer, Environment, Replace!Next

THEOREM ImplementsReplace == Spec => ReplacesFile
<1>1. IInv /\ [Next]_vars => [Replace!Next]_(Replace!vars)
  BY ReplaceNext
<1> QED
  BY <1>1, ReplaceInit, Invariance, PTL DEF Spec, ReplacesFile, Replace!Spec

-----------------------------------------------------------------------------
(* A transfer that nothing disturbs.                                        *)

Undisturbed == ~Disturbed /\ place = "free" /\ dir # "Skip" /\ file[Sender] # "absent"

\* Until the receiver has handled Complete, nobody has left; and its writer does
\* what is left to do.
Calm ==
  Undisturbed =>
    /\ ~completed[Receiver] =>
         ~reset /\ \A e \in Endpoint : pc[e] \notin Final \cup {"sleep"}
    /\ completed[Receiver] => wpc[Receiver] # "none"
    /\ wpc[Receiver] \notin {"failed", "killed"}
    /\ wpc[Receiver] \in {"mtime", "done"} => file[Receiver] = "new"
    /\ wpc[Receiver] = "done" => mtime = "plan"

LEMMA CalmInit == Init => Calm
<1> SUFFICES ASSUME Init PROVE Calm
  OBVIOUS
<1>1. /\ wpc[Receiver] = "none" /\ ~completed[Receiver] /\ ~reset
      /\ \A e \in Endpoint : pc[e] \in {"call", "idle"}
  BY Ends, InitType DEF Init
<1> QED
  BY <1>1 DEF Calm, Final

\* An undisturbed transfer was undisturbed before.
LEMMA UndisturbedBefore ==
  ASSUME IInv, [Next]_vars, Undisturbed'
  PROVE  /\ Undisturbed /\ place = "free"
         /\ dir' = dir /\ Receiver' = Receiver /\ Sender' = Sender
         /\ \A x \in Events : events' = events \cup {x} => x = "edit"
         /\ dir = "Download" => "edit" \notin events
         /\ "uncached" \notin events
<1>1. dir' = dir /\ place' = place /\ Receiver' = Receiver /\ Sender' = Sender
  BY DirKept
<1>2. events \subseteq events'
  BY DEF Next, Client, Server, Task, Writer, Environment, session, vars, Happens,
     Call, CallRejected, SendAction, SendSignatures, PrepareWriter, HandleFileAction,
     SendError, HandleSignatures, SendDelta, SendComplete, HandleDelta, HandleComplete,
     EndOfStream, StreamError, Wake, WriterCreate, WriterApply, WriterCommit,
     WriterSetMtime, ConnectionReset, LocalEdit, Vanish, Crash
<1>3. ~Disturbed /\ \A x \in events' : x = "edit" /\ dir = "Upload"
  BY <1>1, <1>2 DEF Undisturbed, Disturbed
<1>4. file[Sender] # "absent"
  <2>1. TypeOK /\ wpc[Sender] = "none" /\ Sender \in Endpoint /\ Receiver # Sender
    BY Ends DEF IInv, Protocol, Roles
  <2>2. file'[Sender] # "absent"
    BY <1>1 DEF Undisturbed
  <2>3. CASE \E e \in Endpoint : WriterCommit(e)
    BY <2>1, <2>2, <2>3 DEF WriterCommit, TypeOK, disk
  <2>4. CASE LocalEdit
    BY <2>1, <2>2, <2>4 DEF LocalEdit, TypeOK
  <2>5. CASE Vanish
    BY <2>5 DEF Vanish
  <2>6. CASE UNCHANGED file
    BY <2>2, <2>6
  <2> QED
    BY <2>3, <2>4, <2>5, <2>6 DEF Next, Client, Server, Task, Writer, Environment, disk, vars,
       Call, CallRejected, SendAction, SendSignatures, PrepareWriter, HandleFileAction,
       SendError, HandleSignatures, SendDelta, SendComplete, HandleDelta, HandleComplete,
       EndOfStream, StreamError, Wake, WriterCreate, WriterApply, WriterSetMtime,
       ConnectionReset, Crash
<1>5. dir # "Skip" /\ place = "free"
  BY <1>1 DEF Undisturbed
<1>6. Undisturbed
  BY <1>3, <1>4, <1>5 DEF Undisturbed
<1>7. (dir = "Download" => "edit" \notin events) /\ "uncached" \notin events
  BY <1>2, <1>3
<1> QED
  BY <1>1, <1>3, <1>5, <1>6, <1>7

\* The steps of the two tasks.  They leave the receiver's writer alone, or start it.
LEMMA CalmTasks ==
  ASSUME IInv, Calm, [Next]_vars, Undisturbed', Client \/ Server
  PROVE  Calm'
<1>0. /\ TypeOK /\ Protocol /\ Undisturbed /\ place = "free"
      /\ dir' = dir /\ Receiver' = Receiver
      /\ \A x \in Events : events' = events \cup {x} => x = "edit"
      /\ dir = "Download" \/ dir = "Upload"
  BY UndisturbedBefore, DirectionsAssumption DEF IInv, Undisturbed, TypeOK
<1>1. /\ Sender \in Endpoint /\ Receiver \in Endpoint /\ Sender # Receiver
      /\ \A e \in Endpoint : e = Sender \/ e = Receiver
      /\ Peer(Sender) = Receiver /\ Peer(Receiver) = Sender
      /\ dir = "Upload" => Sender = "client" /\ Receiver = "server"
      /\ dir # "Upload" => Sender = "server" /\ Receiver = "client"
  BY <1>0, Ends
<1>2. /\ ~completed[Receiver] => ~reset /\ \A e \in Endpoint : ~Ended(e) /\ pc[e] # "sleep" /\ Held(e)
      /\ completed[Receiver] => wpc[Receiver] # "none"
      /\ wpc[Receiver] \notin {"failed", "killed"}
      /\ wpc[Receiver] \in {"mtime", "done"} => file[Receiver] = "new"
      /\ wpc[Receiver] = "done" => mtime = "plan"
  BY <1>0, <1>1 DEF Calm, Ended, Held, Protocol, Completion
<1>3. \A e \in Endpoint : Peer(e) \in Endpoint
  BY <1>1
\* Nobody leaves before the receiver has handled Complete.
<1>4. ASSUME UNCHANGED <<wpc, disk>>, completed[Receiver] => completed'[Receiver],
             ~completed[Receiver] /\ completed'[Receiver] => wpc[Receiver] # "none",
             ~completed'[Receiver] =>
               reset' = reset /\ \A e \in Endpoint : pc'[e] = pc[e] \/ pc'[e] \notin Final \cup {"sleep"}
      PROVE  Calm'
  <2>1. ~completed'[Receiver] =>
          ~reset' /\ \A e \in Endpoint : pc'[e] \notin Final \cup {"sleep"}
    BY <1>2, <1>4 DEF Ended, Final
  <2> QED
    BY <1>0, <1>2, <1>4, <2>1 DEF Calm, disk
<1>5. ASSUME wpc'[Receiver] = "create", UNCHANGED <<disk, completed>>,
             ~completed'[Receiver] =>
               reset' = reset /\ \A e \in Endpoint : pc'[e] = pc[e] \/ pc'[e] \notin Final \cup {"sleep"}
      PROVE  Calm'
  <2>1. ~completed'[Receiver] =>
          ~reset' /\ \A e \in Endpoint : pc'[e] \notin Final \cup {"sleep"}
    BY <1>2, <1>5 DEF Ended, Final
  <2> QED
    BY <1>0, <1>5, <2>1 DEF Calm
<1>6. ASSUME NEW e \in Endpoint, NEW l, l \notin Final \cup {"sleep"},
             Goto(e, l), UNCHANGED <<wpc, disk, completed, reset>>
      PROVE  Calm'
  <2>1. \A f \in Endpoint : pc'[f] = pc[f] \/ pc'[f] = l
    BY <1>0, <1>6 DEF Goto, TypeOK
  <2> QED
    BY <1>4, <1>6, <2>1
<1>7. ASSUME UNCHANGED <<wpc, disk, completed>>, completed[Receiver] PROVE Calm'
  BY <1>4, <1>7
<1>8. ASSUME UNCHANGED <<wpc, disk, completed, pc, reset>> PROVE Calm'
  BY <1>4, <1>8
<1>9. CASE Call
  <2>1. \A f \in Endpoint : pc'[f] \in {"action", "recv"}
    BY <1>9 DEF Call
  <2> QED
    BY <1>4, <1>9, <2>1 DEF Call, writer, Final
<1>10. CASE CallRejected
  <2>1. UNCHANGED <<wpc, disk, completed>>
    BY <1>10 DEF CallRejected, writer
  <2>2. reset
    BY <1>0, <1>10, EventsAssumption DEF CallRejected, Happens, May
  <2> QED
    BY <1>2, <1>7, <2>1, <2>2
<1>11. CASE SendAction
  <2>1. UNCHANGED <<wpc, disk, completed, reset>> /\ (Goto("client", "sign") \/ Goto("client", "recv"))
    BY <1>11 DEF SendAction, writer
  <2> QED
    BY <1>6, <2>1 DEF Final
<1>12. CASE SendSignatures
  BY <1>6, <1>12 DEF SendSignatures, writer, Final
<1>13. CASE PrepareWriter
  <2>1. Receiver = "client"
    BY <1>0, <1>1, <1>13 DEF PrepareWriter, Protocol, Roles
  <2>2. wpc'[Receiver] = "create"
    BY <1>0, <1>1, <1>13, <2>1 DEF PrepareWriter, SpawnWriter, TypeOK
  <2>3. \A e \in Endpoint : pc'[e] = pc[e] \/ pc'[e] = "recv"
    BY <1>0, <1>13 DEF PrepareWriter, Goto, TypeOK
  <2> QED
    BY <1>5, <1>13, <2>2, <2>3 DEF PrepareWriter, Final
<1>14. CASE HandleFileAction
  <2>1. CASE dir = "Upload" /\ SpawnWriter("server", file["server"]) /\ UNCHANGED <<pc, reset, events>>
    <3>1. wpc'[Receiver] = "create"
      BY <1>0, <1>1, <2>1 DEF SpawnWriter, TypeOK
    <3> QED
      BY <1>5, <1>14, <2>1, <3>1 DEF HandleFileAction
  <2>2. CASE /\ \/ Happens("unreadable")
                \/ (place = "taken" \/ reset \/ Ended("client")) /\ UNCHANGED events
             /\ UNCHANGED writer
    <3>1. reset \/ Ended("client")
      BY <1>0, <2>2, EventsAssumption DEF Happens, May
    <3>2. completed[Receiver]
      BY <1>2, <3>1
    <3> QED
      BY <1>7, <1>14, <2>2, <3>2 DEF HandleFileAction, writer
  <2>3. CASE UNCHANGED <<pc, writer, reset, events>>
    BY <1>8, <1>14, <2>3 DEF HandleFileAction, writer
  <2> QED
    BY <1>14, <2>1, <2>2, <2>3 DEF HandleFileAction
<1>15. ASSUME NEW e \in Endpoint, SendError(e) \/ StreamError(e) \/ EndOfStream(e) \/ Wake(e) PROVE Calm'
  <2>1. completed[Receiver]
    BY <1>2, <1>3, <1>15 DEF SendError, StreamError, EndOfStream, Wake, Ended
  <2>2. UNCHANGED <<wpc, disk, completed>>
    BY <1>15 DEF SendError, StreamError, EndOfStream, Wake, writer
  <2> QED
    BY <1>7, <2>1, <2>2
<1>16. ASSUME NEW e \in Endpoint, HandleSignatures(e) PROVE Calm'
  <2>1. e = Sender
    BY <1>0, <1>1, <1>16, ReadFirst DEF HandleSignatures, Protocol, Traffic
  <2>2. Goto(e, "send") /\ reset' = reset
    BY <1>0, <1>16, <2>1 DEF HandleSignatures, Undisturbed
  <2> QED
    BY <1>6, <1>16, <2>2 DEF HandleSignatures, writer, Final
<1>17. ASSUME NEW e \in Endpoint, SendDelta(e) \/ SendComplete(e) PROVE Calm'
  <2>1. CASE SendDelta(e)
    BY <1>8, <2>1 DEF SendDelta, writer
  <2>2. CASE SendComplete(e)
    BY <1>6, <2>2 DEF SendComplete, writer, Final
  <2> QED
    BY <1>17, <2>1, <2>2
<1>18. ASSUME NEW e \in Endpoint, HandleDelta(e) PROVE Calm'
  <2>1. e = Receiver /\ pc[e] = "recv"
    BY <1>0, <1>1, <1>18, ReadFirst DEF HandleDelta, Protocol, Traffic
  <2>2. UNCHANGED <<wpc, disk, completed>>
    BY <1>18 DEF HandleDelta
  <2>3. CASE UNCHANGED <<pc, reset>>
    BY <1>8, <2>2, <2>3
  <2>4. CASE wpc[e] \notin {"none", "create", "recv"}
    <3>1. wpc[Receiver] \in {"mtime", "done"}
      BY <1>0, <1>1, <1>2, <2>1, <2>4 DEF TypeOK
    <3>2. ~Held(Receiver)
      BY <1>0, <1>1, <3>1 DEF Protocol, WriterState
    <3>3. completed[Receiver]
      BY <1>1, <1>2, <3>2
    <3> QED
      BY <1>7, <2>2, <3>3
  <2> QED
    BY <1>18, <2>3, <2>4 DEF HandleDelta
<1>19. ASSUME NEW e \in Endpoint, HandleComplete(e) PROVE Calm'
  <2>1. /\ pc[e] = "recv" /\ ~completed[e]
        /\ 1 \in DOMAIN chan[Peer(e)] /\ chan[Peer(e)][1].type = "complete"
        /\ UNCHANGED <<wpc, disk>>
        /\ \/ completed' = [completed EXCEPT ![e] = TRUE]
           \/ completed' = completed /\ (reset \/ Ended(Peer(e)))
    BY <1>0, <1>19, CompleteEffect DEF HandleComplete, disk
  <2>2. CASE e = Sender
    <3>1. completed[Receiver]
      BY <1>0, <1>1, <2>1, <2>2 DEF Protocol, Traffic
    <3>2. completed'[Receiver]
      BY <1>0, <1>1, <2>1, <2>2, <3>1 DEF TypeOK
    <3> QED
      BY <1>4, <2>1, <3>1, <3>2
  <2>3. CASE e = Receiver
    <3>1. completed' = [completed EXCEPT ![e] = TRUE]
      BY <1>1, <1>2, <2>1, <2>3
    <3>2. completed'[Receiver]
      BY <1>0, <1>1, <2>3, <3>1 DEF TypeOK
    <3>3. delta # NoDelta
      BY <1>0, <1>1, <2>1, <2>3 DEF Protocol, Traffic
    <3>4. wpc[Receiver] # "none"
      BY <1>0, <1>1, <2>1, <2>3, <3>3 DEF Protocol, WriterReady
    <3> QED
      BY <1>4, <2>1, <3>2, <3>4
  <2> QED
    BY <1>1, <1>19, <2>2, <2>3
<1> QED
  BY <1>9, <1>10, <1>11, <1>12, <1>13, <1>14, <1>15, <1>16, <1>17, <1>18, <1>19
     DEF Client, Server, Task

\* The steps of the writer.
LEMMA CalmWriter ==
  ASSUME IInv, Calm, [Next]_vars, Undisturbed', NEW e \in Endpoint, Writer(e)
  PROVE  Calm'
<1>0. /\ TypeOK /\ Protocol /\ Undisturbed /\ place = "free"
      /\ dir' = dir /\ Receiver' = Receiver
      /\ \A x \in Events : events' = events \cup {x} => x = "edit"
      /\ (dir = "Download" => "edit" \notin events) /\ "uncached" \notin events
      /\ dir = "Download" \/ dir = "Upload"
  BY UndisturbedBefore, DirectionsAssumption DEF IInv, Undisturbed, TypeOK
<1>1. e = Receiver /\ wpc[Receiver] # "none" /\ Receiver \in Endpoint
  BY <1>0, Ends DEF Writer, WriterCreate, WriterApply, WriterCommit, WriterSetMtime, Protocol, Roles
<1>2. /\ ~completed[Receiver] => ~reset /\ \A f \in Endpoint : pc[f] \notin Final \cup {"sleep"}
      /\ wpc[Receiver] \in {"mtime", "done"} => file[Receiver] = "new"
  BY <1>0 DEF Calm
<1>3. UNCHANGED <<pc, completed, reset>>
  BY DEF Writer, WriterCreate, WriterApply, WriterCommit, WriterSetMtime
<1>4. ASSUME wpc'[Receiver] \in {"create", "recv"} PROVE Calm'
  BY <1>0, <1>2, <1>3, <1>4 DEF Calm
<1>5. CASE WriterCreate(e)
  <2>1. wpc' = [wpc EXCEPT ![e] = "recv"]
    BY <1>0, <1>5, EventsAssumption DEF WriterCreate, Happens, May
  <2> QED
    BY <1>0, <1>1, <1>4, <2>1 DEF TypeOK
<1>6. CASE WriterApply(e)
  <2>1. cache[e] = basis
    <3>1. Head(wq[e]) \in 1..sent
      <4>1. wq[e] \in Seq(Nat) /\ wq[e] # <<>>
        BY <1>0, <1>1, <1>6 DEF TypeOK, WriterApply
      <4>2. 1 \in DOMAIN wq[e] /\ Head(wq[e]) = wq[e][1]
        BY <4>1
      <4> QED
        BY <1>0, <4>2 DEF Protocol, WriterState
    <3>2. delta # NoDelta
      BY <1>0, <3>1 DEF Protocol, Traffic
    <3>3. Cached(basis)
      BY <1>0, <3>2 DEF Protocol, SameBlocks
    <3> QED
      BY <1>0, <1>1, <3>3, Ends DEF Cached
  <2>2. wpc' = wpc /\ wpc[e] = "recv"
    BY <1>0, <1>6, <2>1, EventsAssumption DEF WriterApply, Happens, May
  <2> QED
    BY <1>1, <1>4, <2>2
<1>7. CASE WriterCommit(e)
  <2>1. ~Held(Receiver)
    BY <1>1, <1>7 DEF WriterCommit
  <2>2. completed[Receiver]
    BY <1>1, <1>2, <2>1 DEF Held, Ended
  <2>3. Outcome(Receiver) = "new"
    <3>1. ~mixed[Receiver]
      BY <1>0, <1>1 DEF Protocol, SameBlocks
    <3> QED
      BY <1>0, <1>1, <1>7, <2>2, <3>1, WholeAtCommit
  <2>4. wpc'[Receiver] = "mtime" /\ file'[Receiver] = "new"
    BY <1>0, <1>1, <1>7, <2>3, EventsAssumption DEF WriterCommit, Happens, May, TypeOK
  <2> QED
    BY <1>0, <1>3, <2>2, <2>4 DEF Calm
<1>8. CASE WriterSetMtime(e)
  <2>1. wpc[Receiver] = "mtime" /\ wpc'[Receiver] = "done" /\ mtime' = "plan" /\ file' = file
    BY <1>0, <1>1, <1>8 DEF WriterSetMtime, TypeOK
  <2> QED
    BY <1>0, <1>2, <1>3, <2>1 DEF Calm
<1> QED
  BY <1>5, <1>6, <1>7, <1>8 DEF Writer

LEMMA CalmNext ==
  ASSUME IInv, Calm, [Next]_vars
  PROVE  Calm'
<1> SUFFICES ASSUME Undisturbed' PROVE Calm'
  BY DEF Calm
<1>0. /\ TypeOK /\ Protocol /\ Undisturbed /\ place = "free"
      /\ dir' = dir /\ Receiver' = Receiver
      /\ \A x \in Events : events' = events \cup {x} => x = "edit"
  BY UndisturbedBefore DEF IInv
<1>1. CASE Client \/ Server
  BY <1>1, CalmTasks
<1>2. CASE \E e \in Endpoint : Writer(e)
  BY <1>2, CalmWriter
<1>3. CASE LocalEdit
  <2>1. /\ mtime = "kept" /\ UNCHANGED <<pc, completed, wpc, mtime, reset>>
    BY <1>3 DEF LocalEdit, writer
  <2>2. wpc[Receiver] \notin {"mtime", "done"}
    BY <1>0, <2>1 DEF Protocol, WriterState, Calm
  <2> QED
    BY <1>0, <2>1, <2>2 DEF Calm
<1>4. ~ConnectionReset /\ ~Vanish /\ ~ \E e \in Endpoint : Crash(e)
  BY <1>0, EventsAssumption DEF ConnectionReset, Vanish, Crash, Happens, May
<1>5. CASE UNCHANGED vars
  BY <1>0, <1>5 DEF vars, Calm
<1> QED
  BY <1>1, <1>2, <1>3, <1>4, <1>5 DEF Next, Environment

\* A target that is not free is never touched: no temporary file, or no rename.
Barred ==
  place # "free" =>
    /\ mtime = "kept" /\ file[Receiver] \in {"absent", "old", "edited"}
    /\ wpc[Receiver] \notin {"mtime", "done"}
    /\ place = "blocked" => wpc[Receiver] # "recv"

LEMMA BarredInit == Init => Barred
<1> SUFFICES ASSUME Init, place # "free" PROVE Barred
  BY DEF Barred
<1>1. wpc[Receiver] = "none" /\ mtime = "kept"
  BY Ends, InitType DEF Init
<1>2. file[Receiver] \in {"absent", "old"}
  BY DEF Init
<1> QED
  BY <1>1, <1>2 DEF Barred

LEMMA BarredNext ==
  ASSUME IInv, Barred, [Next]_vars
  PROVE  Barred'
<1>0. /\ TypeOK /\ Receiver \in Endpoint /\ Sender \in Endpoint /\ Sender # Receiver
      /\ wpc[Sender] = "none"
      /\ dir' = dir /\ place' = place /\ Receiver' = Receiver /\ Sender' = Sender
      /\ place \in {"free", "blocked", "taken"}
  BY DirKept, Ends, PlacesAssumption DEF IInv, Protocol, Roles, TypeOK
<1> SUFFICES ASSUME place # "free" PROVE Barred'
  BY <1>0 DEF Barred
<1>1. ASSUME UNCHANGED <<file, mtime>>,
             wpc'[Receiver] \in {wpc[Receiver], "create", "failed", "killed"}
      PROVE  Barred'
  BY <1>0, <1>1 DEF Barred
<1>2. ASSUME UNCHANGED <<file, mtime, wpc>> PROVE Barred'
  BY <1>1, <1>2
<1>3. ASSUME NEW e \in Endpoint, UNCHANGED <<file, mtime>>,
             wpc' = [wpc EXCEPT ![e] = "create"] \/ wpc' = [wpc EXCEPT ![e] = "failed"]
      PROVE  Barred'
  BY <1>0, <1>1, <1>3 DEF TypeOK
<1>4. CASE PrepareWriter
  BY <1>3, <1>4 DEF PrepareWriter, SpawnWriter, disk, Endpoint
<1>5. CASE HandleFileAction
  BY <1>2, <1>3, <1>5 DEF HandleFileAction, SpawnWriter, writer, disk, Endpoint
<1>6. CASE \E e \in Endpoint : WriterCreate(e)
  <2> PICK e \in Endpoint : WriterCreate(e)
    BY <1>6
  <2>1. CASE place # "blocked" /\ wpc' = [wpc EXCEPT ![e] = "recv"]
    BY <1>0, <2>1 DEF Barred, WriterCreate, disk, TypeOK
  <2> QED
    BY <1>3, <2>1 DEF WriterCreate, disk
<1>7. CASE \E e \in Endpoint : WriterApply(e)
  BY <1>2, <1>3, <1>7 DEF WriterApply, disk
<1>8. CASE \E e \in Endpoint : WriterCommit(e)
  <2> PICK e \in Endpoint : WriterCommit(e)
    BY <1>8
  <2>1. e = Receiver /\ wpc[e] = "recv"
    BY <1>0, Ends DEF WriterCommit
  <2>2. place = "taken"
    BY <1>0, <2>1 DEF Barred
  <2> QED
    BY <1>3, <2>2 DEF WriterCommit, disk
<1>9. ASSUME NEW e \in Endpoint PROVE ~WriterSetMtime(e)
  BY <1>0, Ends DEF WriterSetMtime, Barred
<1>10. CASE LocalEdit
  BY <1>0, <1>10 DEF LocalEdit, Barred, writer, TypeOK
<1>11. CASE Vanish
  BY <1>0, <1>11 DEF Vanish, Barred, writer, TypeOK
<1>12. CASE \E e \in Endpoint : Crash(e)
  BY <1>0, <1>1, <1>12 DEF Crash, disk, TypeOK
<1> QED
  BY <1>2, <1>4, <1>5, <1>6, <1>7, <1>8, <1>9, <1>10, <1>11, <1>12
     DEF Next, Client, Server, Task, Writer, Environment, writer, disk, vars,
         Call, CallRejected, SendAction, SendSignatures,
         SendError, HandleSignatures, SendDelta, SendComplete, HandleDelta, HandleComplete,
         EndOfStream, StreamError, Wake, ConnectionReset

\* Without an event that disturbs it, what a transfer does is decided by the state
\* of its target alone: once the client has returned and the writer has stopped, a
\* target that is free holds the whole file with the time stamp of the plan, and
\* one whose temporary file could not be made or renamed is as the users left it.
THEOREM DeliversAtEnd == Spec => []DeliveredAtEnd
<1>1. Init => IInv /\ Calm /\ Barred
  BY InitInvariant, CalmInit, BarredInit
<1>2. IInv /\ Calm /\ Barred /\ [Next]_vars => IInv' /\ Calm' /\ Barred'
  BY NextInvariant, CalmNext, BarredNext
<1>3. IInv /\ Calm /\ Barred => DeliveredAtEnd
  <2>1. ASSUME IInv, Calm, Undisturbed, Ended("client"),
               wpc[Receiver] \in {"none", "done", "failed", "killed"}
        PROVE  file[Receiver] = "new" /\ mtime = "plan"
    <3>1. completed[Receiver]
      BY <2>1 DEF Calm, Ended, Endpoint
    <3>2. wpc[Receiver] = "done"
      BY <2>1, <3>1 DEF Calm
    <3> QED
      BY <2>1, <3>2 DEF Calm
  <2> QED
    BY <2>1 DEF DeliveredAtEnd, Undisturbed, Barred
<1> QED
  BY <1>1, <1>2, <1>3, PTL DEF Spec
=============================================================================
