------------------------------ MODULE FileSync ------------------------------
(***************************************************************************)
(* The synchronisation of one file of a sync plan: the client task         *)
(* sync_file, the server task spawned by handle_sync_request_stream, the   *)
(* bidirectional stream between them, the payload handler both sides run,  *)
(* and the delta_writer task each side spawns when it is the receiver.     *)
(*                                                                         *)
(* A delta is a sequence of instructions ("block": copy from the cache of  *)
(* blocks read from the old file, "literal": bytes sent over the wire);    *)
(* contents are names, and a file written by the delta writer is "new" iff *)
(* every instruction was applied, "partial" if some are missing, "garbled" *)
(* if a block was copied from blocks that are not the ones signed.         *)
(***************************************************************************)
EXTENDS Integers, Sequences, FiniteSets

CONSTANTS
  Directions,  \* the directions a plan entry may have
  Places,      \* what the target may look like to its writer
  Scripts,     \* the deltas the sender may compute
  StreamCap,   \* messages in flight in one direction of the stream (256)
  WriterCap,   \* instructions queued for a delta writer (512)
  Events       \* what the environment may do, each at most once

ASSUME DirectionsAssumption == Directions \subseteq {"Skip", "Download", "Upload"}
ASSUME PlacesAssumption == Places \subseteq {"free", "blocked", "taken"}
ASSUME ScriptsAssumption == Scripts \subseteq Seq({"block", "literal"})
ASSUME CapsAssumption == StreamCap \in Nat \ {0} /\ WriterCap \in Nat \ {0}
ASSUME EventsAssumption ==
  Events \subseteq {"reset", "noSession", "unreadable", "uncached", "diskError",
                    "edit", "vanish", "crash"}

VARIABLES
  dir,        \* direction of the plan entry
  place,      \* the target: free, or no temporary file can be made next to it
              \* (its directory is missing), or a directory has its name
  delta,      \* the delta computed by the sender, NoDelta before
  pc,         \* where each endpoint's task is
  chan,       \* chan[e]: messages sent by e and not read yet
  sent,       \* instructions of delta sent so far
  basis,      \* content whose blocks the sender matched against
  completed,  \* completed[e]: e has handled the peer's Complete
  wpc,        \* where each endpoint's delta writer is
  wq,         \* wq[e]: indexes of the instructions queued for e's writer
  cache,      \* cache[e]: content whose blocks e's writer copies from
  written,    \* written[e]: indexes applied to e's temporary file
  mixed,      \* mixed[e]: the temporary file holds a block of another content
  file,       \* file[e]: content at the path on e's side
  mtime,      \* the receiver's modification time: kept, now, or the plan's
  reset,      \* the stream was reset: reads and sends may fail
  events      \* what the environment did so far

session == <<dir, place, delta, sent, basis>>
writer == <<wpc, wq, cache, written, mixed>>
disk == <<file, mtime>>
vars == <<dir, place, delta, pc, chan, sent, basis, completed, wpc, wq, cache, written,
          mixed, file, mtime, reset, events>>

Endpoint == {"client", "server"}
Peer(e) == IF e = "client" THEN "server" ELSE "client"
Sender == IF dir = "Upload" THEN "client" ELSE "server"
Receiver == Peer(Sender)

NoDelta == <<"unread">>
Contents == {"absent", "old", "edited", "new", "partial", "garbled"}

Message == [type : {"action", "signatures", "delta", "complete"},
            index : Nat, basis : Contents]
Msg(type, index, content) == [type |-> type, index |-> index, basis |-> content]

Final == {"done", "failed"}
Ended(e) == pc[e] \in Final
\* tx and writer_tx live until Completed is handled or the task returns.
Held(e) == ~Ended(e) /\ ~completed[e]

TypeOK ==
  /\ dir \in Directions
  /\ place \in Places
  /\ delta \in Scripts \cup {NoDelta}
  /\ sent \in Nat /\ sent <= Len(delta)
  /\ pc \in [Endpoint -> {"call", "idle", "action", "sign", "prepare", "recv",
                          "send", "sleep"} \cup Final]
  /\ chan \in [Endpoint -> Seq(Message)]
  /\ basis \in Contents
  /\ completed \in [Endpoint -> BOOLEAN]
  /\ wpc \in [Endpoint -> {"none", "create", "recv", "mtime", "done", "failed", "killed"}]
  /\ wq \in [Endpoint -> Seq(Nat)]
  /\ cache \in [Endpoint -> Contents]
  /\ written \in [Endpoint -> SUBSET Nat]
  /\ mixed \in [Endpoint -> BOOLEAN]
  /\ file \in [Endpoint -> Contents]
  /\ mtime \in {"kept", "now", "plan"}
  /\ reset \in BOOLEAN
  /\ events \subseteq Events
  /\ \A e \in Endpoint : Len(chan[e]) <= StreamCap /\ Len(wq[e]) <= WriterCap

\* An Upload may name a file the client no longer has: a Removed diff is
\* reported and planned like any other.
Init ==
  /\ dir \in Directions
  /\ place \in Places
  /\ delta = NoDelta /\ sent = 0 /\ basis = "absent"
  /\ pc = [client |-> "call", server |-> "idle"]
  /\ chan = [e \in Endpoint |-> <<>>]
  /\ completed = [e \in Endpoint |-> FALSE]
  /\ wpc = [e \in Endpoint |-> "none"]
  /\ wq = [e \in Endpoint |-> <<>>]
  /\ cache = [e \in Endpoint |-> "absent"]
  /\ written = [e \in Endpoint |-> {}]
  /\ mixed = [e \in Endpoint |-> FALSE]
  /\ file \in [Endpoint -> {"absent", "old", "new"}]
  /\ file[Sender] = "new" \/ (dir = "Upload" /\ file[Sender] = "absent")
  /\ file[Receiver] \in IF place = "taken" THEN {"absent"} ELSE {"absent", "old"}
  /\ mtime = "kept"
  /\ reset = FALSE
  /\ events = {}

Goto(e, l) == pc' = [pc EXCEPT ![e] = l]
May(ev) == ev \in Events \ events
Happens(ev) == May(ev) /\ events' = events \cup {ev}

-----------------------------------------------------------------------------
(* Sending and failing.  A message put on a stream nobody reads any more is *)
(* lost; the send may also fail, and then the task returns.                *)

\* Fault: the stream takes any number of messages.
PutUnbounded(e, m) ==
  chan' = IF reset \/ Ended(Peer(e)) THEN chan ELSE [chan EXCEPT ![e] = Append(@, m)]

Put(e, m) ==
  \/ /\ ~reset /\ ~Ended(Peer(e))
     /\ Len(chan[e]) < StreamCap
     /\ chan' = [chan EXCEPT ![e] = Append(@, m)]
  \/ /\ reset \/ Ended(Peer(e))
     /\ UNCHANGED chan

\* The task returns Err: its channels are dropped, and a client that drops the
\* response stream resets it.
Fail(e) ==
  /\ Goto(e, "failed")
  /\ reset' = (reset \/ e = "client")

SendError(e) ==
  /\ pc[e] \in {"action", "send"}
  /\ reset \/ Ended(Peer(e))
  /\ Fail(e)
  /\ UNCHANGED <<session, chan, completed, writer, disk, events>>

-----------------------------------------------------------------------------
(* Opening the stream (client).                                            *)

Call ==
  /\ pc["client"] = "call" /\ ~reset
  /\ pc' = [client |-> "action", server |-> "recv"]
  /\ UNCHANGED <<session, chan, completed, writer, disk, reset, events>>

\* The server was restarted since the plan was made, or cannot be reached.
CallRejected ==
  /\ pc["client"] = "call"
  /\ \/ Happens("noSession")
     \/ reset /\ UNCHANGED events
  /\ Fail("client")
  /\ UNCHANGED <<session, chan, completed, writer, disk>>

SendAction ==
  /\ pc["client"] = "action"
  /\ Put("client", Msg("action", 0, "absent"))
  /\ Goto("client", IF dir = "Download" THEN "sign" ELSE "recv")
  /\ UNCHANGED <<session, completed, writer, disk, reset, events>>

\* Download: sign the local file.  An error (the file cannot be read, a
\* directory is there, the stream is gone) is ignored.
SendSignatures ==
  /\ pc["client"] = "sign"
  /\ \/ /\ place # "taken"
        /\ Put("client", Msg("signatures", 0, file["client"]))
        /\ UNCHANGED events
     \/ place = "taken" /\ UNCHANGED <<chan, events>>
     \/ Happens("unreadable") /\ UNCHANGED chan
  /\ Goto("client", "prepare")
  /\ UNCHANGED <<session, completed, writer, disk, reset>>

SpawnWriter(e, content) ==
  /\ wpc' = [wpc EXCEPT ![e] = "create"]
  /\ cache' = [cache EXCEPT ![e] = content]
  /\ UNCHANGED <<wq, written, mixed>>

\* Fault: a missing file gets no writer.
PrepareWriterIfExists ==
  /\ pc["client"] = "prepare"
  /\ IF file["client"] # "absent" THEN SpawnWriter("client", file["client"])
                                  ELSE UNCHANGED writer
  /\ Goto("client", "recv")
  /\ UNCHANGED <<session, chan, completed, disk, reset, events>>

\* Download: read the local file a second time, for the writer's cache; a file
\* that cannot be read, now or any more, gives an empty cache.
PrepareWriter ==
  /\ pc["client"] = "prepare"
  /\ \/ SpawnWriter("client", file["client"]) /\ UNCHANGED events
     \/ "unreadable" \in events /\ SpawnWriter("client", "absent") /\ UNCHANGED events
     \/ Happens("uncached") /\ SpawnWriter("client", "absent")
  /\ Goto("client", "recv")
  /\ UNCHANGED <<session, chan, completed, disk, reset>>

-----------------------------------------------------------------------------
(* handle_sync_payload, run by both sides on the messages of the peer.      *)

Reads(e, type) ==
  /\ pc[e] = "recv"
  /\ chan[Peer(e)] # <<>>
  /\ Head(chan[Peer(e)]).type = type

Consume(e) == chan' = [chan EXCEPT ![Peer(e)] = Tail(@)]

\* Consume e's next message and send m in reply, in one step of the handler.
Reply(e, m) ==
  \/ /\ ~reset /\ ~Ended(Peer(e))
     /\ Len(chan[e]) < StreamCap
     /\ chan' = [chan EXCEPT ![Peer(e)] = Tail(@), ![e] = Append(@, m)]
  \/ /\ reset \/ Ended(Peer(e))
     /\ Consume(e)

\* Fault: the server prepares a writer whatever the direction.
HandleFileActionAlwaysWrites ==
  /\ Reads("server", "action")
  /\ IF dir = "Upload" THEN Reply("server", Msg("signatures", 0, file["server"]))
                       ELSE Consume("server")
  /\ SpawnWriter("server", file["server"])
  /\ UNCHANGED <<session, pc, completed, disk, reset, events>>

\* Upload: one read of the file gives both the signatures and the cache; the
\* task fails where a directory has its name.
HandleFileAction ==
  /\ Reads("server", "action")
  /\ \/ /\ dir = "Upload" /\ place # "taken"
        /\ Reply("server", Msg("signatures", 0, file["server"]))
        /\ SpawnWriter("server", file["server"])
        /\ UNCHANGED <<pc, reset, events>>
     \/ /\ dir = "Upload"
        /\ \/ Happens("unreadable")
           \/ (place = "taken" \/ reset \/ Ended("client")) /\ UNCHANGED events
        /\ Fail("server") /\ Consume("server")
        /\ UNCHANGED writer
     \/ /\ dir # "Upload"
        /\ Consume("server")
        /\ UNCHANGED <<pc, writer, reset, events>>
  /\ UNCHANGED <<session, completed, disk>>

\* Blocks are only found when the signed file had some.
Computes(s, content) ==
  s \in Scripts /\ (content = "absent" => \A i \in DOMAIN s : s[i] = "literal")

\* Read the local file and start sending its delta; without the file, fail.
HandleSignatures(e) ==
  /\ Reads(e, "signatures")
  /\ Consume(e)
  /\ \/ /\ file[e] # "absent"
        /\ basis' = Head(chan[Peer(e)]).basis
        /\ \E s \in Scripts : Computes(s, basis') /\ delta' = s
        /\ sent' = 0
        /\ Goto(e, "send")
        /\ UNCHANGED <<dir, place, reset>>
     \/ file[e] = "absent" /\ Fail(e) /\ UNCHANGED session
  /\ UNCHANGED <<completed, writer, disk, events>>

SendDelta(e) ==
  /\ pc[e] = "send" /\ sent < Len(delta)
  /\ Put(e, Msg("delta", sent + 1, "absent"))
  /\ sent' = sent + 1
  /\ UNCHANGED <<dir, place, delta, basis, pc, completed, writer, disk, reset, events>>

\* Faults: Complete may overtake the last instruction; Complete is not sent.
SendCompleteEarly(e) ==
  /\ pc[e] = "send"
  /\ Put(e, Msg("complete", 0, "absent"))
  /\ Goto(e, "recv")
  /\ UNCHANGED <<session, completed, writer, disk, reset, events>>

SendCompleteForgotten(e) ==
  /\ pc[e] = "send" /\ sent = Len(delta)
  /\ Goto(e, "recv")
  /\ UNCHANGED <<session, chan, completed, writer, disk, reset, events>>

SendComplete(e) ==
  /\ pc[e] = "send" /\ sent = Len(delta)
  /\ Put(e, Msg("complete", 0, "absent"))
  /\ Goto(e, "recv")
  /\ UNCHANGED <<session, completed, writer, disk, reset, events>>

\* Fault: an instruction is dropped when the writer has no room for it.
HandleDeltaTry(e) ==
  /\ Reads(e, "delta")
  /\ Consume(e)
  /\ wq' = IF wpc[e] \in {"create", "recv"} /\ Len(wq[e]) < WriterCap
           THEN [wq EXCEPT ![e] = Append(@, Head(chan[Peer(e)]).index)] ELSE wq
  /\ UNCHANGED <<session, pc, reset, completed, wpc, cache, written, mixed, disk, events>>

\* Pass the instruction to the writer: wait for room, fail if the writer has
\* ended, and drop it silently if there is none.
HandleDelta(e) ==
  /\ Reads(e, "delta")
  /\ Consume(e)
  /\ \/ /\ wpc[e] \in {"create", "recv"}
        /\ Len(wq[e]) < WriterCap
        /\ wq' = [wq EXCEPT ![e] = Append(@, Head(chan[Peer(e)]).index)]
        /\ UNCHANGED <<pc, reset>>
     \/ wpc[e] = "none" /\ UNCHANGED <<wq, pc, reset>>
     \/ wpc[e] \notin {"none", "create", "recv"} /\ Fail(e) /\ UNCHANGED wq
  /\ UNCHANGED <<session, completed, wpc, cache, written, mixed, disk, events>>

\* Reply Complete, then drop writer_tx and tx and leave the loop.
HandleComplete(e) ==
  /\ Reads(e, "complete")
  /\ \/ /\ Reply(e, Msg("complete", 0, "absent"))
        /\ completed' = [completed EXCEPT ![e] = TRUE]
        /\ Goto(e, "sleep")
        /\ UNCHANGED reset
     \/ /\ reset \/ Ended(Peer(e))
        /\ Consume(e) /\ Fail(e)
        /\ UNCHANGED completed
  /\ UNCHANGED <<session, writer, disk, events>>

-----------------------------------------------------------------------------
(* Leaving the loop.                                                        *)

\* The peer dropped its sending side: the loop ends as if all were well.
EndOfStream(e) ==
  /\ pc[e] = "recv"
  /\ chan[Peer(e)] = <<>> /\ ~Held(Peer(e))
  /\ Goto(e, "sleep")
  /\ UNCHANGED <<session, chan, completed, writer, disk, reset, events>>

StreamError(e) ==
  /\ pc[e] = "recv" /\ reset
  /\ Fail(e)
  /\ UNCHANGED <<session, chan, completed, writer, disk, events>>

\* The 100 ms are over and the task returns Ok, whatever its writer does.
Wake(e) ==
  /\ pc[e] = "sleep"
  /\ Goto(e, "done")
  /\ reset' = (reset \/ e = "client")
  /\ UNCHANGED <<session, chan, completed, writer, disk, events>>

-----------------------------------------------------------------------------
(* delta_writer.  Its only signal is its channel: the task commits when the *)
(* channel is closed and drained, whoever closed it and why.                *)

\* Fault: the writer truncates the file itself and writes in place.
WriterCreateInPlace(e) ==
  /\ wpc[e] = "create"
  /\ wpc' = [wpc EXCEPT ![e] = "recv"]
  /\ file' = [file EXCEPT ![e] = "partial"]
  /\ UNCHANGED <<session, pc, chan, completed, wq, cache, written, mixed, mtime, reset, events>>

\* Fault: the writer reads the blocks itself, when it starts.
WriterCreateRereads(e) ==
  /\ wpc[e] = "create" /\ place # "blocked"
  /\ wpc' = [wpc EXCEPT ![e] = "recv"]
  /\ cache' = [cache EXCEPT ![e] = file[e]]
  /\ UNCHANGED <<session, pc, chan, completed, wq, written, mixed, disk, reset, events>>

\* File::create: no directory is ever made for the temporary file.
WriterCreate(e) ==
  /\ wpc[e] = "create"
  /\ \/ place # "blocked" /\ wpc' = [wpc EXCEPT ![e] = "recv"] /\ UNCHANGED events
     \/ /\ (place = "blocked" /\ UNCHANGED events) \/ Happens("diskError")
        /\ wpc' = [wpc EXCEPT ![e] = "failed"]
  /\ UNCHANGED <<session, pc, chan, completed, wq, cache, written, mixed, disk, reset>>

\* A block index is only right in the cache it was computed for; in another it
\* names other bytes, or none, as in an empty one (the task panics).
WriterApply(e) ==
  /\ wpc[e] = "recv" /\ wq[e] # <<>>
  /\ LET stale == delta[Head(wq[e])] = "block" /\ cache[e] # basis
     IN \/ /\ ~stale \/ cache[e] # "absent"
           /\ written' = [written EXCEPT ![e] = @ \cup {Head(wq[e])}]
           /\ mixed' = [mixed EXCEPT ![e] = @ \/ stale]
           /\ UNCHANGED <<wpc, events>>
        \/ /\ stale
           /\ wpc' = [wpc EXCEPT ![e] = "failed"]
           /\ UNCHANGED <<written, mixed, events>>
        \/ /\ Happens("diskError")
           /\ wpc' = [wpc EXCEPT ![e] = "failed"]
           /\ UNCHANGED <<written, mixed>>
  /\ wq' = [wq EXCEPT ![e] = Tail(@)]
  /\ UNCHANGED <<session, pc, chan, completed, cache, disk, reset>>

Outcome(e) ==
  IF written[e] # DOMAIN delta \/ delta = NoDelta THEN "partial"
  ELSE IF mixed[e] THEN "garbled" ELSE "new"

\* The channel is closed: flush the temporary file and rename it to the path,
\* or keep the old file where that fails.
WriterCommit(e) ==
  /\ wpc[e] = "recv" /\ wq[e] = <<>> /\ ~Held(e)
  /\ \/ /\ place # "taken"
        /\ wpc' = [wpc EXCEPT ![e] = "mtime"]
        /\ file' = [file EXCEPT ![e] = Outcome(e)]
        /\ mtime' = "now"
        /\ UNCHANGED events
     \/ /\ (place = "taken" /\ UNCHANGED events) \/ Happens("diskError")
        /\ wpc' = [wpc EXCEPT ![e] = "failed"]
        /\ UNCHANGED disk
  /\ UNCHANGED <<session, pc, chan, completed, wq, cache, written, mixed, reset>>

\* The blocking task that sets the modification time of the plan.
WriterSetMtime(e) ==
  /\ wpc[e] = "mtime"
  /\ wpc' = [wpc EXCEPT ![e] = "done"]
  /\ mtime' = "plan"
  /\ UNCHANGED <<session, pc, chan, completed, wq, cache, written, mixed, file, reset, events>>

-----------------------------------------------------------------------------
(* The environment.                                                         *)

ConnectionReset ==
  /\ Happens("reset") /\ reset' = TRUE
  /\ UNCHANGED <<session, pc, chan, completed, writer, disk>>

\* A user writes the receiver's file before it is replaced.
LocalEdit ==
  /\ mtime = "kept" /\ Happens("edit")
  /\ place = "free" \/ (place = "blocked" /\ file[Receiver] # "absent")
  /\ file' = [file EXCEPT ![Receiver] = "edited"]
  /\ UNCHANGED <<session, pc, chan, completed, writer, mtime, reset>>

\* A user removes the sender's file.
Vanish ==
  /\ file[Sender] = "new" /\ Happens("vanish")
  /\ file' = [file EXCEPT ![Sender] = "absent"]
  /\ UNCHANGED <<session, pc, chan, completed, writer, mtime, reset>>

\* The process of e stops: a crash at any point, or the client's manual mode
\* returning from main.  Its tasks, the delta writer included, stop with it.
Crash(e) ==
  /\ Happens("crash") /\ reset' = TRUE
  /\ pc[e] # "idle"
  /\ Goto(e, IF Ended(e) THEN pc[e] ELSE "failed")
  /\ wpc' = [wpc EXCEPT ![e] = IF @ \in {"create", "recv", "mtime"} THEN "killed" ELSE @]
  /\ UNCHANGED <<session, chan, completed, wq, cache, written, mixed, disk>>

-----------------------------------------------------------------------------
Task(e) ==
  \/ SendError(e) \/ HandleSignatures(e) \/ SendDelta(e) \/ SendComplete(e)
  \/ HandleDelta(e) \/ HandleComplete(e)
  \/ EndOfStream(e) \/ StreamError(e) \/ Wake(e)

Client == Call \/ CallRejected \/ SendAction \/ SendSignatures \/ PrepareWriter \/ Task("client")
Server == HandleFileAction \/ Task("server")
Writer(e) == WriterCreate(e) \/ WriterApply(e) \/ WriterCommit(e) \/ WriterSetMtime(e)
Environment == ConnectionReset \/ LocalEdit \/ Vanish \/ \E e \in Endpoint : Crash(e)

Next == Client \/ Server \/ (\E e \in Endpoint : Writer(e)) \/ Environment

Spec == Init /\ [][Next]_vars

\* The runtime polls every task that can make progress; nothing is assumed of
\* the network, the disk or the users.
Fairness ==
  /\ WF_vars(Client) /\ WF_vars(Server)
  /\ \A e \in Endpoint : WF_vars(Writer(e))

FairSpec == Spec /\ Fairness
-----------------------------------------------------------------------------
(* Properties.                                                              *)

\* A receiver that has handled Complete never leaves a part of the file at the
\* path: Complete comes after the last instruction on the stream, and the
\* writer drains its queue before it renames (handler.rs:56, writer.rs:39-70).
CompleteImpliesWhole ==
  completed[Receiver] => file[Receiver] # "partial"

\* The file of a machine that is the source of the transfer is never written by
\* it, whatever fails on the way: only the receiving side ever has a delta
\* writer (handler.rs:30-43, client.rs:329).
SourceUntouched == [][file'[Sender] \in {file[Sender], "absent"}]_vars

\* Blocks are only mixed up when a Download's local file was edited between the
\* read that is signed (client.rs:309) and the read that is cached
\* (client.rs:333); an Upload uses one read for both (handler.rs:37).
GarbledOnlyByRace ==
  (\E e \in Endpoint : file[e] = "garbled" \/ mixed[e])
    => dir = "Download" /\ "edit" \in events

\* No instruction reaches a side that has no delta writer, where it would be
\* dropped without an error (handler.rs:52): the writer is there before the
\* signatures that ask for instructions can be answered and read.
NoDeltaDropped ==
  \A e \in Endpoint : Reads(e, "delta") => wpc[e] # "none"

\* What disturbs a transfer: an edit of the receiver's file does not hurt an
\* Upload, whose receiver reads it once.
Disturbed == events \ (IF dir = "Upload" THEN {"edit"} ELSE {}) # {}

\* An undisturbed transfer of a file its sender has ends with the whole content
\* and the planned modification time on the receiver, wherever a temporary file
\* can be made and renamed (writer.rs:36, writer.rs:70).
Delivered ==
  <>(\/ Disturbed \/ dir = "Skip" \/ place # "free" \/ file[Sender] = "absent"
     \/ (file[Receiver] = "new" /\ mtime = "plan"))

\* A transfer without disturbance delivers the file or does nothing, and only
\* the state of the target decides which: when the client has returned and the
\* writer has stopped, a free target holds the whole content with the planned
\* time, and any other is as it was, although the session may well have
\* succeeded (handler.rs:19-66, writer.rs:36-80).
DeliveredAtEnd ==
  /\ Ended("client") /\ wpc[Receiver] \in {"none", "done", "failed", "killed"}
  /\ ~Disturbed /\ dir # "Skip" /\ file[Sender] # "absent"
  => IF place = "free" THEN file[Receiver] = "new" /\ mtime = "plan"
                       ELSE file[Receiver] \in {"absent", "old", "edited"} /\ mtime = "kept"

\* A client that could not sign its file goes on regardless (client.rs:309), and
\* nobody speaks any more.
Unsigned == dir = "Download" /\ (place = "taken" \/ "unreadable" \in events)

\* Every session of a Download or Upload ends: both tasks return and every
\* writer stops, under every reset, crash and disk error, unless nothing was
\* signed.
SessionEnds ==
  <>(\/ dir = "Skip" \/ Unsigned
     \/ /\ Ended("client") /\ pc["server"] \in Final \cup {"idle"}
        /\ \A e \in Endpoint : wpc[e] \in {"none", "done", "failed", "killed"})

\* The transfer implements the replacement of a file (FileReplace).
Replace == INSTANCE FileReplace WITH
  target <- file[Receiver],
  replaced <- mtime # "kept",
  interrupted <- pc[Receiver] \in Final \cup {"sleep"} /\ ~completed[Receiver],
  edited <- "edit" \in events

ReplacesFile == Replace!Spec

\* README.md:77 calls a manual sync one-off, and client.rs:257 joins every
\* sync_file task before a sync is over: every sync_file returns.
SyncFileReturns == <>Ended("client")

\* client.rs:380 and server.rs:206: a task that has handled Complete does not
\* return before its writer has flushed the file.
FlushedBeforeReturn ==
  \A e \in Endpoint :
    completed[e] /\ pc[e] = "done" => wpc[e] \notin {"create", "recv"}
=============================================================================
