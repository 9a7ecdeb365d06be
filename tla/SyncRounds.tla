----------------------------- MODULE SyncRounds -----------------------------
(***************************************************************************)
(* Synchronisation rounds between one client and the server: run_sync with *)
(* its scan, report, transfers and save, the server's planning, the users  *)
(* of both machines editing at any time, and processes that stop and start *)
(* again.  A transfer is one step here, with the outcomes FileSync shows   *)
(* it to have: the file is replaced by what the source holds, not at all,  *)
(* by a part of it or by a mixture; its writer may be done after its task, *)
(* and a task may wait for ever.                                           *)
(***************************************************************************)
EXTENDS SyncPlan

CONSTANTS
  Permits,   \* transfers at a time (10)
  Start,     \* the contents 2..Start exist before the first round, 1 is the empty one
  MaxClock,  \* bounds what the users do
  Events     \* what may go wrong, each at most once

ASSUME PermitsAssumption == Permits \in Nat \ {0}
ASSUME ClockAssumption == MaxClock \in Nat /\ Start \in Nat \ {0}
ASSUME EventsAssumption ==
  Events \subseteq {"offline", "kill", "restart", "fail", "late", "remove"}

VARIABLES
  tree,     \* tree[side]: the files under the sync root
  saved,    \* the client's state.json; Corrupt if its write was cut short
  phase,    \* where run_sync is
  now,      \* the client's scan of this round
  report,   \* the changes reported to the server
  local,    \* the server's scan of this round
  plan,     \* the server's plan
  stage,    \* stage[p]: where the transfer of p is
  late,     \* writes left to delta writers whose tasks have returned
  session,  \* the server knows the session of this round
  clock,    \* the time, and the last content made
  touched,  \* touched[side]: paths its users wrote since its scan
  settled,  \* contents the server has held, and the client's scanned ones of the
            \* transfers that ended well and wrote nothing
  events    \* what went wrong so far

round == <<now, report, local, plan>>
ghosts == <<touched, settled>>
vars == <<tree, saved, phase, now, report, local, plan, stage, late, session,
          clock, touched, settled, events>>

Side == {"client", "server"}
Corrupt == [p \in {} |-> NoFile]
EmptyHash == 1  \* of the empty file
NoPlan == [p \in {} |-> Action("Skip", 0)]
NoReport == [p \in {} |-> NoFile]
NoStage == [p \in Path |-> "none"]
Write == [side : Side, path : Path, version : Version]

Target(p) == IF plan[p].direction = "Upload" THEN "server" ELSE "client"
Source(p) == IF plan[p].direction = "Upload" THEN "client" ELSE "server"
In(s) == {p \in Path : stage[p] = s}
\* The transfers that hold a permit.
Begun == {p \in Path : stage[p] \in {"active", "hung"}}
Phases == {"idle", "stat", "call", "serverStat", "transfer", "save", "write"}

TypeOK ==
  /\ tree \in [Side -> Tree]
  /\ saved \in Tree \cup {Corrupt}
  /\ phase \in Phases
  /\ now \in Tree /\ local \in Tree
  /\ DOMAIN report \subseteq Path /\ \A p \in DOMAIN report : report[p] \in Version
  /\ DOMAIN plan \subseteq Path /\ \A p \in DOMAIN plan : plan[p] \in FileAction
  /\ stage \in [Path -> {"none", "todo", "active", "hung", "kept", "done"}]
  /\ Cardinality(Begun) <= Permits
  /\ late \subseteq Write
  /\ session \in BOOLEAN
  /\ clock \in Nat
  /\ touched \in [Side -> SUBSET Path]
  /\ settled \subseteq Nat
  /\ events \subseteq Events

\* Before the first round: the files of both sides are unrelated, or the same.
Init ==
  /\ tree \in [Side -> [Path -> {NoFile} \cup {[hash |-> h, ts |-> h - 1] : h \in 2..Start}]]
  /\ saved = EmptyTree
  /\ phase = "idle"
  /\ now = EmptyTree /\ local = EmptyTree
  /\ report = NoReport /\ plan = NoPlan
  /\ stage = NoStage
  /\ late = {}
  /\ session = FALSE
  /\ clock = Start
  /\ touched = [s \in Side |-> {}]
  /\ settled = {tree["server"][p].hash : p \in Path}
  /\ events = {}

Happens(ev) == ev \in Events \ events /\ events' = events \cup {ev}

-----------------------------------------------------------------------------
(* run_sync: load the last state and scan the files.  The scan of a file is *)
(* two steps, its content and then its time.                                *)

StartSync ==
  /\ phase = "idle" /\ saved # Corrupt
  /\ phase' = "stat"
  /\ now' = [p \in Path |-> [hash |-> tree["client"][p].hash, ts |-> 0]]
  /\ touched' = [touched EXCEPT !["client"] = {}]
  /\ UNCHANGED <<tree, saved, report, local, plan, stage, late, session, clock, settled, events>>

\* The round fails: the error is logged and nothing is saved.
GiveUp ==
  /\ phase' = "idle"
  /\ report' = NoReport /\ plan' = NoPlan /\ stage' = NoStage
  /\ now' = EmptyTree /\ local' = EmptyTree
  /\ touched' = [side \in Side |-> {}]
  /\ session' = FALSE

Stat(scan, t) == [p \in Path |-> IF scan[p].hash = 0 THEN NoFile
                                 ELSE [scan[p] EXCEPT !.ts = t[p].ts]]
Vanished(scan, t) == \E p \in Present(scan) : t[p].hash = 0

ScanStat ==
  /\ phase = "stat"
  /\ \/ /\ ~Vanished(now, tree["client"])
        /\ now' = Stat(now, tree["client"])
        /\ report' = CompareStates(saved, now')
        /\ phase' = "call"
        /\ UNCHANGED <<local, plan, stage, session, touched>>
     \/ Vanished(now, tree["client"]) /\ GiveUp
  /\ UNCHANGED <<tree, saved, late, clock, settled, events>>

-----------------------------------------------------------------------------
(* harmonize_client_initiate_sync.                                          *)

InitiateSync ==
  /\ phase = "call"
  /\ phase' = "serverStat"
  /\ local' = [p \in Path |-> [hash |-> tree["server"][p].hash, ts |-> 0]]
  /\ touched' = [touched EXCEPT !["server"] = {}]
  /\ UNCHANGED <<tree, saved, now, report, plan, stage, late, session, clock, settled, events>>

\* Fault: the server plans for its own files only.
MakePlanLocal ==
  /\ phase = "serverStat" /\ ~Vanished(local, tree["server"])
  /\ local' = Stat(local, tree["server"])
  /\ plan' = [p \in Present(local') |-> PlanFor(local'[p], IF p \in DOMAIN report THEN report[p] ELSE NoFile)]
  /\ stage' = [p \in Path |-> IF p \in DOMAIN plan' THEN "todo" ELSE "none"]
  /\ session' = TRUE
  /\ phase' = "transfer"
  /\ UNCHANGED <<tree, saved, now, report, late, clock, ghosts, events>>

MakePlan ==
  /\ phase = "serverStat"
  /\ \/ /\ ~Vanished(local, tree["server"])
        /\ local' = Stat(local, tree["server"])
        /\ plan' = GenerateSyncPlan(local', report)
        /\ stage' = [p \in Path |-> IF p \in DOMAIN plan' THEN "todo" ELSE "none"]
        /\ session' = TRUE
        /\ phase' = "transfer"
        /\ UNCHANGED <<now, report, touched>>
     \/ Vanished(local, tree["server"]) /\ GiveUp
  /\ UNCHANGED <<tree, saved, late, clock, settled, events>>

\* The server cannot be reached, or the answer is lost.
Offline ==
  /\ phase \in {"call", "serverStat"} /\ Happens("offline")
  /\ GiveUp
  /\ UNCHANGED <<tree, saved, late, clock, settled>>

-----------------------------------------------------------------------------
(* send_data_to_server: one task per action, in the order of the plan, as   *)
(* permits allow.                                                           *)

\* Faults: no limit; one permit less than there are.
BeginUnlimited(p) ==
  /\ phase = "transfer" /\ stage[p] = "todo"
  /\ \A q \in In("todo") : p <= q
  /\ stage' = [stage EXCEPT ![p] = IF session THEN "active" ELSE "done"]
  /\ UNCHANGED <<tree, saved, phase, round, late, session, clock, ghosts, events>>

BeginOneShort(p) ==
  /\ phase = "transfer" /\ stage[p] = "todo"
  /\ \A q \in In("todo") : p <= q
  /\ Cardinality(Begun) < Permits - 1
  /\ stage' = [stage EXCEPT ![p] = IF session THEN "active" ELSE "done"]
  /\ UNCHANGED <<tree, saved, phase, round, late, session, clock, ghosts, events>>

\* A server that was restarted does not know the session: the call is refused.
Begin(p) ==
  /\ phase = "transfer" /\ stage[p] = "todo"
  /\ \A q \in In("todo") : p <= q
  /\ Cardinality(Begun) < Permits
  /\ stage' = [stage EXCEPT ![p] = IF session THEN "active" ELSE "done"]
  /\ UNCHANGED <<tree, saved, phase, round, late, session, clock, ghosts, events>>

Put(side, p, version) ==
  /\ tree' = [tree EXCEPT ![side][p] = version]
  /\ settled' = IF side = "server" THEN settled \cup {version.hash} ELSE settled

\* What p's receiver ends up with: the content the source has now, and nothing
\* of it if the source has no file (the writer commits an empty file).
Sent(p) ==
  [hash |-> IF tree[Source(p)][p].hash = 0 THEN EmptyHash ELSE tree[Source(p)][p].hash,
   ts |-> plan[p].ts]

Active(p) == phase = "transfer" /\ p \in Begun
\* Nobody answers a Skip or a client that has signed nothing, and such a task
\* waits for as long as the stream lives.
Hanging(p) == Active(p) /\ (stage[p] = "hung" \/ plan[p].direction = "Skip")
Running(p) == Active(p) /\ ~Hanging(p)

\* A Download whose local file cannot be signed (it cannot be read, or a
\* directory has its name): the error is ignored.
Hang(p) ==
  /\ Running(p) /\ session /\ plan[p].direction = "Download"
  /\ stage' = [stage EXCEPT ![p] = "hung"]
  /\ UNCHANGED <<tree, saved, phase, round, late, session, clock, ghosts, events>>

Transfer(p) ==
  /\ Running(p) /\ session
  /\ stage' = [stage EXCEPT ![p] = "done"]
  /\ Put(Target(p), p, Sent(p))
  /\ UNCHANGED <<saved, phase, round, late, session, clock, touched, events>>

\* The session is over without an error, and the receiver has written nothing:
\* the directory of the file is missing, or the server could not sign it.
TransferKept(p) ==
  /\ Running(p) /\ session
  /\ stage' = [stage EXCEPT ![p] = "kept"]
  /\ settled' = settled \cup {now[p].hash}
  /\ UNCHANGED <<tree, saved, phase, round, late, session, clock, touched, events>>

\* The client's file was written while it was signed: blocks are mixed up.
TransferGarbled(p) ==
  /\ Running(p) /\ session
  /\ plan[p].direction = "Download" /\ p \in touched["client"]
  /\ stage' = [stage EXCEPT ![p] = "done"]
  /\ clock' = clock + 1
  /\ Put("client", p, [hash |-> clock', ts |-> plan[p].ts])
  /\ UNCHANGED <<saved, phase, round, late, session, touched, events>>

\* The task has returned before its writer has renamed the file.
TransferLate(p) ==
  /\ Running(p) /\ session /\ Happens("late")
  /\ stage' = [stage EXCEPT ![p] = "done"]
  /\ late' = late \cup {[side |-> Target(p), path |-> p, version |-> Sent(p)]}
  /\ UNCHANGED <<tree, saved, phase, round, session, clock, ghosts>>

Land ==
  \E w \in late :
    /\ Put(w.side, w.path, w.version)
    /\ late' = late \ {w}
    /\ UNCHANGED <<saved, phase, round, stage, session, clock, touched, events>>

\* The streams of the paths P break: their receivers keep their files, or get a
\* part of the new ones.
Cut(P) ==
  \/ UNCHANGED <<tree, settled, clock>>
  \/ \E T \in SUBSET {p \in P : plan[p].direction # "Skip"} :
       /\ T # {}
       /\ clock' = clock + 1
       /\ tree' = [side \in Side |-> [p \in Path |->
                     IF p \in T /\ Target(p) = side
                     THEN [hash |-> clock', ts |-> plan[p].ts] ELSE tree[side][p]]]
       /\ settled' = settled \cup {tree'["server"][p].hash : p \in T}

\* Fault: a task does not notice that the server is gone.
BreakUnnoticed(p) ==
  /\ Active(p)
  /\ Happens("fail") /\ Cut({p})
  /\ stage' = [stage EXCEPT ![p] = "done"]
  /\ UNCHANGED <<saved, phase, round, late, session, touched>>

\* The error is logged; the round goes on.  A server that has stopped took its
\* own writers with it.
Break(p) ==
  /\ Active(p)
  /\ \/ Happens("fail") /\ Cut({p})
     \/ ~session /\ Cut({p} \cap {q \in Path : Target(q) = "client"}) /\ UNCHANGED events
  /\ stage' = [stage EXCEPT ![p] = "done"]
  /\ UNCHANGED <<saved, phase, round, late, session, touched>>

-----------------------------------------------------------------------------
(* The end of run_sync: the scan made before the transfers is saved, however *)
(* they went.                                                               *)

AllDone ==
  /\ phase = "transfer" /\ In("todo") = {} /\ Begun = {}
  /\ phase' = "save"
  /\ UNCHANGED <<tree, saved, round, stage, late, session, clock, ghosts, events>>

\* fs::write truncates the file, then writes it.
SaveOpen ==
  /\ phase = "save"
  /\ phase' = "write" /\ saved' = Corrupt
  /\ UNCHANGED <<tree, round, stage, late, session, clock, ghosts, events>>

\* Fault: the files are scanned again for the state to save.
SaveWriteFresh ==
  /\ phase = "write"
  /\ saved' = Reloaded(tree["client"])
  /\ GiveUp
  /\ UNCHANGED <<tree, late, clock, settled, events>>

SaveWrite ==
  /\ phase = "write"
  /\ saved' = Reloaded(now)
  /\ GiveUp
  /\ UNCHANGED <<tree, late, clock, settled, events>>

-----------------------------------------------------------------------------
(* The users and the processes.                                             *)

Tick == clock < MaxClock /\ clock' = clock + 1

\* A new content; its time is the present unless a tool sets it back.
Edit(side, p) ==
  /\ Tick
  /\ \E t \in 1..clock' : Put(side, p, [hash |-> clock', ts |-> t])
  /\ touched' = [touched EXCEPT ![side] = @ \cup {p}]
  /\ UNCHANGED <<saved, phase, round, stage, late, session, events>>

Remove(side, p) ==
  /\ Happens("remove")
  /\ tree[side][p].hash # 0 /\ Put(side, p, NoFile)
  /\ touched' = [touched EXCEPT ![side] = @ \cup {p}]
  /\ UNCHANGED <<saved, phase, round, stage, late, session, clock>>

\* The client stops: its writers stop, and the server's writers of the uploads
\* under way commit what they have.
Kill ==
  /\ Happens("kill")
  /\ late' = {w \in late : w.side = "server"}
  /\ Cut({p \in Path : Running(p) /\ Target(p) = "server"})
  /\ GiveUp
  /\ UNCHANGED <<saved>>

ServerRestart ==
  /\ Happens("restart")
  /\ late' = {w \in late : w.side = "client"}
  /\ \/ phase = "serverStat" /\ GiveUp
     \/ /\ phase # "serverStat" /\ session' = FALSE
        /\ UNCHANGED <<phase, round, stage, touched>>
  /\ UNCHANGED <<tree, saved, clock, settled>>

-----------------------------------------------------------------------------
RunSync == StartSync \/ ScanStat \/ AllDone \/ SaveOpen \/ SaveWrite
Plan == InitiateSync \/ MakePlan
Spawn == \E p \in Path : Begin(p)
SyncFile(p) ==
  Transfer(p) \/ TransferKept(p) \/ TransferGarbled(p) \/ TransferLate(p) \/ Break(p)
Users == \E side \in Side, p \in Path : Edit(side, p) \/ Remove(side, p)

Next ==
  \/ RunSync \/ Plan \/ Offline \/ Spawn \/ (\E p \in Path : SyncFile(p) \/ Hang(p)) \/ Land
  \/ Users \/ Kill \/ ServerRestart

Spec == Init /\ [][Next]_vars

\* A round that has started goes on; nothing starts one, and nothing breaks a
\* stream whose two ends are alive.
Fairness ==
  /\ WF_vars(phase # "idle" /\ RunSync) /\ WF_vars(Plan) /\ WF_vars(Spawn)
  /\ \A p \in Path : WF_vars((Running(p) \/ ~session) /\ SyncFile(p))

FairSpec == Spec /\ Fairness
-----------------------------------------------------------------------------
(* Properties.                                                              *)

Quiet(evs) == events \cap evs = {}

\* A version a client's user made stays a change of the client against its
\* saved state, so every later round reports it, until the server has had it or
\* a round that scanned it has ended its transfer well and written nothing: the
\* saved state is the scan made before the transfers, not the files after them
\* (client.rs:155, client.rs:188).  Failed transfers break it too, for the scan
\* is saved all the same.
ChangesStayReported ==
  phase = "idle" /\ saved # Corrupt /\ Quiet({"fail", "restart", "late"}) =>
    \A p \in Path :
      tree["client"][p].hash \notin settled \cup {0} => p \in Changed(saved, tree["client"])

\* A sync replaces a version only by a newer one, unless it is one of the client
\* that the server has had or that an earlier transfer settled by writing nothing:
\* true of both sides when no transfer failed, and of a file no user wrote since
\* its side was scanned (state.rs:276-294, client.rs:157).
NewestWins ==
  [][\A side \in Side, p \in Path :
       /\ tree'[side][p].hash # tree[side][p].hash
       /\ p \notin touched[side] \cup touched'[side]
       /\ Quiet({"fail", "restart", "late"})
       => \/ tree[side][p].hash = 0
          \/ tree'[side][p].ts > tree[side][p].ts
          \/ side = "client" /\ tree[side][p].hash \in settled]_vars

\* On the server it holds whatever fails, except for a write left behind by an
\* earlier round: a plan only uploads what is newer, and even a broken upload
\* carries the newer time (state.rs:281-285, writer.rs:74).
NewestOnServer ==
  [][\A p \in Path :
       /\ tree'["server"][p].hash # tree["server"][p].hash
       /\ p \notin touched["server"] \cup touched'["server"]
       /\ Quiet({"late"})
       => tree["server"][p].hash = 0 \/ tree'["server"][p].ts > tree["server"][p].ts]_vars

\* When all transfers of a round nobody disturbed are over, both sides hold the
\* same contents.  The exceptions are a file whose receiver wrote nothing although
\* the session ended well (writer.rs:36), and what a report cannot say
\* (state.rs:71-86): a file the client has removed, and one it has not changed
\* and the server has no more.
CleanRoundAgrees ==
  /\ phase = "save" /\ late = {}
  /\ \A side \in Side : touched[side] = {}
  /\ Quiet({"fail", "restart", "late"})
  => \A p \in Path :
       \/ tree["client"][p].hash = tree["server"][p].hash
       \/ stage[p] = "kept"
       \/ p \in DOMAIN report /\ now[p].hash = 0
       \/ p \notin DOMAIN report /\ local[p].hash = 0

\* A round ends, whatever fails, unless one of its transfers waits for ever: a
\* Skip, which nobody answers, or a Download whose file could not be signed
\* (client.rs:257, client.rs:309).
RoundEnds ==
  phase # "idle" ~> phase = "idle" \/ \E p \in DOMAIN plan : Hanging(p)

\* Every action of a plan gets its turn, unless transfers that wait for ever
\* hold all the permits (client.rs:240-247, client.rs:309).
EveryPathTried ==
  \A p \in Path :
    stage[p] = "todo" ~>
      stage[p] # "todo" \/ Cardinality({q \in DOMAIN plan : Hanging(q)}) >= Permits

\* README.md:67: timestamps decide what needs synchronisation.  A file nobody
\* wrote since the scan is never replaced by an older one.
OlderNeverWins ==
  [][\A p \in Path :
       /\ tree'["client"][p].hash # tree["client"][p].hash
       /\ p \notin touched["client"] \cup touched'["client"]
       => tree'["client"][p].ts >= tree["client"][p].ts]_vars
=============================================================================
