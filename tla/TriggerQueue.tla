---------------------------- MODULE TriggerQueue ----------------------------
(***************************************************************************)
(* What makes the client run a synchronisation round: the main loop, the   *)
(* file system watcher and the scheduler, three tasks that share QUEUE     *)
(* behind a tokio Mutex.  The Mutex serves its waiters in order, so it is  *)
(* the sequence of the tasks that asked for it: the first one holds it.    *)
(*                                                                         *)
(* The watcher adds up the weights of the changes notify reports and asks  *)
(* for a round when they pass the threshold.  A round is one step here (it *)
(* is what SyncRounds and FileSync model); what matters is when it starts, *)
(* how it ends, and that the files it writes are changes as well.          *)
(***************************************************************************)
EXTENDS Integers, Sequences

CONSTANTS
  ModifyWeight, RemoveWeight, CreateWeight,  \* config.toml
  Threshold,      \* sync_threshold
  Quiet,          \* what a round without downloads may do to the watched tree
  Download,       \* what a round with downloads does to it
  MaxChanges,     \* bound: changes by the user
  MaxDownloads,   \* bound: rounds with downloads
  MaxEvents,      \* bound: events not taken by the watcher yet
  MaxQueue        \* bound: a queue this long does not grow any more

Kind == {"modify", "remove", "create", "access", "error"}

ASSUME WeightsAssumption ==
  {ModifyWeight, RemoveWeight, CreateWeight, Threshold} \subseteq Nat
ASSUME RoundEventsAssumption == Quiet \in Seq(Kind) /\ Download \in Seq(Kind)
ASSUME BoundsAssumption ==
  /\ {MaxChanges, MaxDownloads, MaxEvents, MaxQueue} \subseteq Nat
  /\ MaxQueue > 1

VARIABLES
  flags,      \* the tasks asked for on the command line
  pc,         \* where each task is
  lock,       \* the tasks that asked for QUEUE: the first one holds it
  queue,      \* length of QUEUE
  rx,         \* events the watcher has not taken yet
  score,      \* change_score
  cert,       \* the certificate is cached: get_cert cannot panic any more
  changes,    \* changes by the user so far
  downloads,  \* rounds with downloads so far
  unserved,   \* history: a request was queued since a round last started
  unseen      \* history: weight of the user's changes reported since then

watch == <<rx, score>>
vars == <<flags, pc, lock, queue, rx, score, cert, changes, downloads, unserved, unseen>>

Task == {"main", "watcher", "scheduler"}
Place == {"off", "start", "listen", "want", "wait", "tick", "round", "hung", "exited"}

\* Only modifications, removals and creations count (calculate_change_score).
ChangeScore(kind) ==
  CASE kind = "modify" -> ModifyWeight
    [] kind = "remove" -> RemoveWeight
    [] kind = "create" -> CreateWeight
    [] OTHER -> 0

Goto(t, l) == pc' = [pc EXCEPT ![t] = l]

Init ==
  /\ flags \in SUBSET {"watcher", "scheduler"}
  /\ pc = [t \in Task |-> CASE t = "main" -> IF flags = {} THEN "round" ELSE "want"
                            [] t \notin flags \cup {"main"} -> "off"
                            [] t = "watcher" -> "start"
                            [] t = "scheduler" -> "want"]
  /\ lock = <<>> /\ queue = 0
  /\ rx = <<>> /\ score = 0
  /\ cert = FALSE
  /\ changes = 0 /\ downloads = 0
  /\ unserved = FALSE /\ unseen = 0

-----------------------------------------------------------------------------
\* The queue's lock.

Ask(t) ==
  /\ pc[t] = "want"
  /\ Goto(t, "wait")
  /\ lock' = Append(lock, t)
  /\ UNCHANGED <<flags, queue, watch, cert, changes, downloads, unserved, unseen>>

Has(t) == pc[t] = "wait" /\ Head(lock) = t

Push ==
  /\ queue' = IF queue < MaxQueue THEN queue + 1 ELSE queue
  /\ lock' = Tail(lock)
  /\ unserved' = TRUE

-----------------------------------------------------------------------------
\* The main loop.

Start(newQueue, newLock) ==
  /\ Has("main") /\ queue > 0
  /\ queue' = newQueue
  /\ lock' = newLock
  /\ Goto("main", "round")
  /\ unserved' = FALSE /\ unseen' = 0
  /\ UNCHANGED <<flags, watch, cert, changes, downloads>>

\* Faulty: the guard is kept over the round; one request of several is taken;
\* the request is looked at, not taken.
StartRoundLocked == Start(0, lock)
StartRoundPop == Start(queue - 1, Tail(lock))
StartRoundPeek == Start(queue, Tail(lock))

\* All the requests in the queue are served by one round, which starts when the
\* queue is unlocked.
StartRound == Start(0, Tail(lock))

\* The guard lives to the end of the loop's body: it is kept over the tick.
NothingQueued ==
  /\ Has("main") /\ queue = 0
  /\ Goto("main", "tick")
  /\ UNCHANGED <<flags, lock, queue, watch, cert, changes, downloads, unserved, unseen>>

MainTick ==
  /\ pc["main"] = "tick"
  /\ Goto("main", "want")
  /\ lock' = IF lock # <<>> /\ Head(lock) = "main" THEN Tail(lock) ELSE lock
  /\ UNCHANGED <<flags, queue, watch, cert, changes, downloads, unserved, unseen>>

\* The process ends, and its tasks with it.
Exit == pc' = [t \in Task |-> "exited"] /\ lock' = <<>>

Watching == pc["watcher"] \in {"listen", "want", "wait"}

End(own, newQueue) ==
  /\ pc["main"] = "round"
  /\ own = Download => downloads < MaxDownloads
  /\ own # <<>> => Len(rx) + Len(own) <= MaxEvents
  /\ downloads' = IF own = Download THEN downloads + 1 ELSE downloads
  /\ rx' = IF Watching THEN rx \o own ELSE rx
  /\ cert' = TRUE
  /\ queue' = newQueue
  /\ IF flags = {} THEN Exit ELSE Goto("main", "tick") /\ lock' = lock
  /\ UNCHANGED <<flags, score, changes, unserved, unseen>>

\* Faulty: the requests are cleared when the round is over.
RoundEndsClearing(own) == End(own, 0)

\* A round that succeeds or fails: errors are logged, the loop goes on.
RoundEnds(own) == End(own, queue)

\* get_cert panics when there is no certificate to be had.
RoundPanics ==
  /\ pc["main"] = "round" /\ ~cert
  /\ Exit
  /\ UNCHANGED <<flags, queue, watch, cert, changes, downloads, unserved, unseen>>

\* A round that waits for a file session that never ends (see FileSync).
RoundHangs ==
  /\ pc["main"] = "round"
  /\ Goto("main", "hung")
  /\ cert' = TRUE
  /\ UNCHANGED <<flags, lock, queue, watch, changes, downloads, unserved, unseen>>

-----------------------------------------------------------------------------
\* The watcher.

WatcherStarts ==
  /\ pc["watcher"] = "start"
  /\ \E l \in {"listen", "off"} : Goto("watcher", l)
  /\ UNCHANGED <<flags, lock, queue, watch, cert, changes, downloads, unserved, unseen>>

\* An event that is an error ends the loop, and the task.
WatcherFails ==
  /\ pc["watcher"] = "listen" /\ rx # <<>> /\ Head(rx) = "error"
  /\ Goto("watcher", "off")
  /\ UNCHANGED <<flags, lock, queue, watch, cert, changes, downloads, unserved, unseen>>

Take(newScore) ==
  /\ pc["watcher"] = "listen" /\ rx # <<>> /\ Head(rx) # "error"
  /\ rx' = Tail(rx)
  /\ score' = newScore
  /\ Goto("watcher", IF newScore > Threshold THEN "want" ELSE "listen")
  /\ UNCHANGED <<flags, lock, queue, cert, changes, downloads, unserved, unseen>>

\* Faulty: only the last event counts.
TakeLast == Take(ChangeScore(Head(rx)))

TakeEvent == Take(score + ChangeScore(Head(rx)))

PushLeaving(newScore) ==
  /\ Has("watcher")
  /\ Push
  /\ score' = newScore
  /\ Goto("watcher", "listen")
  /\ UNCHANGED <<flags, rx, cert, changes, downloads, unseen>>

\* Faulty: the score is not cleared.
WatcherPushAgain == PushLeaving(score)

WatcherPush == PushLeaving(0)

-----------------------------------------------------------------------------
\* The scheduler: a request at once, then one per tick.

SchedulerPush ==
  /\ Has("scheduler")
  /\ Push
  /\ Goto("scheduler", "tick")
  /\ UNCHANGED <<flags, watch, cert, changes, downloads, unseen>>

SchedulerTick ==
  /\ pc["scheduler"] = "tick"
  /\ Goto("scheduler", "want")
  /\ UNCHANGED <<flags, lock, queue, watch, cert, changes, downloads, unserved, unseen>>

-----------------------------------------------------------------------------
\* The user changes a file below the watched path, or notify reports an error.
Change(kind) ==
  /\ Watching /\ changes < MaxChanges /\ Len(rx) < MaxEvents
  /\ rx' = Append(rx, kind)
  /\ changes' = changes + 1
  /\ unseen' = unseen + ChangeScore(kind)
  /\ UNCHANGED <<flags, pc, lock, queue, score, cert, downloads, unserved>>

MainStep ==
  \/ Ask("main") \/ StartRound \/ NothingQueued \/ MainTick
  \/ \E own \in {<<>>, Quiet, Download} : RoundEnds(own)
  \/ RoundPanics \/ RoundHangs
WatcherStep ==
  Ask("watcher") \/ WatcherStarts \/ WatcherFails \/ TakeEvent \/ WatcherPush
SchedulerStep == Ask("scheduler") \/ SchedulerPush \/ SchedulerTick

Next == MainStep \/ WatcherStep \/ SchedulerStep \/ \E kind \in Kind : Change(kind)

Spec == Init /\ [][Next]_vars

\* The runtime runs every task that can go on, and the intervals tick; nothing
\* is promised of the user.
Fairness == WF_vars(MainStep) /\ WF_vars(WatcherStep) /\ WF_vars(SchedulerStep)

FairSpec == Spec /\ Fairness

-----------------------------------------------------------------------------
\* The shape of the state: whoever waits has asked once, the score passes the
\* threshold only while a request is on its way (client.rs:422-425).
TypeOK ==
  /\ flags \subseteq {"watcher", "scheduler"}
  /\ pc \in [Task -> Place]
  /\ lock \in Seq(Task) /\ queue \in 0..MaxQueue
  /\ rx \in Seq(Kind) /\ score \in Nat
  /\ cert \in BOOLEAN /\ unserved \in BOOLEAN
  /\ changes \in 0..MaxChanges /\ downloads \in 0..MaxDownloads /\ unseen \in Nat
  /\ score > Threshold => pc["watcher"] \in {"want", "wait", "exited"}

\* The debounce never swallows a change for good: when the watcher has taken
\* every event and no request is queued, what the user changed since the last
\* round started weighs no more than the threshold (client.rs:418-426).
DebounceBound ==
  pc["watcher"] = "listen" /\ rx = <<>> /\ queue = 0 => unseen <= Threshold

\* During a round nobody has to wait for the main loop: it gave the queue back
\* before the round started, and whoever holds it is about to push
\* (client.rs:104-113).
QueueFreeInRound ==
  pc["main"] \in {"round", "hung"} =>
    \A i \in 1..Len(lock) : lock[i] # "main" /\ pc[lock[i]] = "wait"

\* Requests collapse: a round serves all the requests queued before it, so that
\* none starts without a request made since the last one (client.rs:105-106).
Collapses == [][pc["main"] # "round" /\ pc'["main"] = "round" => unserved]_vars

\* Changes that weigh more than the threshold get a round that starts after
\* them, however the watcher, the main loop's ticks and a running round
\* interleave, unless a round hangs, the process ends or the watcher is gone.
ChangesServed ==
  unseen > Threshold ~> \/ unseen = 0
                        \/ pc["main"] \in {"hung", "exited"}
                        \/ pc["watcher"] = "off"

\* Rounds do not feed themselves: without a scheduler, once the user and the
\* other clients have stopped there are no more rounds, although the files a
\* round writes are reported too (client.rs:424), provided what a round writes
\* without any download stays below the threshold.
Quiesces ==
  "scheduler" \notin flags => <>[][~ StartRound]_vars
=============================================================================
