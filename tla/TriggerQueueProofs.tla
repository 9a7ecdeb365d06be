------------------------- MODULE TriggerQueueProofs -------------------------
(* Proofs about the queue of requests: types, who holds the lock, and that  *)
(* a round answers a request.                                               *)
EXTENDS TriggerQueue, SequenceTheorems, TLAPS

-----------------------------------------------------------------------------
(* The inductive invariant.                                                 *)

\* Who is in line for the lock waits for it; only its holder may be the main
\* loop at its tick.
InLine ==
  \A i \in 1..Len(lock) :
    pc[lock[i]] = "wait" \/ (i = 1 /\ lock[i] = "main" /\ pc["main"] = "tick")

\* Nobody is in line twice.
Once == \A i, j \in 1..Len(lock) : lock[i] = lock[j] => i = j

\* Who waits is in line.
Waiting == \A t \in Task : pc[t] = "wait" => \E i \in 1..Len(lock) : lock[i] = t

\* The queue holds nothing but requests no round has answered.
Requested == queue > 0 => unserved

IInv == TypeOK /\ InLine /\ Once /\ Waiting /\ Requested

-----------------------------------------------------------------------------
(* What the parts of the actions do.                                        *)

LEMMA ConstantTypes ==
  /\ ModifyWeight \in Nat /\ RemoveWeight \in Nat /\ CreateWeight \in Nat /\ Threshold \in Nat
  /\ MaxQueue \in Nat /\ MaxQueue > 1 /\ MaxDownloads \in Nat /\ MaxChanges \in Nat
BY WeightsAssumption, BoundsAssumption

LEMMA ScoreType == ASSUME NEW kind \in Kind PROVE ChangeScore(kind) \in Nat
BY ConstantTypes DEF ChangeScore

LEMMA GotoType ==
  ASSUME TypeOK, NEW t \in Task, NEW l \in Place, Goto(t, l)
  PROVE  pc' \in [Task -> Place] /\ pc'[t] = l /\ \A u \in Task \ {t} : pc'[u] = pc[u]
BY DEF TypeOK, Goto

LEMMA HasFirst ==
  ASSUME IInv, NEW t \in Task, Has(t)
  PROVE  lock # <<>> /\ Head(lock) = t
<1>1. lock \in Seq(Task) /\ lock # <<>>
  BY DEF IInv, TypeOK, Waiting, Has
<1> QED
  BY <1>1 DEF Has

\* The lock is given back by t, which goes on to l.
LEMMA ReleaseKeeps ==
  ASSUME IInv, NEW t \in Task, lock # <<>>, Head(lock) = t,
         NEW l \in Place, l # "wait", Goto(t, l), lock' = Tail(lock)
  PROVE  lock' \in Seq(Task) /\ InLine' /\ Once' /\ Waiting'
<1>0. lock \in Seq(Task)
  BY DEF IInv, TypeOK
<1>1. /\ lock[1] = t /\ Len(lock) > 0 /\ lock' \in Seq(Task) /\ Len(lock') = Len(lock) - 1
      /\ \A i \in 1..Len(lock') : lock'[i] = lock[i + 1] /\ i + 1 \in 1..Len(lock)
  BY <1>0
<1>2. \A i \in 1..Len(lock') : lock'[i] # t
  <2>1. 1 \in 1..Len(lock)
    BY <1>1 DEF IInv, TypeOK
  <2> QED
    BY <1>1, <2>1 DEF IInv, Once
<1>3. \A u \in Task \ {t} : pc'[u] = pc[u]
  BY GotoType DEF IInv
<1>4. pc'[t] = l
  BY GotoType DEF IInv
<1>5. InLine'
  <2> SUFFICES ASSUME NEW i \in 1..Len(lock')
               PROVE  pc'[lock'[i]] = "wait" \/ (i = 1 /\ lock'[i] = "main" /\ pc'["main"] = "tick")
    BY DEF InLine
  <2>1. lock'[i] \in Task \ {t} /\ lock'[i] = lock[i + 1] /\ i + 1 \in 1..Len(lock)
    BY <1>1, <1>2
  <2>2. pc[lock[i + 1]] = "wait"
    BY <2>1 DEF IInv, InLine
  <2> QED
    BY <1>3, <2>1, <2>2
<1>6. Once'
  BY <1>1 DEF IInv, Once
<1>7. Waiting'
  <2> SUFFICES ASSUME NEW u \in Task, pc'[u] = "wait"
               PROVE  \E i \in 1..Len(lock') : lock'[i] = u
    BY DEF Waiting
  <2>1. u # t /\ pc[u] = "wait"
    BY <1>3, <1>4
  <2>2. PICK i \in 1..Len(lock) : lock[i] = u
    BY <2>1 DEF IInv, Waiting
  <2>3. i - 1 \in 1..Len(lock') /\ (i - 1) + 1 = i
    BY <1>1, <2>1, <2>2
  <2>4. lock'[i - 1] = u
    BY <1>1, <2>2, <2>3
  <2> QED
    BY <2>3, <2>4
<1> QED
  BY <1>1, <1>5, <1>6, <1>7

\* A task moves between two places where it neither waits nor has the lock.
LEMMA MoveKeeps ==
  ASSUME IInv, NEW t \in Task, NEW l \in Place, l # "wait",
         \A i \in 1..Len(lock) : lock[i] # t, Goto(t, l), lock' = lock
  PROVE  InLine' /\ Once' /\ Waiting'
<1>1. lock \in Seq(Task)
  BY DEF IInv, TypeOK
<1>2. pc'[t] = l /\ \A u \in Task \ {t} : pc'[u] = pc[u]
  BY GotoType DEF IInv
<1>3. InLine'
  BY <1>1, <1>2 DEF IInv, InLine
<1>4. Once' /\ Waiting'
  BY <1>2 DEF IInv, Once, Waiting
<1> QED
  BY <1>3, <1>4

\* Who neither waits nor ticks is not in line.
LEMMA NotInLine ==
  ASSUME IInv, NEW t \in Task, pc[t] # "wait", t # "main" \/ pc[t] # "tick"
  PROVE  \A i \in 1..Len(lock) : lock[i] # t
BY DEF IInv, InLine

LEMMA ExitKeeps ==
  ASSUME Exit
  PROVE  /\ pc' = [t \in Task |-> "exited"] /\ lock' \in Seq(Task)
         /\ InLine' /\ Once' /\ Waiting'
BY DEF Exit, InLine, Once, Waiting

-----------------------------------------------------------------------------
(* The actions.                                                             *)

LEMMA InitHolds == Init => IInv
<1> SUFFICES ASSUME Init PROVE IInv
  OBVIOUS
<1>1. pc \in [Task -> Place]
  BY DEF Init, Task, Place
<1>2. /\ flags \subseteq {"watcher", "scheduler"} /\ lock = <<>> /\ rx = <<>> /\ queue = 0
      /\ score = 0 /\ cert = FALSE /\ unserved = FALSE /\ changes = 0 /\ downloads = 0 /\ unseen = 0
  BY DEF Init
<1>5. TypeOK
  <2>1. cert \in BOOLEAN /\ unserved \in BOOLEAN
    BY <1>2
  <2>2. lock \in Seq(Task) /\ rx \in Seq(Kind)
    BY <1>2, EmptySeq
  <2>3. queue \in 0..MaxQueue /\ changes \in 0..MaxChanges /\ downloads \in 0..MaxDownloads
        /\ score \in Nat /\ unseen \in Nat /\ ~(score > Threshold)
    BY <1>2, ConstantTypes
  <2> QED
    BY <1>1, <1>2, <2>1, <2>2, <2>3 DEF TypeOK
<1>3. InLine /\ Once /\ Requested
  BY DEF Init, InLine, Once, Requested
<1>4. Waiting
  BY DEF Init, Waiting, Task
<1> QED
  BY <1>3, <1>4, <1>5 DEF IInv

\* Only the main loop and the scheduler move, or the watcher's score is low.
LEMMA TypeKept ==
  ASSUME TypeOK, NEW t \in Task, NEW l \in Place, Goto(t, l), flags' = flags,
         lock' \in Seq(Task), queue' \in 0..MaxQueue, rx' \in Seq(Kind),
         cert' \in BOOLEAN, unserved' \in BOOLEAN, changes' = changes,
         downloads' \in 0..MaxDownloads, unseen' \in {0, unseen},
         score' \in Nat, score' > Threshold =>
           \/ t # "watcher" /\ score' = score
           \/ t = "watcher" /\ l \in {"want", "wait"}
  PROVE  TypeOK'
<1>1. pc' \in [Task -> Place] /\ pc'[t] = l /\ \A u \in Task \ {t} : pc'[u] = pc[u]
  BY GotoType
<1>2. ASSUME score' > Threshold
      PROVE  pc'["watcher"] \in {"want", "wait", "exited"}
  <2>1. CASE t # "watcher" /\ score' = score
    <3>1. "watcher" \in Task \ {t} /\ score > Threshold
      BY <1>2, <2>1 DEF Task
    <3> QED
      BY <1>1, <3>1 DEF TypeOK
  <2>2. CASE l \in {"want", "wait"} /\ t = "watcher"
    BY <1>1, <2>2
  <2> QED
    BY <1>2, <2>1, <2>2
<1> QED
  BY <1>1, <1>2 DEF TypeOK

LEMMA AskKeeps ==
  ASSUME IInv, NEW t \in Task, Ask(t)
  PROVE  IInv'
<1>1. /\ pc \in [Task -> Place]
      /\ lock \in Seq(Task)
  BY DEF IInv, TypeOK
<1>2. /\ pc'[t] = "wait" /\ \A u \in Task \ {t} : pc'[u] = pc[u]
      /\ lock' \in Seq(Task) /\ Len(lock') = Len(lock) + 1 /\ lock'[Len(lock) + 1] = t
      /\ \A i \in 1..Len(lock) : lock'[i] = lock[i]
  BY <1>1 DEF Ask, Goto
<1>3. \A i \in 1..Len(lock) : lock[i] # t
  BY NotInLine DEF Ask
<1>4. TypeOK'
  BY <1>2, TypeKept DEF IInv, TypeOK, Ask, watch, Place
<1>5. InLine'
  <2> SUFFICES ASSUME NEW i \in 1..Len(lock')
               PROVE  pc'[lock'[i]] = "wait" \/ (i = 1 /\ lock'[i] = "main" /\ pc'["main"] = "tick")
    BY DEF InLine
  <2>1. CASE i = Len(lock) + 1
    BY <1>2, <2>1
  <2>2. CASE i \in 1..Len(lock)
    BY <1>1, <1>2, <1>3, <2>2 DEF IInv, InLine
  <2> QED
    BY <1>1, <1>2, <2>1, <2>2
<1>6. Once'
  <2> SUFFICES ASSUME NEW i \in 1..Len(lock'), NEW j \in 1..Len(lock'), lock'[i] = lock'[j]
               PROVE  i = j
    BY DEF Once
  <2>1. (i \in 1..Len(lock) \/ i = Len(lock) + 1) /\ (j \in 1..Len(lock) \/ j = Len(lock) + 1)
    BY <1>1, <1>2
  <2> QED
    BY <1>2, <1>3, <2>1 DEF IInv, Once
<1>7. Waiting'
  <2> SUFFICES ASSUME NEW u \in Task, pc'[u] = "wait"
               PROVE  \E i \in 1..Len(lock') : lock'[i] = u
    BY DEF Waiting
  <2>1. CASE u = t
    <3>1. Len(lock) + 1 \in 1..Len(lock')
      BY <1>1, <1>2
    <3> QED
      BY <1>2, <2>1, <3>1
  <2>2. CASE u # t
    <3>1. PICK i \in 1..Len(lock) : lock[i] = u
      BY <1>2, <2>2 DEF IInv, Waiting
    <3>2. i \in 1..Len(lock') /\ lock'[i] = u
      BY <1>1, <1>2, <3>1
    <3> QED
      BY <3>2
  <2> QED
    BY <2>1, <2>2
<1>8. Requested'
  BY DEF IInv, Requested, Ask
<1> QED
  BY <1>4, <1>5, <1>6, <1>7, <1>8 DEF IInv

LEMMA StartRoundKeeps == IInv /\ StartRound => IInv'
<1> SUFFICES ASSUME IInv, StartRound PROVE IInv'
  OBVIOUS
<1> USE DEF StartRound, Start
<1>1. "main" \in Task /\ "round" \in Place
  BY DEF Task, Place
<1>2. lock' \in Seq(Task) /\ InLine' /\ Once' /\ Waiting'
  BY <1>1, HasFirst, ReleaseKeeps
<1>3. TypeOK'
  <2>1. TypeOK /\ unseen' = 0 /\ UNCHANGED <<flags, rx, score, cert, changes, downloads>>
    BY DEF IInv, watch
  <2>3. queue' \in 0..MaxQueue
    BY ConstantTypes
  <2>4. unserved' \in BOOLEAN
    OBVIOUS
  <2>2. rx' \in Seq(Kind) /\ score' \in Nat /\ cert' \in BOOLEAN /\ downloads' \in 0..MaxDownloads
    BY <2>1 DEF TypeOK
  <2> QED
    BY <1>1, <1>2, <2>1, <2>2, <2>3, <2>4, TypeKept
<1>4. Requested'
  BY DEF Requested
<1> QED
  BY <1>2, <1>3, <1>4 DEF IInv

LEMMA NothingQueuedKeeps == IInv /\ NothingQueued => IInv'
<1> SUFFICES ASSUME IInv, NothingQueued PROVE IInv'
  OBVIOUS
<1> USE DEF NothingQueued
<1>1. /\ "main" \in Task /\ "tick" \in Place /\ pc["main"] = "wait" /\ lock[1] = "main"
      /\ lock \in Seq(Task) /\ 1 \in 1..Len(lock)
  BY HasFirst DEF IInv, TypeOK, Task, Place, Has
<1>2. pc'["main"] = "tick" /\ \A u \in Task \ {"main"} : pc'[u] = pc[u]
  BY <1>1, GotoType DEF IInv
<1>3. TypeOK'
  BY <1>1, TypeKept DEF IInv, TypeOK, watch
<1>4. InLine'
  <2> SUFFICES ASSUME NEW i \in 1..Len(lock)
               PROVE  pc'[lock[i]] = "wait" \/ (i = 1 /\ lock[i] = "main" /\ pc'["main"] = "tick")
    BY DEF InLine
  <2>1. CASE i = 1
    BY <1>1, <1>2, <2>1
  <2>2. CASE i # 1
    <3>1. lock[i] # "main" /\ lock[i] \in Task
      BY <1>1, <2>2 DEF IInv, Once
    <3> QED
      BY <1>2, <2>2, <3>1 DEF IInv, InLine
  <2> QED
    BY <2>1, <2>2
<1>5. Once' /\ Waiting' /\ Requested'
  BY <1>2 DEF IInv, Once, Waiting, Requested
<1> QED
  BY <1>3, <1>4, <1>5 DEF IInv

\* The tick gives the lock back if nothing was queued before it.
LEMMA MainTickKeeps == IInv /\ MainTick => IInv'
<1> SUFFICES ASSUME IInv, MainTick PROVE IInv'
  OBVIOUS
<1> USE DEF MainTick
<1>1. "main" \in Task /\ "want" \in Place /\ lock \in Seq(Task)
  BY DEF IInv, TypeOK, Task, Place
<1>2. lock' \in Seq(Task) /\ InLine' /\ Once' /\ Waiting'
  <2>1. CASE lock # <<>> /\ Head(lock) = "main"
    BY <1>1, <2>1, ReleaseKeeps
  <2>2. CASE ~(lock # <<>> /\ Head(lock) = "main")
    <3>1. \A i \in 1..Len(lock) : lock[i] # "main"
      BY <1>1, <2>2 DEF IInv, InLine
    <3> QED
      BY <1>1, <2>2, <3>1, MoveKeeps
  <2> QED
    BY <2>1, <2>2
<1>3. TypeOK'
  BY <1>1, <1>2, TypeKept DEF IInv, TypeOK, watch
<1>4. Requested'
  BY DEF IInv, Requested
<1> QED
  BY <1>2, <1>3, <1>4 DEF IInv

LEMMA RoundEndsKeeps ==
  ASSUME IInv, NEW own \in {<<>>, Quiet, Download}, RoundEnds(own)
  PROVE  IInv'
<1> USE DEF RoundEnds, End
<1>1. /\ "main" \in Task /\ "tick" \in Place /\ rx' \in Seq(Kind) /\ own \in Seq(Kind)
      /\ pc["main"] = "round" /\ downloads' \in 0..MaxDownloads
  <2>1. own \in Seq(Kind)
    BY RoundEventsAssumption, EmptySeq
  <2>2. rx \in Seq(Kind) /\ downloads \in 0..MaxDownloads
    BY DEF IInv, TypeOK
  <2>3. rx' \in Seq(Kind)
    BY <2>1, <2>2
  <2>4. downloads' \in 0..MaxDownloads
    BY <2>2, ConstantTypes
  <2> QED
    BY <2>1, <2>3, <2>4 DEF Task, Place
<1>2. CASE Exit
  <2>1. lock' \in Seq(Task) /\ InLine' /\ Once' /\ Waiting' /\ pc' = [t \in Task |-> "exited"]
    BY <1>2, ExitKeeps
  <2>2. pc' \in [Task -> Place] /\ pc'["watcher"] = "exited"
    BY <2>1 DEF Task, Place
  <2>3. TypeOK' /\ Requested'
    BY <1>1, <2>1, <2>2 DEF IInv, TypeOK, Requested
  <2> QED
    BY <2>1, <2>3 DEF IInv
<1>3. CASE Goto("main", "tick") /\ lock' = lock
  <2>1. InLine' /\ Once' /\ Waiting'
    BY <1>1, <1>3, NotInLine, MoveKeeps
  <2>2. TypeOK' /\ Requested'
    BY <1>1, <1>3, TypeKept DEF IInv, TypeOK, Requested
  <2> QED
    BY <2>1, <2>2 DEF IInv
<1> QED
  BY <1>2, <1>3

LEMMA RoundPanicsKeeps == IInv /\ RoundPanics => IInv'
<1> SUFFICES ASSUME IInv, RoundPanics PROVE IInv'
  OBVIOUS
<1> USE DEF RoundPanics
<1>1. lock' \in Seq(Task) /\ InLine' /\ Once' /\ Waiting' /\ pc' = [t \in Task |-> "exited"]
  BY ExitKeeps
<1>2. pc' \in [Task -> Place] /\ pc'["watcher"] = "exited"
  BY <1>1 DEF Task, Place
<1>3. TypeOK' /\ Requested'
  BY <1>1, <1>2 DEF IInv, TypeOK, Requested, watch
<1> QED
  BY <1>1, <1>3 DEF IInv

LEMMA RoundHangsKeeps == IInv /\ RoundHangs => IInv'
<1> SUFFICES ASSUME IInv, RoundHangs PROVE IInv'
  OBVIOUS
<1> USE DEF RoundHangs
<1>1. "main" \in Task /\ "hung" \in Place
  BY DEF Task, Place
<1>2. InLine' /\ Once' /\ Waiting'
  BY <1>1, NotInLine, MoveKeeps
<1>3. TypeOK' /\ Requested'
  BY <1>1, TypeKept DEF IInv, TypeOK, Requested, watch
<1> QED
  BY <1>2, <1>3 DEF IInv

\* The watcher's steps away from the queue.
LEMMA WatcherStartsKeeps == IInv /\ WatcherStarts => IInv'
<1> SUFFICES ASSUME IInv, WatcherStarts PROVE IInv'
  OBVIOUS
<1> USE DEF WatcherStarts
<1>1. "watcher" \in Task /\ {"listen", "off"} \subseteq Place /\ pc["watcher"] = "start"
  BY DEF Task, Place
<1>2. PICK l \in {"listen", "off"} : Goto("watcher", l)
  OBVIOUS
<1>3. InLine' /\ Once' /\ Waiting'
  BY <1>1, <1>2, NotInLine, MoveKeeps
<1>4. score <= Threshold
  BY <1>1, ConstantTypes DEF IInv, TypeOK
<1>5. TypeOK' /\ Requested'
  BY <1>1, <1>2, <1>4, TypeKept, ConstantTypes DEF IInv, TypeOK, Requested, watch
<1> QED
  BY <1>3, <1>5 DEF IInv

LEMMA WatcherFailsKeeps == IInv /\ WatcherFails => IInv'
<1> SUFFICES ASSUME IInv, WatcherFails PROVE IInv'
  OBVIOUS
<1> USE DEF WatcherFails
<1>1. "watcher" \in Task /\ "off" \in Place /\ pc["watcher"] = "listen"
  BY DEF Task, Place
<1>2. InLine' /\ Once' /\ Waiting'
  BY <1>1, NotInLine, MoveKeeps
<1>3. score <= Threshold
  BY <1>1, ConstantTypes DEF IInv, TypeOK
<1>4. TypeOK' /\ Requested'
  BY <1>1, <1>3, TypeKept, ConstantTypes DEF IInv, TypeOK, Requested, watch
<1> QED
  BY <1>2, <1>4 DEF IInv

LEMMA TakeEventKeeps == IInv /\ TakeEvent => IInv'
<1> SUFFICES ASSUME IInv, TakeEvent PROVE IInv'
  OBVIOUS
<1> USE DEF TakeEvent, Take
<1>1. "watcher" \in Task /\ {"listen", "want"} \subseteq Place /\ pc["watcher"] = "listen"
  BY DEF Task, Place
<1>2. rx \in Seq(Kind) /\ rx # <<>> /\ score \in Nat
  BY DEF IInv, TypeOK
<1>3. rx' \in Seq(Kind) /\ Head(rx) \in Kind /\ score' \in Nat
  BY <1>2, ScoreType, HeadTailProperties
<1> DEFINE l == IF score' > Threshold THEN "want" ELSE "listen"
<1>4. l \in Place /\ l # "wait" /\ Goto("watcher", l) /\ (score' > Threshold => l = "want")
  BY <1>1
<1> HIDE DEF l
<1>5. InLine' /\ Once' /\ Waiting'
  BY <1>1, <1>4, NotInLine, MoveKeeps
<1>6. TypeOK' /\ Requested'
  BY <1>1, <1>3, <1>4, TypeKept DEF IInv, TypeOK, Requested
<1> QED
  BY <1>5, <1>6 DEF IInv

LEMMA WatcherPushKeeps == IInv /\ WatcherPush => IInv'
<1> SUFFICES ASSUME IInv, WatcherPush PROVE IInv'
  OBVIOUS
<1> USE DEF WatcherPush, PushLeaving, Push
<1>1. "watcher" \in Task /\ "listen" \in Place
  BY DEF Task, Place
<1>2. lock' \in Seq(Task) /\ InLine' /\ Once' /\ Waiting'
  BY <1>1, HasFirst, ReleaseKeeps
<1>3. queue' \in 0..MaxQueue
  BY ConstantTypes DEF IInv, TypeOK
<1>4. TypeOK' /\ Requested'
  BY <1>1, <1>2, <1>3, TypeKept, ConstantTypes DEF IInv, TypeOK, Requested
<1> QED
  BY <1>2, <1>4 DEF IInv

LEMMA SchedulerPushKeeps == IInv /\ SchedulerPush => IInv'
<1> SUFFICES ASSUME IInv, SchedulerPush PROVE IInv'
  OBVIOUS
<1> USE DEF SchedulerPush, Push
<1>1. "scheduler" \in Task /\ "tick" \in Place
  BY DEF Task, Place
<1>2. lock' \in Seq(Task) /\ InLine' /\ Once' /\ Waiting'
  BY <1>1, HasFirst, ReleaseKeeps
<1>3. queue' \in 0..MaxQueue
  BY ConstantTypes DEF IInv, TypeOK
<1>4. TypeOK' /\ Requested'
  BY <1>1, <1>2, <1>3, TypeKept DEF IInv, TypeOK, Requested, watch
<1> QED
  BY <1>2, <1>4 DEF IInv

LEMMA SchedulerTickKeeps == IInv /\ SchedulerTick => IInv'
<1> SUFFICES ASSUME IInv, SchedulerTick PROVE IInv'
  OBVIOUS
<1> USE DEF SchedulerTick
<1>1. "scheduler" \in Task /\ "want" \in Place
  BY DEF Task, Place
<1>2. InLine' /\ Once' /\ Waiting'
  BY <1>1, NotInLine, MoveKeeps
<1>3. TypeOK' /\ Requested'
  BY <1>1, TypeKept DEF IInv, TypeOK, Requested, watch
<1> QED
  BY <1>2, <1>3 DEF IInv

LEMMA ChangeKeeps ==
  ASSUME IInv, NEW kind \in Kind, Change(kind)
  PROVE  IInv'
<1> USE DEF Change
<1>1. rx \in Seq(Kind) /\ unseen \in Nat /\ changes \in 0..MaxChanges /\ ChangeScore(kind) \in Nat
  BY ScoreType DEF IInv, TypeOK
<1>2. rx' \in Seq(Kind) /\ unseen' \in Nat /\ changes' \in 0..MaxChanges
  BY <1>1, ConstantTypes
<1>3. TypeOK'
  BY <1>2 DEF IInv, TypeOK
<1>4. InLine' /\ Once' /\ Waiting' /\ Requested'
  BY DEF IInv, InLine, Once, Waiting, Requested
<1> QED
  BY <1>3, <1>4 DEF IInv

LEMMA StepKeeps == IInv /\ [Next]_vars => IInv'
<1> SUFFICES ASSUME IInv, [Next]_vars PROVE IInv'
  OBVIOUS
<1>0. Task = {"main", "watcher", "scheduler"}
  BY DEF Task
<1>1. CASE MainStep
  BY <1>0, <1>1, AskKeeps, StartRoundKeeps, NothingQueuedKeeps, MainTickKeeps, RoundEndsKeeps,
     RoundPanicsKeeps, RoundHangsKeeps DEF MainStep
<1>2. CASE WatcherStep
  BY <1>0, <1>2, AskKeeps, WatcherStartsKeeps, WatcherFailsKeeps, TakeEventKeeps, WatcherPushKeeps
  DEF WatcherStep
<1>3. CASE SchedulerStep
  BY <1>0, <1>3, AskKeeps, SchedulerPushKeeps, SchedulerTickKeeps DEF SchedulerStep
<1>4. CASE \E kind \in Kind : Change(kind)
  BY <1>4, ChangeKeeps
<1>5. CASE UNCHANGED vars
  BY <1>5 DEF vars, watch, IInv, TypeOK, InLine, Once, Waiting, Requested
<1> QED
  BY <1>1, <1>2, <1>3, <1>4, <1>5 DEF Next

-----------------------------------------------------------------------------
\* Every reachable state of the client's three tasks satisfies the inductive
\* invariant (client.rs:103-114, 409-428, 474-479).
THEOREM QueueInvariance == Spec => []IInv
BY InitHolds, StepKeeps, PTL DEF Spec

\* The tasks keep to their types, and the score passes the threshold only while a
\* request is on its way (client.rs:420-426).
THEOREM TriggerTyped == Spec => []TypeOK
<1>1. IInv => TypeOK
  BY DEF IInv
<1> QED
  BY <1>1, QueueInvariance, PTL

\* The main loop never keeps the queue's lock over a round (client.rs:104-111).
THEOREM QueueFree == Spec => []QueueFreeInRound
<1>1. IInv => QueueFreeInRound
  BY DEF IInv, TypeOK, InLine, QueueFreeInRound
<1> QED
  BY <1>1, QueueInvariance, PTL

\* Every round answers a request made since the round before it started
\* (client.rs:105-108).
THEOREM RoundsAreRequested == Spec => Collapses
<1>1. IInv /\ [Next]_vars =>
        [pc["main"] # "round" /\ pc'["main"] = "round" => unserved]_vars
  <2> SUFFICES ASSUME IInv, Next, pc["main"] # "round", pc'["main"] = "round"
               PROVE  unserved
    OBVIOUS
  <2>1. /\ pc \in [Task -> Place] /\ "main" \in Task /\ "watcher" \in Task /\ "scheduler" \in Task
    BY DEF IInv, TypeOK, Task
  <2>2. StartRound
    <3>1. ASSUME NEW t \in Task, NEW l \in {"off", "listen", "want", "wait", "tick", "hung"}, Goto(t, l)
          PROVE  FALSE
      BY <2>1, <3>1 DEF Goto
    <3>2. ~Exit
      BY <2>1 DEF Exit
    <3> QED
      BY <2>1, <3>1, <3>2 DEF Next, MainStep, WatcherStep, SchedulerStep, Ask, NothingQueued, MainTick,
         RoundEnds, End, RoundPanics, RoundHangs, WatcherStarts, WatcherFails, TakeEvent, Take,
         WatcherPush, PushLeaving, SchedulerPush, SchedulerTick, Change
  <2> QED
    BY <2>2 DEF StartRound, Start, IInv, Requested, TypeOK
<1> QED
  BY <1>1, QueueInvariance, PTL DEF Spec, Collapses

-----------------------------------------------------------------------------
(* The debounce.  How far the score will come when the events not taken yet *)
(* are: f[i] is at most what it is after i of them.                         *)

Reaches(f, evs, s) ==
  /\ f \in [0..Len(evs) -> Nat] /\ f[0] = s
  /\ \A i \in 1..Len(evs) : f[i] <= f[i - 1] + ChangeScore(evs[i])

\* A watcher that is alive will account for all that no request was made for.
Accounted ==
  pc["watcher"] \in {"start", "listen", "want", "wait"} =>
    \E f \in [0..Len(rx) -> Nat] : Reaches(f, rx, score) /\ (queue = 0 => unseen <= f[Len(rx)])

LEMMA InitAccounted == Init => Accounted
<1> SUFFICES ASSUME Init PROVE Accounted
  OBVIOUS
<1> DEFINE f == [i \in 0..Len(rx) |-> 0]
<1>1. Len(rx) = 0 /\ score = 0 /\ unseen = 0
  BY DEF Init
<1>2. f \in [0..Len(rx) -> Nat] /\ Reaches(f, rx, score) /\ unseen <= f[Len(rx)]
  BY <1>1 DEF Reaches
<1> QED
  BY <1>2 DEF Accounted

\* Nothing changes but, perhaps, that a round has started.
LEMMA AccountedStays ==
  ASSUME IInv, Accounted, UNCHANGED <<rx, score>>,
         pc'["watcher"] \in {"start", "listen", "want", "wait"} =>
           pc["watcher"] \in {"start", "listen", "want", "wait"},
         (unseen' = unseen /\ (queue' = 0 => queue = 0)) \/ unseen' = 0
  PROVE  Accounted'
<1> SUFFICES ASSUME pc'["watcher"] \in {"start", "listen", "want", "wait"}
             PROVE  \E f \in [0..Len(rx') -> Nat] : Reaches(f, rx', score') /\ (queue' = 0 => unseen' <= f[Len(rx')])
  BY DEF Accounted
<1>1. PICK f \in [0..Len(rx) -> Nat] : Reaches(f, rx, score) /\ (queue = 0 => unseen <= f[Len(rx)])
  BY DEF Accounted
<1>2. f[Len(rx)] \in Nat
  <2>1. Len(rx) \in 0..Len(rx)
    BY DEF IInv, TypeOK
  <2> QED
    BY <2>1
<1>3. Reaches(f, rx', score') /\ (queue' = 0 => unseen' <= f[Len(rx')])
  BY <1>1, <1>2 DEF Reaches
<1> QED
  BY <1>1, <1>3

\* A round that ends adds what it wrote behind what is there.
LEMMA RoundEndsAccounted ==
  ASSUME IInv, Accounted, NEW own \in {<<>>, Quiet, Download}, RoundEnds(own)
  PROVE  Accounted'
<1>0. /\ unseen' = unseen /\ queue' = queue /\ score' = score
      /\ rx' = IF Watching THEN rx \o own ELSE rx
      /\ pc'["watcher"] \in {pc["watcher"], "exited"}
  <2>1. pc \in [Task -> Place] /\ "watcher" \in Task
    BY DEF IInv, TypeOK, Task
  <2> QED
    BY <2>1 DEF RoundEnds, End, Exit, Goto
<1>1. CASE ~Watching
  BY <1>0, <1>1, AccountedStays
<1>2. CASE Watching
  <2> DEFINE n == Len(rx)
  <2>0. own \in Seq(Kind)
    BY RoundEventsAssumption, EmptySeq
  <2>1. rx \in Seq(Kind) /\ own \in Seq(Kind) /\ n \in Nat
    BY <2>0 DEF IInv, TypeOK
  <2>2. /\ Len(rx') \in Nat /\ n <= Len(rx') /\ \A i \in 1..n : rx'[i] = rx[i]
        /\ \A i \in 1..Len(rx') : rx'[i] \in Kind
    BY <1>0, <1>2, <2>1
  <2>3. PICK f \in [0..n -> Nat] : Reaches(f, rx, score) /\ (queue = 0 => unseen <= f[n])
    BY <1>2 DEF Accounted, Watching
  <2> DEFINE g == [i \in 0..Len(rx') |-> IF i <= n THEN f[i] ELSE f[n]]
  <2>4. f[n] \in Nat /\ g \in [0..Len(rx') -> Nat]
    BY <2>1, <2>2
  <2>5. g[0] = f[0] /\ g[Len(rx')] = f[n]
    BY <2>1, <2>2
  <2>6. ASSUME NEW i \in 1..Len(rx')
        PROVE  g[i] <= g[i - 1] + ChangeScore(rx'[i])
    <3>1. ChangeScore(rx'[i]) \in Nat
      BY <2>2, ScoreType
    <3>2. CASE i <= n
      <4>1. i \in 1..n /\ g[i] = f[i] /\ g[i - 1] = f[i - 1]
        BY <2>1, <2>2, <3>2
      <4> QED
        BY <2>2, <2>3, <4>1 DEF Reaches
    <3>3. CASE ~(i <= n)
      <4>1. g[i] = f[n] /\ g[i - 1] = f[n]
        BY <2>1, <2>2, <3>3
      <4> QED
        BY <2>4, <3>1, <4>1
    <3> QED
      BY <3>2, <3>3
  <2> HIDE DEF g
  <2>7. Reaches(g, rx', score')
    BY <1>0, <2>3, <2>4, <2>5, <2>6 DEF Reaches
  <2> QED
    BY <1>0, <2>3, <2>4, <2>5, <2>7 DEF Accounted
<1> QED
  BY <1>1, <1>2

\* The watcher takes an event: the score becomes what it was to reach, or more.
LEMMA TakeEventAccounted == ASSUME IInv, Accounted, TakeEvent PROVE Accounted'
<1> DEFINE n == Len(rx)
<1>1. /\ rx \in Seq(Kind) /\ rx # <<>> /\ score \in Nat /\ pc["watcher"] = "listen"
      /\ rx' = Tail(rx) /\ score' = score + ChangeScore(rx[1]) /\ UNCHANGED <<queue, unseen>>
  BY DEF TakeEvent, Take, IInv, TypeOK
<1>2. /\ n \in Nat /\ n > 0 /\ Len(rx') = n - 1
      /\ \A i \in 1..(n - 1) : rx'[i] = rx[i + 1] /\ rx'[i] \in Kind
      /\ rx[1] \in Kind
  BY <1>1
<1>3. PICK f \in [0..n -> Nat] : Reaches(f, rx, score) /\ (queue = 0 => unseen <= f[n])
  BY <1>1 DEF Accounted
<1>4. score' \in Nat /\ f[1] <= score'
  BY <1>1, <1>2, <1>3, ScoreType DEF Reaches
<1> DEFINE g == [i \in 0..(n - 1) |-> IF i = 0 THEN score' ELSE f[i + 1]]
<1>5. g \in [0..(n - 1) -> Nat] /\ g[0] = score' /\ f[n] <= g[n - 1]
  <2> HIDE DEF n
  <2>1. \A i \in 0..(n - 1) : i # 0 => f[i + 1] \in Nat
    BY <1>2
  <2>2. g \in [0..(n - 1) -> Nat] /\ g[0] = score'
    BY <1>2, <1>4, <2>1
  <2>3. g[n - 1] = IF n = 1 THEN score' ELSE f[n]
    BY <1>2
  <2>4. f[n] \in Nat
    BY <1>2
  <2> QED
    BY <1>4, <2>2, <2>3, <2>4
<1>6. ASSUME NEW i \in 1..(n - 1)
      PROVE  g[i] <= g[i - 1] + ChangeScore(rx'[i])
  <2>1. ChangeScore(rx'[i]) \in Nat
    BY <1>2, ScoreType
  <2>2. g[i] = f[i + 1] /\ f[i + 1] <= f[i] + ChangeScore(rx'[i])
    <3>1. i + 1 \in 1..n /\ (i + 1) - 1 = i /\ i \in 0..(n - 1) /\ i # 0
      BY <1>2
    <3>2. g[i] = f[i + 1]
      BY <3>1
    <3> HIDE DEF g
    <3>3. f[i + 1] <= f[(i + 1) - 1] + ChangeScore(rx[i + 1])
      BY <1>3, <3>1 DEF Reaches
    <3>4. rx'[i] = rx[i + 1]
      BY <1>2
    <3>5. f[i + 1] <= f[i] + ChangeScore(rx'[i])
      BY <3>1, <3>3, <3>4
    <3> QED
      BY <3>2, <3>5
  <2>3. f[i] <= g[i - 1] /\ f[i] \in Nat /\ f[i + 1] \in Nat /\ g[i - 1] \in Nat
    <3>1. i \in Nat /\ i >= 1 /\ i <= n - 1 /\ n \in Nat /\ f[1] <= score' /\ score' \in Nat
      BY <1>2, <1>4
    <3>2. f[i] \in Nat /\ f[i + 1] \in Nat
      BY <3>1
    <3>3. g[i - 1] = IF i = 1 THEN score' ELSE f[i]
      BY <3>1
    <3> HIDE DEF g
    <3> QED
      BY <3>1, <3>2, <3>3
  <2> QED
    BY <2>1, <2>2, <2>3
<1> HIDE DEF g
<1>7. Reaches(g, rx', score')
  BY <1>2, <1>5, <1>6 DEF Reaches
<1>8. queue' = 0 => unseen' <= g[n - 1]
  <2>1. f[n] \in Nat /\ g[n - 1] \in Nat /\ unseen \in Nat
    <3>1. n \in 0..n /\ n - 1 \in 0..(n - 1)
      BY <1>2
    <3> QED
      BY <1>5, <3>1 DEF IInv, TypeOK
  <2> QED
    BY <1>1, <1>3, <1>5, <2>1
<1> QED
  BY <1>2, <1>5, <1>7, <1>8 DEF Accounted

\* The watcher clears its score, but only when it has made a request.
LEMMA WatcherPushAccounted == ASSUME IInv, Accounted, WatcherPush PROVE Accounted'
<1> DEFINE g == [i \in 0..Len(rx') |-> 0]
<1>1. rx \in Seq(Kind) /\ rx' = rx /\ score' = 0 /\ queue' # 0
  BY ConstantTypes DEF WatcherPush, PushLeaving, Push, IInv, TypeOK
<1>2. \A i \in 1..Len(rx') : ChangeScore(rx'[i]) \in Nat
  BY <1>1, ScoreType
<1>3. g \in [0..Len(rx') -> Nat] /\ Reaches(g, rx', score')
  BY <1>1, <1>2 DEF Reaches
<1> QED
  BY <1>1, <1>3 DEF Accounted

\* A change of the user is reported behind what is there.
LEMMA ChangeAccounted ==
  ASSUME IInv, Accounted, NEW kind \in Kind, Change(kind)
  PROVE  Accounted'
<1> DEFINE n == Len(rx)
<1>1. /\ rx \in Seq(Kind) /\ unseen \in Nat /\ ChangeScore(kind) \in Nat /\ n \in Nat
      /\ Watching /\ rx' = Append(rx, kind) /\ unseen' = unseen + ChangeScore(kind)
      /\ UNCHANGED <<pc, queue, score>>
  BY ScoreType DEF Change, IInv, TypeOK
<1>2. /\ Len(rx') = n + 1 /\ rx'[n + 1] = kind
      /\ \A i \in 1..n : rx'[i] = rx[i]
  BY <1>1
<1>3. PICK f \in [0..n -> Nat] : Reaches(f, rx, score) /\ (queue = 0 => unseen <= f[n])
  BY <1>1 DEF Accounted, Watching
<1> DEFINE g == [i \in 0..(n + 1) |-> IF i <= n THEN f[i] ELSE f[n] + ChangeScore(kind)]
<1>4. f[n] \in Nat /\ g \in [0..(n + 1) -> Nat] /\ g[0] = f[0]
  BY <1>1
<1>5. g[n + 1] = f[n] + ChangeScore(kind) /\ g[n] = f[n]
  BY <1>1
<1>6. ASSUME NEW i \in 1..(n + 1)
      PROVE  g[i] <= g[i - 1] + ChangeScore(rx'[i])
  <2>1. CASE i = n + 1
    BY <1>1, <1>2, <1>4, <1>5, <2>1
  <2>2. CASE i # n + 1
    <3>1. i \in 1..n /\ g[i] = f[i] /\ g[i - 1] = f[i - 1]
      BY <1>1, <2>2
    <3> QED
      BY <1>2, <1>3, <3>1 DEF Reaches
  <2> QED
    BY <2>1, <2>2
<1> HIDE DEF g
<1>7. Reaches(g, rx', score')
  BY <1>1, <1>2, <1>3, <1>4, <1>6 DEF Reaches
<1>8. queue' = 0 => unseen' <= g[n + 1]
  BY <1>1, <1>3, <1>4, <1>5
<1> QED
  BY <1>2, <1>4, <1>7, <1>8 DEF Accounted

LEMMA StepAccounted == IInv /\ Accounted /\ [Next]_vars => Accounted'
<1> SUFFICES ASSUME IInv, Accounted, [Next]_vars PROVE Accounted'
  OBVIOUS
<1>0. pc \in [Task -> Place] /\ "watcher" \in Task /\ Task = {"main", "watcher", "scheduler"}
  BY DEF IInv, TypeOK, Task
<1>1. ASSUME NEW t \in Task, Ask(t)
      PROVE  Accounted'
  BY <1>0, <1>1, AccountedStays DEF Ask, Goto, watch
<1>2. CASE StartRound \/ NothingQueued \/ MainTick \/ RoundPanics \/ RoundHangs
  BY <1>0, <1>2, AccountedStays
  DEF StartRound, Start, NothingQueued, MainTick, RoundPanics, RoundHangs, Goto, Exit, watch
<1>3. CASE WatcherStarts \/ WatcherFails
  BY <1>0, <1>3, AccountedStays DEF WatcherStarts, WatcherFails, Goto, watch
<1>4. CASE SchedulerPush \/ SchedulerTick
  <2>1. queue' = 0 => queue = 0
    BY <1>4, ConstantTypes DEF SchedulerPush, SchedulerTick, Push, IInv, TypeOK
  <2> QED
    BY <1>0, <1>4, <2>1, AccountedStays DEF SchedulerPush, SchedulerTick, Goto, watch
<1>5. CASE UNCHANGED vars
  BY <1>5, AccountedStays DEF vars, watch
<1> QED
  BY <1>0, <1>1, <1>2, <1>3, <1>4, <1>5, RoundEndsAccounted, TakeEventAccounted,
     WatcherPushAccounted, ChangeAccounted DEF Next, MainStep, WatcherStep, SchedulerStep

\* Whatever the weights, the threshold and the files a round writes, the debounce
\* swallows no change for good: when the watcher has taken every event and no request
\* is queued, what is not yet served weighs no more than the threshold
\* (client.rs:418-426).
THEOREM DebounceBounded == Spec => []DebounceBound
<1>1. IInv /\ Accounted => DebounceBound
  <2> SUFFICES ASSUME IInv, Accounted, pc["watcher"] = "listen", rx = <<>>, queue = 0
               PROVE  unseen <= Threshold
    BY DEF DebounceBound
  <2>1. PICK f \in [0..Len(rx) -> Nat] : Reaches(f, rx, score) /\ unseen <= f[Len(rx)]
    BY DEF Accounted
  <2>2. unseen <= score
    BY <2>1 DEF Reaches
  <2> QED
    BY <2>2, ConstantTypes DEF IInv, TypeOK
<1> QED
  BY <1>1, InitHolds, StepKeeps, InitAccounted, StepAccounted, PTL DEF Spec
=============================================================================
