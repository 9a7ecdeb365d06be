------------------------ MODULE SyncAgreementProofs -------------------------
(* Proofs about rounds no transfer of which failed: what stays a change,    *)
(* what the client may lose, and that both sides agree afterwards.          *)
EXTENDS SyncRoundsProofs

USE DEF Side

-----------------------------------------------------------------------------
(* The inductive invariant.                                                 *)

Undisturbed == Quiet({"fail", "restart", "late"})

\* Contents are numbered as they are made.
Bounded ==
  /\ clock > 0
  /\ \A p \in Path : /\ now[p].hash <= clock
                     /\ saved # Corrupt => saved[p].hash <= clock
                     /\ \A s \in Side : tree[s][p].hash <= clock
  /\ \A w \in late : w.version.hash <= clock

ServerSeen == \A p \in Path : tree["server"][p].hash \in settled

\* Report, plan and stages are those of the round's scans.
ReportIs ==
  phase \in {"call", "serverStat", "transfer", "save"} => report = CompareStates(saved, now)

PlanIs ==
  IF phase \in {"transfer", "save"}
  THEN /\ plan = GenerateSyncPlan(local, report)
       /\ \A p \in Path : stage[p] = "none" <=> p \notin DOMAIN plan
  ELSE phase # "write" => \A p \in Path : stage[p] = "none"

KeepsSession == Undisturbed /\ phase = "transfer" => session

\* Until its transfer is over, a file nobody wrote is what was scanned.
NowCurrent ==
  Undisturbed /\ phase \in {"stat", "call", "serverStat", "transfer"} =>
    \A p \in Path \ touched["client"] : stage[p] # "done" =>
      /\ now[p].hash = tree["client"][p].hash
      /\ phase # "stat" /\ now[p].hash # 0 => now[p].ts = tree["client"][p].ts

LocalCurrent ==
  Undisturbed /\ phase \in {"serverStat", "transfer"} =>
    \A p \in Path \ touched["server"] : stage[p] # "done" =>
      local[p].hash = tree["server"][p].hash

\* What the client and its saved state agree on is settled, and so is what the
\* client has of its scan once the transfer is over.
SavedSettled ==
  Undisturbed /\ saved # Corrupt =>
    \A p \in Path : saved[p].hash = tree["client"][p].hash => saved[p].hash \in settled \cup {0}

NowSettled ==
  Undisturbed /\ phase \in {"transfer", "save", "write"} =>
    \A p \in Path : stage[p] \in {"none", "kept", "done"} /\ now[p].hash = tree["client"][p].hash
      => now[p].hash \in settled \cup {0}

\* The client has an empty file the server never had only after a removal: one on
\* the server, which leaves a Download without its source.
NoEmpty(t) == \A p \in Path : t[p].hash # EmptyHash

FirstEmpty ==
  Undisturbed /\ EmptyHash \notin settled /\ "remove" \notin events =>
    NoEmpty(tree["client"]) /\ NoEmpty(now) /\ (saved # Corrupt => NoEmpty(saved))

SourceLost ==
  Undisturbed /\ EmptyHash \notin settled /\ phase \in {"serverStat", "transfer"} =>
    \A p \in Path : local[p].hash # 0 /\ tree["server"][p].hash = 0 =>
      "remove" \in events /\ NoEmpty(now) /\ (saved # Corrupt => NoEmpty(saved))

\* Once a transfer is over both sides hold the same, unless the client had removed
\* the file it was to upload.
Agreed ==
  Undisturbed /\ phase \in {"transfer", "save"} =>
    \A p \in Path : stage[p] = "done" /\ p \notin touched["client"] \cup touched["server"] =>
      \/ tree["client"][p].hash = tree["server"][p].hash
      \/ p \in DOMAIN report /\ now[p].hash = 0

Agreement ==
  /\ Bounded /\ ServerSeen /\ ReportIs /\ PlanIs /\ KeepsSession /\ NowCurrent /\ LocalCurrent
  /\ SavedSettled /\ NowSettled /\ FirstEmpty /\ SourceLost /\ Agreed

-----------------------------------------------------------------------------
(* The planning functions.                                                  *)

\* A report names the paths whose contents differ; a file that is there is not
\* reported older than it is.
LEMMA ReportFacts ==
  ASSUME NEW before \in Tree, NEW t \in Tree, NEW p \in Path
  PROVE  LET r == CompareStates(before, t) IN
         /\ p \in DOMAIN r <=> before[p].hash # t[p].hash
         /\ p \in DOMAIN r => /\ r[p] \in Version /\ r[p].hash # 0
                              /\ t[p].hash # 0 => r[p].ts >= t[p].ts
<1>1. before[p] \in Version /\ t[p] \in Version
  BY DEF Tree
<1>2. p \in DOMAIN CompareStates(before, t) <=> before[p].hash # t[p].hash
  BY DEF CompareStates, Changed
<1>3. ASSUME before[p].hash # t[p].hash
      PROVE  CompareStates(before, t)[p] = Reported(before[p], t[p])
  BY <1>3 DEF CompareStates, Changed
<1>4. ASSUME before[p].hash # t[p].hash
      PROVE  /\ Reported(before[p], t[p]) \in Version /\ Reported(before[p], t[p]).hash # 0
             /\ t[p].hash # 0 => Reported(before[p], t[p]).ts >= t[p].ts
  BY <1>1, <1>4 DEF Reported, Version
<1> QED
  BY <1>2, <1>3, <1>4

\* What is downloaded is there, and newer than what was reported; what is uploaded
\* was reported.
LEMMA PlanFacts ==
  ASSUME NEW l \in Tree, NEW rep, NEW p \in Path,
         p \in DOMAIN rep => rep[p] \in Version /\ rep[p].hash # 0
  PROVE  LET a == GenerateSyncPlan(l, rep) IN
         /\ p \in DOMAIN a <=> l[p].hash # 0 \/ p \in DOMAIN rep
         /\ p \in DOMAIN a /\ a[p].direction = "Download" =>
              /\ l[p].hash # 0 /\ a[p].ts = l[p].ts
              /\ p \in DOMAIN rep => l[p].ts > rep[p].ts
         /\ p \in DOMAIN a /\ a[p].direction = "Upload" => p \in DOMAIN rep
<1> DEFINE r == IF p \in DOMAIN rep THEN rep[p] ELSE NoFile
<1>1. p \in DOMAIN GenerateSyncPlan(l, rep) <=> l[p].hash # 0 \/ p \in DOMAIN rep
  BY DEF GenerateSyncPlan, Present
<1>2. ASSUME p \in DOMAIN GenerateSyncPlan(l, rep)
      PROVE  GenerateSyncPlan(l, rep)[p] = PlanFor(l[p], r)
  BY <1>2 DEF GenerateSyncPlan
<1>3. l[p] \in Version /\ r \in Version
  BY EmptyTypes DEF Tree
<1>4. r.hash # 0 <=> p \in DOMAIN rep
  BY DEF NoFile
<1>5. /\ PlanFor(l[p], r).direction = "Download" =>
           /\ l[p].hash # 0 \/ r.hash = 0
           /\ PlanFor(l[p], r).ts = l[p].ts
           /\ r.hash # 0 => l[p].ts > r.ts
      /\ PlanFor(l[p], r).direction = "Upload" => r.hash # 0
  BY <1>3 DEF PlanFor, Action, Version
<1> HIDE DEF r
<1>6. p \in DOMAIN rep => r = rep[p]
  BY DEF r
<1> QED
  BY <1>1, <1>2, <1>4, <1>5, <1>6

\* The same of the round under way.
LEMMA RoundFacts ==
  ASSUME IInv, Agreement, phase = "transfer", NEW p \in DOMAIN plan
  PROVE  /\ p \in Path
         /\ p \in DOMAIN report <=> saved[p].hash # now[p].hash
         /\ plan[p].direction = "Download" =>
              /\ local[p].hash # 0 /\ plan[p].ts = local[p].ts
              /\ p \in DOMAIN report /\ now[p].hash # 0 => plan[p].ts > now[p].ts
         /\ plan[p].direction = "Upload" => p \in DOMAIN report
<1>1. /\ p \in Path /\ now \in Tree /\ local \in Tree /\ saved \in Tree
  BY DEF IInv, TypeOK, Loaded
<1>2. report = CompareStates(saved, now) /\ plan = GenerateSyncPlan(local, report)
  BY DEF Agreement, ReportIs, PlanIs
<1>3. /\ p \in DOMAIN report <=> saved[p].hash # now[p].hash
      /\ p \in DOMAIN report => /\ report[p] \in Version /\ report[p].hash # 0
                                /\ now[p].hash # 0 => report[p].ts >= now[p].ts
  BY <1>1, <1>2, ReportFacts
<1>4. /\ plan[p].direction = "Download" =>
           /\ local[p].hash # 0 /\ plan[p].ts = local[p].ts
           /\ p \in DOMAIN report => local[p].ts > report[p].ts
      /\ plan[p].direction = "Upload" => p \in DOMAIN report
  BY <1>1, <1>2, <1>3, PlanFacts
<1>5. now[p].ts \in Nat /\ local[p].ts \in Nat /\ (p \in DOMAIN report => report[p].ts \in Nat)
  BY <1>1, <1>3 DEF Tree, Version
<1> QED
  BY <1>1, <1>3, <1>4, <1>5

-----------------------------------------------------------------------------
(* What the parts of the actions do to the history.                         *)

LEMMA QuietBefore ==
  ASSUME events \subseteq events', Undisturbed'
  PROVE  Undisturbed /\ "fail" \notin events' /\ "restart" \notin events' /\ "late" \notin events'
BY DEF Undisturbed, Quiet

LEMMA PutSeen ==
  ASSUME NEW side \in Side, NEW p \in Path, NEW v, Put(side, p, v)
  PROVE  /\ settled \subseteq settled'
         /\ settled' \subseteq settled \cup {v.hash}
         /\ side = "client" => settled' = settled
         /\ side = "server" => v.hash \in settled'
BY DEF Put

LEMMA CutHistory ==
  ASSUME TypeOK, NEW P, P \subseteq DOMAIN plan, Cut(P)
  PROVE  /\ settled \subseteq settled' /\ clock' \in Nat /\ clock <= clock'
         /\ \A s \in Side, p \in Path :
              \/ tree'[s][p] = tree[s][p]
              \/ tree'[s][p].hash = clock' /\ (s = "server" => clock' \in settled')
<1>0. DOMAIN plan \subseteq Path /\ clock \in Nat
  BY DEF TypeOK
<1>1. CASE UNCHANGED <<tree, settled, clock>>
  BY <1>0, <1>1
<1>2. ASSUME NEW T \in SUBSET {p \in P : plan[p].direction # "Skip"},
             clock' = clock + 1,
             tree' = [side \in Side |-> [p \in Path |->
                        IF p \in T /\ Target(p) = side
                        THEN [hash |-> clock', ts |-> plan[p].ts] ELSE tree[side][p]]],
             settled' = settled \cup {tree'["server"][p].hash : p \in T}
      PROVE  /\ settled \subseteq settled' /\ clock' \in Nat /\ clock <= clock'
             /\ \A s \in Side, p \in Path :
                  \/ tree'[s][p] = tree[s][p]
                  \/ tree'[s][p].hash = clock' /\ (s = "server" => clock' \in settled')
  <2>1. ASSUME NEW s \in Side, NEW p \in Path
        PROVE  \/ tree'[s][p] = tree[s][p]
               \/ p \in T /\ tree'[s][p].hash = clock'
    <3>1. tree'[s][p] = IF p \in T /\ Target(p) = s
                        THEN [hash |-> clock', ts |-> plan[p].ts] ELSE tree[s][p]
      BY <1>2
    <3> QED
      BY <3>1
  <2> QED
    BY <1>0, <1>2, <2>1
<1> QED
  BY <1>1, <1>2 DEF Cut

\* The versions of a tree are versions, and a state that was loaded was not cut short.
LEMMA TreeTypes ==
  ASSUME IInv, NEW p \in Path
  PROVE  /\ \A s \in Side : tree[s][p] \in Version /\ tree[s][p].hash \in Nat
         /\ now[p] \in Version /\ now[p].hash \in Nat
         /\ local[p] \in Version /\ local[p].hash \in Nat
         /\ saved # Corrupt => saved[p] \in Version /\ saved[p].hash \in Nat
         /\ saved \in Tree => saved # Corrupt
<1>1. /\ \A s \in Side : tree[s][p] \in Version
      /\ now[p] \in Version /\ local[p] \in Version
      /\ saved # Corrupt => saved[p] \in Version
  BY DEF IInv, TypeOK, Tree
<1>2. saved \in Tree => saved # Corrupt
  <2>1. saved \in Tree => p \in DOMAIN saved
    BY DEF Tree
  <2>2. DOMAIN Corrupt = {}
    BY DEF Corrupt
  <2> QED
    BY <2>1, <2>2
<1> QED
  BY <1>1, <1>2 DEF Version

-----------------------------------------------------------------------------
(* Every step keeps the invariant.                                          *)

\* A round that is given up leaves nothing to say about transfers.
LEMMA AgreeGivenUp ==
  ASSUME GiveUp, Bounded', ServerSeen', SavedSettled', FirstEmpty'
  PROVE  Agreement'
<1>1. phase' = "idle" /\ \A p \in Path : stage'[p] = "none"
  BY GiveUpEffect
<1> QED
  BY <1>1 DEF Agreement, ReportIs, PlanIs, KeepsSession, NowCurrent, LocalCurrent, NowSettled,
     SourceLost, Agreed

LEMMA AgreeGiveUp ==
  ASSUME IInv, Agreement, GiveUp, UNCHANGED <<tree, saved, clock, settled>>,
         late' \subseteq late, events \subseteq events'
  PROVE  Agreement'
<1>1. \A p \in Path : now'[p].hash = 0
  BY DEF GiveUp, EmptyTree, NoFile
<1>2. clock \in Nat
  BY DEF IInv, TypeOK
<1>3. Bounded' /\ ServerSeen'
  BY <1>1, <1>2 DEF Agreement, Bounded, ServerSeen
<1>4. Undisturbed' => Undisturbed
  BY QuietBefore
<1>5. SavedSettled'
  BY <1>4 DEF Agreement, SavedSettled
<1>6. FirstEmpty'
  BY <1>1, <1>4 DEF Agreement, FirstEmpty, NoEmpty, EmptyHash
<1> QED
  BY <1>3, <1>5, <1>6, AgreeGivenUp

LEMMA AgreeStartSync == ASSUME IInv, Agreement, StartSync PROVE Agreement'
<1>0. /\ phase = "idle" /\ phase' = "stat"
      /\ now' = [p \in Path |-> [hash |-> tree["client"][p].hash, ts |-> 0]]
      /\ UNCHANGED <<tree, saved, report, local, plan, stage, late, session, clock, settled, events>>
  BY DEF StartSync
<1>1. \A p \in Path : now'[p].hash = tree["client"][p].hash
  BY <1>0
<1>2. Undisturbed' = Undisturbed
  BY <1>0 DEF Undisturbed, Quiet
<1>3. Bounded'
  BY <1>0, <1>1 DEF Agreement, Bounded
<1>7. ServerSeen' /\ SavedSettled'
  BY <1>0, <1>2 DEF Agreement, ServerSeen, SavedSettled
<1>4. ReportIs' /\ PlanIs' /\ KeepsSession' /\ NowCurrent' /\ LocalCurrent'
  BY <1>0, <1>1 DEF Agreement, ReportIs, PlanIs, KeepsSession, NowCurrent, LocalCurrent
<1>5. NowSettled' /\ SourceLost' /\ Agreed'
  BY <1>0 DEF NowSettled, SourceLost, Agreed
<1>6. FirstEmpty'
  BY <1>0, <1>1, <1>2 DEF Agreement, FirstEmpty, NoEmpty
<1> QED
  BY <1>3, <1>4, <1>5, <1>6, <1>7 DEF Agreement

\* The second step of a scan adds the times.
LEMMA StatFacts ==
  ASSUME NEW scan \in Tree, NEW t \in Tree, NEW p \in Path
  PROVE  /\ Stat(scan, t)[p].hash = scan[p].hash
         /\ scan[p].hash # 0 => Stat(scan, t)[p].ts = t[p].ts
<1>1. scan[p] \in Version
  BY DEF Tree
<1>2. Stat(scan, t)[p] = IF scan[p].hash = 0 THEN NoFile ELSE [scan[p] EXCEPT !.ts = t[p].ts]
  BY DEF Stat
<1> QED
  BY <1>1, <1>2 DEF Version, NoFile

LEMMA AgreeScanStat == ASSUME IInv, Agreement, ScanStat PROVE Agreement'
<1>1. CASE GiveUp
  BY <1>1, AgreeGiveUp DEF ScanStat
<1>2. CASE ~GiveUp
  <2>0. /\ phase = "stat" /\ phase' = "call"
        /\ now' = Stat(now, tree["client"]) /\ report' = CompareStates(saved, now')
        /\ UNCHANGED <<tree, saved, local, plan, stage, late, session, clock, touched, settled, events>>
    BY <1>2 DEF ScanStat
  <2>1. \A p \in Path : /\ now'[p].hash = now[p].hash
                        /\ now[p].hash # 0 => now'[p].ts = tree["client"][p].ts
    <3>1. now \in Tree /\ tree["client"] \in Tree
      BY DEF IInv, TypeOK
    <3> QED
      BY <2>0, <3>1, StatFacts
  <2>2. Undisturbed' = Undisturbed
    BY <2>0 DEF Undisturbed, Quiet
  <2>3. Bounded' /\ ServerSeen' /\ SavedSettled'
    BY <2>0, <2>1, <2>2 DEF Agreement, Bounded, ServerSeen, SavedSettled
  <2>4. ReportIs' /\ PlanIs' /\ KeepsSession' /\ LocalCurrent'
    BY <2>0 DEF Agreement, ReportIs, PlanIs, KeepsSession, LocalCurrent
  <2>5. NowCurrent'
    BY <2>0, <2>1, <2>2 DEF Agreement, NowCurrent
  <2>6. NowSettled' /\ SourceLost' /\ Agreed'
    BY <2>0 DEF NowSettled, SourceLost, Agreed
  <2>7. FirstEmpty'
    BY <2>0, <2>1, <2>2 DEF Agreement, FirstEmpty, NoEmpty
  <2> QED
    BY <2>3, <2>4, <2>5, <2>6, <2>7 DEF Agreement
<1> QED
  BY <1>1, <1>2

LEMMA AgreeInitiateSync == ASSUME IInv, Agreement, InitiateSync PROVE Agreement'
<1>0. /\ phase = "call" /\ phase' = "serverStat"
      /\ local' = [p \in Path |-> [hash |-> tree["server"][p].hash, ts |-> 0]]
      /\ touched'["client"] = touched["client"]
      /\ UNCHANGED <<tree, saved, now, report, plan, stage, late, session, clock, settled, events>>
  BY DEF InitiateSync, IInv, TypeOK
<1>1. \A p \in Path : local'[p].hash = tree["server"][p].hash
  BY <1>0
<1>2. Undisturbed' = Undisturbed
  BY <1>0 DEF Undisturbed, Quiet
<1>3. Bounded' /\ ServerSeen' /\ SavedSettled' /\ FirstEmpty'
  BY <1>0, <1>2 DEF Agreement, Bounded, ServerSeen, SavedSettled, FirstEmpty
<1>4. ReportIs' /\ PlanIs' /\ KeepsSession'
  BY <1>0 DEF Agreement, ReportIs, PlanIs, KeepsSession
<1>5. NowCurrent'
  BY <1>0, <1>2 DEF Agreement, NowCurrent
<1>6. LocalCurrent' /\ SourceLost'
  BY <1>0, <1>1 DEF LocalCurrent, SourceLost
<1>7. NowSettled' /\ Agreed'
  BY <1>0 DEF NowSettled, Agreed
<1> QED
  BY <1>3, <1>4, <1>5, <1>6, <1>7 DEF Agreement

\* What is not in the plan was not reported, so the client and its saved state agree.
LEMMA AgreeMakePlan == ASSUME IInv, Agreement, MakePlan PROVE Agreement'
<1>1. CASE GiveUp
  BY <1>1, AgreeGiveUp DEF MakePlan
<1>2. CASE ~GiveUp
  <2>0. /\ phase = "serverStat" /\ phase' = "transfer"
        /\ local' = Stat(local, tree["server"])
        /\ plan' = GenerateSyncPlan(local', report)
        /\ stage' = [p \in Path |-> IF p \in DOMAIN plan' THEN "todo" ELSE "none"]
        /\ session' = TRUE
        /\ UNCHANGED <<tree, saved, now, report, late, clock, touched, settled, events>>
    BY <1>2 DEF MakePlan
  <2>1. local \in Tree /\ tree["server"] \in Tree /\ now \in Tree /\ saved \in Tree
    <3>1. local \in Tree /\ tree["server"] \in Tree /\ now \in Tree
      BY DEF IInv, TypeOK
    <3> QED
      BY <2>0, <3>1 DEF IInv, Loaded
  <2>2. \A p \in Path : local'[p].hash = local[p].hash
    BY <2>0, <2>1, StatFacts
  <2>3. Undisturbed' = Undisturbed /\ \A p \in Path : stage[p] = "none"
    BY <2>0 DEF Undisturbed, Quiet, Agreement, PlanIs
  <2>4. Bounded' /\ ServerSeen' /\ SavedSettled' /\ FirstEmpty'
    BY <2>0, <2>3 DEF Agreement, Bounded, ServerSeen, SavedSettled, FirstEmpty
  <2>5. ReportIs' /\ PlanIs' /\ KeepsSession'
    BY <2>0 DEF Agreement, ReportIs, PlanIs, KeepsSession
  <2>6. NowCurrent' /\ LocalCurrent'
    BY <2>0, <2>2, <2>3 DEF Agreement, NowCurrent, LocalCurrent
  <2>7. NowSettled'
    <3> SUFFICES ASSUME Undisturbed, NEW p \in Path, stage'[p] = "none",
                        now[p].hash = tree["client"][p].hash
                 PROVE  now[p].hash \in settled \cup {0}
      BY <2>0, <2>3 DEF NowSettled
    <3>1. p \notin DOMAIN plan'
      BY <2>0
    <3>2. local' \in Tree
      BY <2>0, <2>1, StatType
    <3>3. report = CompareStates(saved, now)
      BY <2>0 DEF Agreement, ReportIs
    <3>4. p \notin DOMAIN report
      BY <2>0, <2>1, <3>1, <3>2, <3>3, ReportFacts, PlanFacts
    <3>5. saved[p].hash = now[p].hash
      BY <2>1, <3>3, <3>4, ReportFacts
    <3>6. saved # Corrupt
      BY <2>1, TreeTypes
    <3> QED
      BY <3>5, <3>6 DEF Agreement, SavedSettled
  <2>8. SourceLost'
    BY <2>0, <2>2, <2>3 DEF Agreement, SourceLost
  <2>9. Agreed'
    BY <2>0 DEF Agreed
  <2> QED
    BY <2>4, <2>5, <2>6, <2>7, <2>8, <2>9 DEF Agreement
<1> QED
  BY <1>1, <1>2

LEMMA AgreeBegin == ASSUME IInv, Agreement, NEW p \in Path, Begin(p) PROVE Agreement'
<1>0. /\ phase = "transfer" /\ stage[p] = "todo"
      /\ \A q \in Path : q # p => stage'[q] = stage[q]
      /\ stage'[p] = IF session THEN "active" ELSE "done"
      /\ UNCHANGED <<tree, saved, phase, now, report, local, plan, late, session, clock,
                     touched, settled, events>>
  BY DEF Begin, IInv, TypeOK, round, ghosts
<1>1. Undisturbed' = Undisturbed /\ (Undisturbed => session)
  BY <1>0 DEF Undisturbed, Quiet, Agreement, KeepsSession
<1>2. Bounded' /\ ServerSeen' /\ SavedSettled' /\ FirstEmpty' /\ SourceLost'
  BY <1>0, <1>1 DEF Agreement, Bounded, ServerSeen, SavedSettled, FirstEmpty, SourceLost
<1>3. ReportIs' /\ PlanIs' /\ KeepsSession'
  BY <1>0, <1>1 DEF Agreement, ReportIs, PlanIs, KeepsSession
<1>4. NowCurrent' /\ LocalCurrent'
  BY <1>0, <1>1 DEF Agreement, NowCurrent, LocalCurrent
<1>5. NowSettled' /\ Agreed'
  BY <1>0, <1>1 DEF Agreement, NowSettled, Agreed
<1> QED
  BY <1>2, <1>3, <1>4, <1>5 DEF Agreement

\* Steps of a round that something has disturbed, or a task without its server.
LEMMA AgreeDisturbed ==
  ASSUME IInv, Agreement, Bounded', ServerSeen', phase' = phase, ~ Undisturbed',
         UNCHANGED <<saved, now, report, local, plan>>,
         \A p \in Path : stage'[p] = "none" <=> stage[p] = "none"
  PROVE  Agreement'
<1>1. ReportIs' /\ PlanIs'
  BY DEF Agreement, ReportIs, PlanIs
<1> QED
  BY <1>1 DEF Agreement, KeepsSession, NowCurrent, LocalCurrent, SavedSettled, NowSettled, FirstEmpty,
     SourceLost, Agreed

\* A download gives the client what the server has, which is a content it has had;
\* without a source, the client gets an empty file.  An upload gives the server what
\* the client has.
LEMMA AgreeTransfer == ASSUME IInv, Agreement, NEW p \in Path, Transfer(p) PROVE Agreement'
<1> DEFINE v == Sent(p)
<1>0. /\ p \in DOMAIN plan /\ phase = "transfer" /\ stage[p] = "active"
      /\ plan[p].direction # "Skip" /\ stage' = [stage EXCEPT ![p] = "done"]
      /\ Put(Target(p), p, v)
      /\ UNCHANGED <<saved, phase, now, report, local, plan, late, session, clock, touched, events>>
  BY DEF Transfer, Running, Hanging, Active, Begun, IInv, Staged, round
<1>1. /\ TypeOK /\ v \in Version
      /\ \A s \in Side, q \in Path :
           tree'[s][q] = IF s = Target(p) /\ q = p THEN v ELSE tree[s][q]
  BY <1>0, SentType, PutEffect DEF IInv
<1>2. /\ Undisturbed' = Undisturbed /\ settled \subseteq settled'
      /\ \A q \in Path : stage'[q] = IF q = p THEN "done" ELSE stage[q]
  BY <1>0, <1>1, SentType, EndTaskEffect, PutSeen DEF Undisturbed, Quiet
<1>3. \/ /\ plan[p].direction = "Upload" /\ Target(p) = "server" /\ v.hash \in settled'
         /\ v.hash = IF tree["client"][p].hash = 0 THEN EmptyHash ELSE tree["client"][p].hash
      \/ /\ plan[p].direction = "Download" /\ Target(p) = "client" /\ settled' = settled
         /\ v.hash = IF tree["server"][p].hash = 0 THEN EmptyHash ELSE tree["server"][p].hash
         /\ local[p].hash # 0
  <2>1. plan[p].direction \in {"Upload", "Download"}
    BY <1>0 DEF IInv, TypeOK, FileAction
  <2>2. CASE plan[p].direction = "Upload"
    BY <1>0, <2>2, PutSeen DEF Target, Source, Sent
  <2>3. CASE plan[p].direction = "Download"
    BY <1>0, <2>3, PutSeen, RoundFacts DEF Target, Source, Sent
  <2> QED
    BY <2>1, <2>2, <2>3
<1> HIDE DEF v
<1>4. /\ clock \in Nat
      /\ \A q \in Path : tree["client"][q].hash \in Nat /\ tree["server"][q].hash \in Nat
  BY TreeTypes DEF IInv, TypeOK
<1>5. Bounded'
  BY <1>0, <1>1, <1>3, <1>4 DEF Agreement, Bounded, EmptyHash
<1>6. ServerSeen'
  BY <1>1, <1>2, <1>3 DEF Agreement, ServerSeen
<1>7. ReportIs' /\ PlanIs' /\ KeepsSession'
  BY <1>0, <1>2 DEF Agreement, ReportIs, PlanIs, KeepsSession
<1>8. NowCurrent' /\ LocalCurrent'
  BY <1>0, <1>1, <1>2 DEF Agreement, NowCurrent, LocalCurrent
\* What the client got is a content of the server, or the empty one without a source.
<1>9. ASSUME Undisturbed, plan[p].direction = "Download"
      PROVE  \/ v.hash \in settled
             \/ /\ v.hash = EmptyHash /\ EmptyHash \notin settled /\ tree["server"][p].hash = 0
                /\ "remove" \in events /\ NoEmpty(now) /\ (saved # Corrupt => NoEmpty(saved))
  BY <1>0, <1>3, <1>9 DEF Agreement, ServerSeen, SourceLost
<1>10. SavedSettled'
  <2> SUFFICES ASSUME Undisturbed, saved # Corrupt, NEW q \in Path,
                      saved[q].hash = tree'["client"][q].hash
               PROVE  saved[q].hash \in settled' \cup {0}
    BY <1>0, <1>2 DEF SavedSettled
  <2>1. CASE tree'["client"][q] = tree["client"][q]
    BY <1>2, <2>1 DEF Agreement, SavedSettled
  <2>2. CASE tree'["client"][q] # tree["client"][q]
    <3>1. q = p /\ plan[p].direction = "Download" /\ tree'["client"][p] = v
      BY <1>1, <1>3, <2>2
    <3> QED
      BY <1>2, <1>9, <3>1 DEF NoEmpty
  <2> QED
    BY <2>1, <2>2
<1>11. NowSettled'
  <2> SUFFICES ASSUME Undisturbed, NEW q \in Path, stage'[q] \in {"none", "kept", "done"},
                      now[q].hash = tree'["client"][q].hash
               PROVE  now[q].hash \in settled' \cup {0}
    BY <1>0, <1>2 DEF NowSettled
  <2>1. CASE q # p
    BY <1>0, <1>1, <1>2, <2>1 DEF Agreement, NowSettled
  <2>2. CASE q = p /\ plan[p].direction = "Upload"
    BY <1>1, <1>3, <2>2
  <2>3. CASE q = p /\ plan[p].direction = "Download"
    BY <1>1, <1>2, <1>3, <1>9, <2>3 DEF NoEmpty
  <2> QED
    BY <1>3, <2>1, <2>2, <2>3
<1>12. FirstEmpty'
  BY <1>0, <1>1, <1>2, <1>3, <1>9 DEF Agreement, FirstEmpty, NoEmpty
<1>13. SourceLost'
  <2> SUFFICES ASSUME Undisturbed, EmptyHash \notin settled, NEW q \in Path, local[q].hash # 0,
                      tree'["server"][q].hash = 0
               PROVE  "remove" \in events /\ NoEmpty(now) /\ (saved # Corrupt => NoEmpty(saved))
    BY <1>0, <1>2 DEF SourceLost
  <2>1. tree["server"][q].hash = 0
    BY <1>1, <1>3 DEF EmptyHash
  <2> QED
    BY <1>0, <2>1 DEF Agreement, SourceLost
<1>14. Agreed'
  <2> SUFFICES ASSUME Undisturbed, NEW q \in Path, stage'[q] = "done",
                      q \notin touched["client"] \cup touched["server"]
               PROVE  \/ tree'["client"][q].hash = tree'["server"][q].hash
                      \/ q \in DOMAIN report /\ now[q].hash = 0
    BY <1>0, <1>2 DEF Agreed
  <2>1. CASE q # p
    BY <1>0, <1>1, <1>2, <2>1 DEF Agreement, Agreed
  <2>2. CASE q = p
    <3>1. /\ now[p].hash = tree["client"][p].hash
          /\ local[p].hash = tree["server"][p].hash
      BY <1>0, <2>2 DEF Agreement, NowCurrent, LocalCurrent
    <3>2. plan[p].direction = "Upload" => p \in DOMAIN report
      BY <1>0, RoundFacts
    <3> QED
      BY <1>1, <1>3, <2>2, <3>1, <3>2
  <2> QED
    BY <2>1, <2>2
<1> QED
  BY <1>5, <1>6, <1>7, <1>8, <1>10, <1>11, <1>12, <1>13, <1>14 DEF Agreement

\* A transfer that wrote nothing settles what was scanned.
LEMMA AgreeTransferKept ==
  ASSUME IInv, Agreement, NEW p \in Path, TransferKept(p) PROVE Agreement'
<1>0. /\ phase = "transfer" /\ stage[p] = "active" /\ stage' = [stage EXCEPT ![p] = "kept"]
      /\ settled' = settled \cup {now[p].hash}
      /\ UNCHANGED <<tree, saved, phase, now, report, local, plan, late, session, clock, touched,
                     events>>
  BY DEF TransferKept, Running, Hanging, Active, Begun, round
<1>1. /\ Undisturbed' = Undisturbed
      /\ \A q \in Path : stage'[q] = IF q = p THEN "kept" ELSE stage[q]
  BY <1>0 DEF IInv, TypeOK, Undisturbed, Quiet
<1>2. Bounded' /\ ServerSeen' /\ SavedSettled' /\ FirstEmpty' /\ SourceLost'
  BY <1>0, <1>1 DEF Agreement, Bounded, ServerSeen, SavedSettled, FirstEmpty, SourceLost
<1>3. ReportIs' /\ PlanIs' /\ KeepsSession'
  BY <1>0, <1>1 DEF Agreement, ReportIs, PlanIs, KeepsSession
<1>4. NowCurrent' /\ LocalCurrent' /\ Agreed'
  BY <1>0, <1>1 DEF Agreement, NowCurrent, LocalCurrent, Agreed
<1>5. NowSettled'
  BY <1>0, <1>1 DEF Agreement, NowSettled
<1> QED
  BY <1>2, <1>3, <1>4, <1>5 DEF Agreement

\* A mixture of blocks is a new content, of a file a user wrote.
LEMMA AgreeTransferGarbled ==
  ASSUME IInv, Agreement, NEW p \in Path, TransferGarbled(p) PROVE Agreement'
<1> DEFINE v == [hash |-> clock', ts |-> plan[p].ts]
<1>0. /\ p \in DOMAIN plan /\ stage[p] = "active" /\ p \in touched["client"]
      /\ stage' = [stage EXCEPT ![p] = "done"] /\ Put("client", p, v)
      /\ clock' = clock + 1 /\ clock \in Nat /\ clock > 0 /\ phase = "transfer"
      /\ UNCHANGED <<saved, phase, now, report, local, plan, late, session, touched, events>>
  BY DEF TransferGarbled, Running, Hanging, Active, Begun, IInv, Staged, TypeOK, Agreement,
     Bounded, round
<1>1. v \in Version /\ v.hash = clock'
  BY <1>0 DEF IInv, TypeOK, FileAction, Version
<1> HIDE DEF v
<1>2. /\ \A q \in Path : tree'["client"][q] = IF q = p THEN v ELSE tree["client"][q]
      /\ \A q \in Path : tree'["server"][q] = tree["server"][q]
      /\ settled' = settled
  BY <1>0, <1>1, PutEffect, PutSeen DEF IInv
<1>3. /\ Undisturbed' = Undisturbed
      /\ \A q \in Path : stage'[q] = IF q = p THEN "done" ELSE stage[q]
  BY <1>0 DEF IInv, TypeOK, Undisturbed, Quiet
<1>4. \A q \in Path : /\ now[q].hash \in Nat /\ (saved # Corrupt => saved[q].hash \in Nat)
                      /\ \A s \in Side : tree[s][q].hash \in Nat
  BY TreeTypes
<1>5. Bounded'
  <2>1. \A w \in late' : w.version.hash <= clock'
    BY <1>0 DEF IInv, TypeOK, Write, Version, Agreement, Bounded
  <2> QED
    BY <1>0, <1>1, <1>2, <1>4, <2>1 DEF Agreement, Bounded
<1>6. ServerSeen' /\ SourceLost'
  BY <1>0, <1>2, <1>3 DEF Agreement, ServerSeen, SourceLost
<1>7. ReportIs' /\ PlanIs' /\ KeepsSession'
  BY <1>0, <1>3 DEF Agreement, ReportIs, PlanIs, KeepsSession
<1>8. NowCurrent' /\ LocalCurrent' /\ Agreed'
  BY <1>0, <1>2, <1>3 DEF Agreement, NowCurrent, LocalCurrent, Agreed
<1>9. SavedSettled' /\ NowSettled'
  <2>1. \A q \in Path : (saved # Corrupt => saved[q].hash < clock') /\ now[q].hash < clock'
    BY <1>0, <1>4 DEF Agreement, Bounded
  <2> QED
    BY <1>0, <1>1, <1>2, <1>3, <2>1 DEF Agreement, SavedSettled, NowSettled
<1>10. FirstEmpty'
  BY <1>0, <1>1, <1>2, <1>3 DEF Agreement, FirstEmpty, NoEmpty, EmptyHash
<1> QED
  BY <1>5, <1>6, <1>7, <1>8, <1>9, <1>10 DEF Agreement

LEMMA AgreeHang == ASSUME IInv, Agreement, NEW p \in Path, Hang(p) PROVE Agreement'
<1>0. /\ phase = "transfer" /\ stage[p] = "active"
      /\ \A q \in Path : stage'[q] = IF q = p THEN "hung" ELSE stage[q]
      /\ UNCHANGED <<tree, saved, phase, now, report, local, plan, late, session, clock, touched,
                     settled, events>>
  BY DEF Hang, Running, Hanging, Active, Begun, IInv, TypeOK, round, ghosts
<1>1. Undisturbed' = Undisturbed
  BY <1>0 DEF Undisturbed, Quiet
<1>2. Bounded' /\ ServerSeen' /\ SavedSettled' /\ FirstEmpty' /\ SourceLost'
  BY <1>0, <1>1 DEF Agreement, Bounded, ServerSeen, SavedSettled, FirstEmpty, SourceLost
<1>3. ReportIs' /\ PlanIs' /\ KeepsSession'
  BY <1>0, <1>1 DEF Agreement, ReportIs, PlanIs, KeepsSession
<1>4. NowCurrent' /\ LocalCurrent' /\ NowSettled' /\ Agreed'
  BY <1>0, <1>1 DEF Agreement, NowCurrent, LocalCurrent, NowSettled, Agreed
<1> QED
  BY <1>2, <1>3, <1>4 DEF Agreement

LEMMA AgreeTransferLate ==
  ASSUME IInv, Agreement, NEW p \in Path, TransferLate(p) PROVE Agreement'
<1>0. /\ p \in DOMAIN plan /\ stage[p] = "active" /\ stage' = [stage EXCEPT ![p] = "done"]
      /\ late' = late \cup {[side |-> Target(p), path |-> p, version |-> Sent(p)]}
      /\ "late" \in events'
      /\ UNCHANGED <<tree, saved, phase, now, report, local, plan, session, clock, touched, settled>>
  BY DEF TransferLate, Running, Hanging, Active, Begun, IInv, Staged, round, ghosts, Happens
<1>1. Sent(p).hash <= clock
  <2>1. Source(p) \in Side /\ clock \in Nat
    BY <1>0, SentType DEF IInv, TypeOK
  <2>2. clock > 0 /\ tree[Source(p)][p].hash <= clock
    BY <2>1 DEF Agreement, Bounded
  <2> QED
    BY <2>1, <2>2 DEF Sent, EmptyHash
<1>2. Bounded' /\ ServerSeen'
  BY <1>0, <1>1 DEF Agreement, Bounded, ServerSeen
<1>3. ~ Undisturbed' /\ \A q \in Path : stage'[q] = "none" <=> stage[q] = "none"
  BY <1>0, EndTaskEffect DEF IInv, Undisturbed, Quiet
<1> QED
  BY <1>0, <1>2, <1>3, AgreeDisturbed

LEMMA AgreeLand == ASSUME IInv, Agreement, Land PROVE Agreement'
<1>1. PICK w \in late :
        /\ Put(w.side, w.path, w.version) /\ late' = late \ {w}
        /\ UNCHANGED <<saved, phase, now, report, local, plan, stage, session, clock, touched, events>>
  BY DEF Land, round
<1>2. /\ w.side \in Side /\ w.path \in Path /\ w.version \in Version /\ "late" \in events
      /\ TypeOK
  BY DEF IInv, TypeOK, Write, LateOnlyByEvent
<1>3. \A s \in Side, q \in Path :
        tree'[s][q] = IF s = w.side /\ q = w.path THEN w.version ELSE tree[s][q]
  BY <1>1, <1>2, PutEffect
<1>4. Bounded'
  BY <1>1, <1>3 DEF Agreement, Bounded
<1>5. ServerSeen'
  BY <1>1, <1>2, <1>3, PutSeen DEF Agreement, ServerSeen
<1>6. ~ Undisturbed'
  BY <1>1, <1>2 DEF Undisturbed, Quiet
<1> QED
  BY <1>1, <1>4, <1>5, <1>6, AgreeDisturbed

LEMMA CutAgrees ==
  ASSUME IInv, Agreement, NEW P, P \subseteq DOMAIN plan, Cut(P), late' \subseteq late,
         UNCHANGED saved, now' = now \/ now' = EmptyTree
  PROVE  Bounded' /\ ServerSeen'
<1>1. /\ settled \subseteq settled' /\ clock' \in Nat /\ clock <= clock'
      /\ \A s \in Side, p \in Path :
           \/ tree'[s][p] = tree[s][p]
           \/ tree'[s][p].hash = clock' /\ (s = "server" => clock' \in settled')
  BY CutHistory DEF IInv
<1>2. \A p \in Path : EmptyTree[p].hash = 0
  BY DEF EmptyTree, NoFile
<1>3. /\ clock \in Nat /\ \A w \in late : w.version.hash \in Nat
      /\ \A p \in Path : /\ now[p].hash \in Nat /\ (saved # Corrupt => saved[p].hash \in Nat)
                         /\ \A s \in Side : tree[s][p].hash \in Nat
  BY TreeTypes DEF IInv, TypeOK, Write, Version
<1>4. clock' > 0 /\ \A w \in late' : w.version.hash <= clock'
  BY <1>1, <1>3 DEF Agreement, Bounded
<1>5. ASSUME NEW p \in Path
      PROVE  /\ now'[p].hash <= clock'
             /\ saved' # Corrupt => saved'[p].hash <= clock'
             /\ \A s \in Side : tree'[s][p].hash <= clock'
  BY <1>1, <1>2, <1>3 DEF Agreement, Bounded
<1>6. Bounded'
  BY <1>4, <1>5 DEF Bounded
<1>7. ServerSeen'
  BY <1>1 DEF Agreement, ServerSeen
<1> QED
  BY <1>6, <1>7

LEMMA AgreeBreak == ASSUME IInv, Agreement, NEW p \in Path, Break(p) PROVE Agreement'
<1>0. /\ p \in DOMAIN plan /\ phase = "transfer" /\ stage[p] # "none"
      /\ stage' = [stage EXCEPT ![p] = "done"]
      /\ "fail" \in events' \/ (~session /\ events' = events)
      /\ UNCHANGED <<saved, phase, now, report, local, plan, late, session, touched>>
  BY DEF Break, Active, Begun, IInv, Staged, round, Happens
<1>1. PICK P \in SUBSET {p} : Cut(P)
  <2>1. {p} \cap {q \in Path : Target(q) = "client"} \in SUBSET {p}
    OBVIOUS
  <2> QED
    BY <2>1 DEF Break
<1>2. Bounded' /\ ServerSeen'
  BY <1>0, <1>1, CutAgrees
<1>3. ~ Undisturbed'
  BY <1>0 DEF Agreement, KeepsSession, Undisturbed, Quiet
<1>4. \A q \in Path : stage'[q] = "none" <=> stage[q] = "none"
  BY <1>0, EndTaskEffect DEF IInv
<1> QED
  BY <1>0, <1>2, <1>3, <1>4, AgreeDisturbed

LEMMA AgreeSave == ASSUME IInv, Agreement, AllDone \/ SaveOpen PROVE Agreement'
<1>0. /\ UNCHANGED <<tree, now, report, local, plan, stage, late, session, clock, touched, settled, events>>
      /\ \/ phase' = "save" /\ saved' = saved /\ phase = "transfer"
         \/ phase' = "write" /\ saved' = Corrupt /\ phase = "save"
  BY DEF AllDone, SaveOpen, round, ghosts
<1>1. Undisturbed' = Undisturbed
  BY <1>0 DEF Undisturbed, Quiet
<1>2. Bounded' /\ ServerSeen' /\ SavedSettled'
  BY <1>0, <1>1 DEF Agreement, Bounded, ServerSeen, SavedSettled
<1>3. ReportIs' /\ PlanIs' /\ KeepsSession' /\ NowCurrent' /\ LocalCurrent'
  BY <1>0 DEF Agreement, ReportIs, PlanIs, KeepsSession, NowCurrent, LocalCurrent
<1>4. NowSettled' /\ Agreed'
  BY <1>0, <1>1 DEF Agreement, NowSettled, Agreed
<1>5. FirstEmpty' /\ SourceLost'
  BY <1>0, <1>1 DEF Agreement, FirstEmpty, SourceLost
<1> QED
  BY <1>2, <1>3, <1>4, <1>5 DEF Agreement

LEMMA AgreeSaveWrite == ASSUME IInv, Agreement, SaveWrite PROVE Agreement'
<1>0. /\ phase = "write" /\ GiveUp /\ saved' = Reloaded(now)
      /\ UNCHANGED <<tree, late, clock, settled, events>>
  BY DEF SaveWrite
<1>1. \A p \in Path : now'[p].hash = 0 /\ saved'[p].hash = now[p].hash
  <2>1. \A p \in Path : now[p] \in Version
    BY DEF IInv, TypeOK, Tree
  <2>2. \A p \in Path : saved'[p] = [now[p] EXCEPT !.ts = @ - (@ % Micro)]
    BY <1>0 DEF Reloaded
  <2>3. \A p \in Path : saved'[p].hash = now[p].hash
    BY <2>1, <2>2 DEF Version
  <2> QED
    BY <1>0, <2>3 DEF GiveUp, EmptyTree, NoFile
<1>2. Undisturbed' = Undisturbed
  BY <1>0 DEF Undisturbed, Quiet
<1>3. \A p \in Path : stage[p] \in {"none", "kept", "done"}
  BY <1>0 DEF IInv, TypeOK, Staged
<1>4. Bounded'
  BY <1>0, <1>1 DEF IInv, TypeOK, Agreement, Bounded
<1>5. ServerSeen'
  BY <1>0 DEF Agreement, ServerSeen
<1>6. SavedSettled'
  BY <1>0, <1>1, <1>2, <1>3 DEF Agreement, SavedSettled, NowSettled
<1>7. FirstEmpty'
  BY <1>0, <1>1, <1>2 DEF Agreement, FirstEmpty, NoEmpty, EmptyHash
<1> QED
  BY <1>0, <1>4, <1>5, <1>6, <1>7, AgreeGivenUp

\* A user's content is new, and its path no longer one nobody wrote.
LEMMA AgreeEdit ==
  ASSUME IInv, Agreement, NEW side \in Side, NEW p \in Path, Edit(side, p)
  PROVE  Agreement'
<1>0. /\ clock' = clock + 1 /\ clock \in Nat /\ clock > 0
      /\ UNCHANGED <<saved, phase, now, report, local, plan, stage, late, session, events>>
  BY DEF Edit, Tick, round, IInv, TypeOK, Agreement, Bounded
<1>1. /\ \A s \in Side : touched[s] \subseteq touched'[s]
      /\ p \in touched'[side]
  BY DEF Edit, IInv, TypeOK
<1>2. PICK t \in 1..clock' : Put(side, p, [hash |-> clock', ts |-> t])
  BY DEF Edit
<1> DEFINE v == [hash |-> clock', ts |-> t]
<1>3. v \in Version /\ v.hash = clock'
  BY <1>0 DEF Version
<1> HIDE DEF v
<1>4. /\ \A s \in Side, q \in Path : tree'[s][q] = IF s = side /\ q = p THEN v ELSE tree[s][q]
      /\ settled \subseteq settled' /\ (side = "server" => clock' \in settled')
      /\ settled' \subseteq settled \cup {clock'} /\ (side = "client" => settled' = settled)
  BY <1>2, <1>3, PutEffect, PutSeen DEF v, IInv
<1>5. Undisturbed' = Undisturbed
  BY <1>0 DEF Undisturbed, Quiet
<1>6. \A q \in Path : /\ now[q].hash \in Nat /\ (saved # Corrupt => saved[q].hash \in Nat)
                      /\ \A s \in Side : tree[s][q].hash \in Nat
  BY TreeTypes
<1>7. Bounded'
  <2>1. \A w \in late' : w.version.hash <= clock'
    BY <1>0 DEF IInv, TypeOK, Write, Version, Agreement, Bounded
  <2> QED
    BY <1>0, <1>3, <1>4, <1>6, <2>1 DEF Agreement, Bounded
<1>8. ServerSeen'
  BY <1>3, <1>4 DEF Agreement, ServerSeen
<1>9. ReportIs' /\ PlanIs' /\ KeepsSession'
  BY <1>0, <1>5 DEF Agreement, ReportIs, PlanIs, KeepsSession
<1>10. NowCurrent' /\ LocalCurrent'
  BY <1>0, <1>1, <1>4, <1>5 DEF Agreement, NowCurrent, LocalCurrent
<1>11. SavedSettled' /\ NowSettled'
  <2>1. \A q \in Path : (saved # Corrupt => saved[q].hash < clock') /\ now[q].hash < clock'
    BY <1>0, <1>6 DEF Agreement, Bounded
  <2> QED
    BY <1>0, <1>3, <1>4, <1>5, <2>1 DEF Agreement, SavedSettled, NowSettled
<1>12. FirstEmpty' /\ SourceLost'
  BY <1>0, <1>3, <1>4, <1>5 DEF Agreement, FirstEmpty, SourceLost, NoEmpty, EmptyHash
<1>13. Agreed'
  BY <1>0, <1>1, <1>4, <1>5 DEF Agreement, Agreed
<1> QED
  BY <1>7, <1>8, <1>9, <1>10, <1>11, <1>12, <1>13 DEF Agreement

\* A file removed on the server may leave a download without its source.
LEMMA AgreeRemove ==
  ASSUME IInv, Agreement, NEW side \in Side, NEW p \in Path, Remove(side, p)
  PROVE  Agreement'
<1>0. /\ events' = events \cup {"remove"} /\ "remove" \notin events
      /\ UNCHANGED <<saved, phase, now, report, local, plan, stage, late, session, clock>>
      /\ Put(side, p, NoFile) /\ NoFile \in Version
  BY EmptyTypes DEF Remove, Happens, round
<1>1. /\ \A s \in Side : touched[s] \subseteq touched'[s]
      /\ p \in touched'[side]
  BY DEF Remove, IInv, TypeOK
<1>2. /\ \A s \in Side, q \in Path : tree'[s][q] = IF s = side /\ q = p THEN NoFile ELSE tree[s][q]
      /\ settled \subseteq settled' /\ (side = "server" => 0 \in settled')
  BY <1>0, PutEffect, PutSeen DEF NoFile, IInv
<1>3. Undisturbed' = Undisturbed /\ NoFile.hash = 0
  BY <1>0 DEF Undisturbed, Quiet, NoFile
<1>4. Bounded'
  BY <1>0, <1>2, <1>3 DEF IInv, TypeOK, Agreement, Bounded
<1>5. ServerSeen'
  BY <1>2, <1>3 DEF Agreement, ServerSeen
<1>6. ReportIs' /\ PlanIs' /\ KeepsSession'
  BY <1>0, <1>3 DEF Agreement, ReportIs, PlanIs, KeepsSession
<1>7. NowCurrent' /\ LocalCurrent'
  BY <1>0, <1>1, <1>2, <1>3 DEF Agreement, NowCurrent, LocalCurrent
<1>8. SavedSettled' /\ NowSettled'
  BY <1>0, <1>2, <1>3 DEF Agreement, SavedSettled, NowSettled
<1>9. FirstEmpty'
  BY <1>0 DEF FirstEmpty
<1>10. SourceLost'
  BY <1>0, <1>2, <1>3 DEF Agreement, FirstEmpty, SourceLost
<1>11. Agreed'
  BY <1>0, <1>1, <1>2, <1>3 DEF Agreement, Agreed
<1> QED
  BY <1>4, <1>5, <1>6, <1>7, <1>8, <1>9, <1>10, <1>11 DEF Agreement

\* The client's kill leaves its own files alone.
LEMMA AgreeKill == ASSUME IInv, Agreement, Kill PROVE Agreement'
<1> DEFINE P == {p \in Path : Running(p) /\ Target(p) = "server"}
<1>1. P \subseteq DOMAIN plan /\ Cut(P) /\ \A p \in P : Target(p) = "server"
  BY DEF Kill, Running, Hanging, Active, Begun, IInv, Staged
<1> HIDE DEF P
<1>2. /\ GiveUp /\ late' \subseteq late /\ saved' = saved /\ events \subseteq events'
      /\ \A p \in Path : now'[p].hash = 0
  BY DEF Kill, Happens, GiveUp, EmptyTree, NoFile
<1>3. Bounded' /\ ServerSeen'
  BY <1>1, <1>2, CutAgrees DEF GiveUp
<1>4. settled \subseteq settled' /\ \A p \in Path : tree'["client"][p] = tree["client"][p]
  BY <1>1, CutEffect, CutHistory DEF IInv
<1>5. Undisturbed' => Undisturbed
  BY <1>2, QuietBefore
<1>6. SavedSettled'
  BY <1>2, <1>4, <1>5 DEF Agreement, SavedSettled
<1>7. FirstEmpty'
  BY <1>2, <1>4, <1>5 DEF Agreement, FirstEmpty, NoEmpty, EmptyHash
<1> QED
  BY <1>2, <1>3, <1>6, <1>7, AgreeGivenUp

LEMMA AgreeServerRestart == ASSUME IInv, Agreement, ServerRestart PROVE Agreement'
<1>0. /\ late' \subseteq late /\ events' = events \cup {"restart"}
      /\ UNCHANGED <<tree, saved, clock, settled>>
  BY DEF ServerRestart, Happens
<1>1. CASE GiveUp
  BY <1>0, <1>1, AgreeGiveUp
<1>2. CASE ~GiveUp
  <2>1. UNCHANGED <<phase, now, report, local, plan, stage>>
    BY <1>2 DEF ServerRestart, round
  <2>2. Bounded' /\ ServerSeen' /\ ~ Undisturbed'
    BY <1>0, <2>1 DEF Agreement, Bounded, ServerSeen, Undisturbed, Quiet
  <2> QED
    BY <1>0, <2>1, <2>2, AgreeDisturbed
<1> QED
  BY <1>1, <1>2

-----------------------------------------------------------------------------
(* The theorems.                                                            *)

LEMMA InitAgreement == Init => Agreement
<1> SUFFICES ASSUME Init PROVE Agreement
  OBVIOUS
<1>1. /\ clock = Start /\ Start \in Nat /\ Start > 0 /\ phase = "idle" /\ late = {}
      /\ \A p \in Path : now[p].hash = 0 /\ saved[p].hash = 0 /\ stage[p] = "none"
      /\ settled = {tree["server"][p].hash : p \in Path}
  BY ClockAssumption DEF Init, EmptyTree, NoFile, NoStage
<1>2. ASSUME NEW s \in Side, NEW p \in Path
      PROVE  tree[s][p].hash = 0 \/ tree[s][p].hash \in 2..Start
  <2>1. tree[s][p] \in {NoFile} \cup {[hash |-> h, ts |-> h - 1] : h \in 2..Start}
    BY DEF Init
  <2> QED
    BY <2>1 DEF NoFile
<1>3. Bounded
  <2>1. \A s \in Side, p \in Path : tree[s][p].hash <= Start
    BY <1>1, <1>2
  <2> QED
    BY <1>1, <2>1 DEF Bounded
<1>4. ServerSeen
  BY <1>1 DEF ServerSeen
<1>5. FirstEmpty
  BY <1>1, <1>2 DEF FirstEmpty, NoEmpty, EmptyHash
<1>6. SavedSettled
  BY <1>1 DEF SavedSettled
<1> QED
  BY <1>1, <1>3, <1>4, <1>5, <1>6 DEF Agreement, ReportIs, PlanIs, KeepsSession, NowCurrent,
     LocalCurrent, NowSettled, SourceLost, Agreed

LEMMA NextAgreement == IInv /\ Agreement /\ [Next]_vars => Agreement'
<1> SUFFICES ASSUME IInv, Agreement, [Next]_vars PROVE Agreement'
  OBVIOUS
<1>1. CASE RunSync
  BY <1>1, AgreeStartSync, AgreeScanStat, AgreeSave, AgreeSaveWrite DEF RunSync
<1>2. CASE Plan
  BY <1>2, AgreeInitiateSync, AgreeMakePlan DEF Plan
<1>3. CASE Offline
  BY <1>3, AgreeGiveUp DEF Offline, Happens
<1>4. CASE Spawn
  BY <1>4, AgreeBegin DEF Spawn
<1>5. CASE \E p \in Path : SyncFile(p) \/ Hang(p)
  BY <1>5, AgreeTransfer, AgreeTransferKept, AgreeTransferGarbled, AgreeTransferLate, AgreeBreak,
     AgreeHang DEF SyncFile
<1>6. CASE Land
  BY <1>6, AgreeLand
<1>7. CASE Users
  BY <1>7, AgreeEdit, AgreeRemove DEF Users
<1>8. CASE Kill \/ ServerRestart
  BY <1>8, AgreeKill, AgreeServerRestart
<1>9. CASE UNCHANGED vars
  BY <1>9 DEF vars, Agreement, Bounded, ServerSeen, ReportIs, PlanIs, KeepsSession, NowCurrent,
     LocalCurrent, SavedSettled, NowSettled, FirstEmpty, SourceLost, Agreed, Undisturbed, Quiet
<1> QED
  BY <1>1, <1>2, <1>3, <1>4, <1>5, <1>6, <1>7, <1>8, <1>9 DEF Next

LEMMA AgreementInvariant == Spec => [](IInv /\ Agreement)
BY InitInvariant, NextInvariant, InitAgreement, NextAgreement, PTL DEF Spec

\* Whatever the users do and however often rounds are broken off or started again,
\* a version the server never had stays a change against the client's saved state,
\* unless a transfer that ended well wrote nothing: no later round overlooks it
\* (client.rs:155, client.rs:188).
THEOREM ChangesReported == Spec => []ChangesStayReported
<1>1. IInv /\ Agreement => ChangesStayReported
  <2> SUFFICES ASSUME IInv, Agreement, saved # Corrupt, Undisturbed, NEW p \in Path,
                      tree["client"][p].hash \notin settled \cup {0}
               PROVE  p \in Changed(saved, tree["client"])
    BY DEF ChangesStayReported, Undisturbed
  <2>1. saved[p].hash # tree["client"][p].hash
    BY DEF Agreement, SavedSettled
  <2> QED
    BY <2>1 DEF Changed
<1> QED
  BY <1>1, AgreementInvariant, PTL

\* When the transfers of an undisturbed round are over, the two sides hold the same
\* contents, but for a file whose receiver wrote nothing and what a report cannot say
\* (client.rs:200-266, writer.rs:36, state.rs:71-86).
THEOREM RoundAgrees == Spec => []CleanRoundAgrees
<1>1. IInv /\ Agreement => CleanRoundAgrees
  <2> SUFFICES ASSUME IInv, Agreement, phase = "save", Undisturbed, NEW p \in Path,
                      \A side \in Side : touched[side] = {}
               PROVE  \/ tree["client"][p].hash = tree["server"][p].hash
                      \/ stage[p] = "kept"
                      \/ p \in DOMAIN report /\ now[p].hash = 0
                      \/ p \notin DOMAIN report /\ local[p].hash = 0
    BY DEF CleanRoundAgrees, Undisturbed
  <2>1. stage[p] \in {"none", "kept", "done"}
    BY DEF IInv, TypeOK, Staged
  <2>2. CASE stage[p] = "done"
    BY <2>2 DEF Agreement, Agreed
  <2>3. CASE stage[p] = "none"
    <3>1. p \notin DOMAIN GenerateSyncPlan(local, report) /\ local \in Tree
      BY <2>3 DEF Agreement, PlanIs, IInv, TypeOK
    <3>2. p \in DOMAIN report => report[p] \in Version /\ report[p].hash # 0
      <4>1. report = CompareStates(saved, now) /\ saved \in Tree /\ now \in Tree
        BY DEF Agreement, ReportIs, IInv, TypeOK, Loaded
      <4> QED
        BY <4>1, ReportFacts
    <3> QED
      BY <3>1, <3>2, PlanFacts
  <2> QED
    BY <2>1, <2>2, <2>3
<1> QED
  BY <1>1, AgreementInvariant, PTL

\* A step changes a client file nobody wrote only by a download under way: of a
\* version newer than the reported one, or of one the client had not changed, which
\* is then settled.
LEMMA ClientStep ==
  ASSUME IInv, Agreement, Next, NEW p \in Path, tree'["client"][p] # tree["client"][p],
         p \notin touched["client"] \cup touched'["client"], Undisturbed
  PROVE  \/ tree["client"][p].hash = 0
         \/ tree'["client"][p].ts > tree["client"][p].ts
         \/ tree["client"][p].hash \in settled
<1>0. /\ late = {} /\ TypeOK
      /\ \A q \in Begun : phase = "transfer" /\ q \in DOMAIN plan
  BY DEF IInv, LateOnlyByEvent, Staged, Begun, Undisturbed, Quiet
<1>1. ASSUME p \in DOMAIN plan, p \in Begun, plan[p].direction = "Download",
             tree'["client"][p].ts = plan[p].ts
      PROVE  \/ tree["client"][p].hash = 0
             \/ tree'["client"][p].ts > tree["client"][p].ts
             \/ tree["client"][p].hash \in settled
  <2>1. phase = "transfer"
    BY <1>0, <1>1
  <2>2. /\ now[p].hash = tree["client"][p].hash
        /\ now[p].hash # 0 => now[p].ts = tree["client"][p].ts
    BY <1>1, <2>1 DEF Agreement, NowCurrent, Begun
  <2>3. CASE p \in DOMAIN report
    BY <1>1, <2>1, <2>2, <2>3, RoundFacts
  <2>4. CASE p \notin DOMAIN report
    <3>1. saved[p].hash = tree["client"][p].hash
      BY <1>1, <2>1, <2>2, <2>4, RoundFacts
    <3>2. saved # Corrupt
      BY <2>1, TreeTypes DEF IInv, Loaded
    <3> QED
      BY <3>1, <3>2 DEF Agreement, SavedSettled
  <2> QED
    BY <2>3, <2>4
<1>2. ASSUME NEW q \in Path, Transfer(q)
      PROVE  /\ p \in DOMAIN plan /\ p \in Begun /\ plan[p].direction = "Download"
             /\ tree'["client"][p].ts = plan[p].ts
  <2>1. /\ q \in Begun /\ q \in DOMAIN plan /\ Put(Target(q), q, Sent(q))
        /\ plan[q].direction # "Skip"
    BY <1>0, <1>2 DEF Transfer, Running, Hanging, Active
  <2>2. q = p /\ Target(q) = "client" /\ tree'["client"][p] = Sent(p)
    BY <1>0, <2>1, PutEffect, SentType
  <2>3. plan[p].direction \in {"Upload", "Download", "Skip"}
    BY <1>0, <2>1, <2>2 DEF TypeOK, FileAction
  <2> QED
    BY <1>0, <2>1, <2>2, <2>3, SentType
<1>3. ASSUME NEW P, P \subseteq Begun, Cut(P)
      PROVE  /\ p \in DOMAIN plan /\ p \in Begun /\ plan[p].direction = "Download"
             /\ tree'["client"][p].ts = plan[p].ts /\ p \in P /\ Target(p) = "client"
  <2>1. /\ p \in P /\ plan[p].direction # "Skip" /\ Target(p) = "client"
        /\ tree'["client"][p].ts = plan[p].ts
    BY <1>0, <1>3, CutEffect
  <2>2. p \in DOMAIN plan /\ p \in Begun
    BY <1>0, <1>3, <2>1
  <2>3. plan[p].direction \in {"Upload", "Download", "Skip"}
    BY <1>0, <2>2 DEF TypeOK, FileAction
  <2> QED
    BY <1>0, <2>1, <2>2, <2>3, SentType
<1>4. CASE Kill
  <2>1. {q \in Path : Running(q) /\ Target(q) = "server"} \subseteq Begun
    BY DEF Running, Active
  <2> QED
    BY <1>1, <1>3, <1>4, <2>1 DEF Kill
<1>5. ASSUME NEW q \in Path, Break(q)
      PROVE  /\ p \in DOMAIN plan /\ p \in Begun /\ plan[p].direction = "Download"
             /\ tree'["client"][p].ts = plan[p].ts
  <2>1. {q} \subseteq Begun
    BY <1>5 DEF Break, Active
  <2>2. PICK P \in SUBSET {q} : Cut(P)
    <3>1. {q} \cap {k \in Path : Target(k) = "client"} \in SUBSET {q}
      OBVIOUS
    <3> QED
      BY <1>5, <3>1 DEF Break
  <2> QED
    BY <1>3, <2>1, <2>2
<1>6. ASSUME NEW side \in Side, NEW q \in Path, Edit(side, q) \/ Remove(side, q)
      PROVE  FALSE
  <2>1. \E v \in Version : Put(side, q, v)
    BY <1>0, <1>6, UserPuts
  <2>2. side = "client" /\ q = p
    BY <1>0, <2>1, PutEffect
  <2> QED
    BY <1>0, <1>6, <2>2 DEF Edit, Remove, TypeOK
<1>7. ASSUME NEW q \in Path PROVE ~TransferGarbled(q)
  <2> SUFFICES ASSUME TransferGarbled(q) PROVE FALSE
    OBVIOUS
  <2> DEFINE v == [hash |-> clock', ts |-> plan[q].ts]
  <2>1. v \in Version /\ Put("client", q, v) /\ q \in touched["client"]
    BY <1>0 DEF TransferGarbled, Running, Active, TypeOK, FileAction, Version
  <2> HIDE DEF v
  <2> QED
    BY <1>0, <2>1, PutEffect
<1> QED
  BY <1>0, <1>1, <1>2, <1>4, <1>5, <1>6, <1>7 DEF Next, RunSync, Plan, Spawn, SyncFile, Users,
     StartSync, ScanStat, InitiateSync, MakePlan, Offline, Begin, TransferKept, TransferLate,
     Hang, Land, AllDone, SaveOpen, SaveWrite, ServerRestart

\* While no transfer has failed, a round replaces a file nobody wrote since its side
\* was scanned only by a newer version, or if it is settled (state.rs:276-294).
THEOREM NewestVersionWins == Spec => NewestWins
<1> DEFINE A == \A side \in Side, p \in Path :
                  /\ tree'[side][p].hash # tree[side][p].hash
                  /\ p \notin touched[side] \cup touched'[side]
                  /\ Quiet({"fail", "restart", "late"})
                  => \/ tree[side][p].hash = 0
                     \/ tree'[side][p].ts > tree[side][p].ts
                     \/ side = "client" /\ tree[side][p].hash \in settled
<1>1. IInv /\ Agreement /\ [Next]_vars => [A]_vars
  <2> SUFFICES ASSUME IInv, Agreement, Next, NEW side \in Side, NEW p \in Path,
                      tree'[side][p].hash # tree[side][p].hash,
                      p \notin touched[side] \cup touched'[side], Undisturbed
               PROVE  \/ tree[side][p].hash = 0
                      \/ tree'[side][p].ts > tree[side][p].ts
                      \/ side = "client" /\ tree[side][p].hash \in settled
    BY DEF Undisturbed
  <2>1. CASE side = "client"
    BY <2>1, ClientStep
  <2>2. CASE side = "server"
    BY <2>2, ServerStep DEF Undisturbed, Quiet
  <2> QED
    BY <2>1, <2>2
<1> QED
  BY <1>1, AgreementInvariant, PTL DEF Spec, NewestWins
=============================================================================
