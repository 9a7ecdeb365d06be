-------------------------- MODULE SyncRoundsProofs --------------------------
(* Proofs about the rounds: types, and what a round may replace on the      *)
(* server.                                                                  *)
EXTENDS SyncRounds, FiniteSetTheorems, TLAPS

USE DEF Side
-----------------------------------------------------------------------------
(* The planning functions.                                                  *)

LEMMA StatType ==
  ASSUME NEW scan \in Tree, NEW t \in Tree
  PROVE  Stat(scan, t) \in Tree
BY DEF Stat, Tree, Version, NoFile

LEMMA CompareType ==
  ASSUME NEW before \in Tree, NEW t \in Tree
  PROVE  /\ DOMAIN CompareStates(before, t) \subseteq Path
         /\ \A p \in DOMAIN CompareStates(before, t) : CompareStates(before, t)[p] \in Version
<1>1. \A p \in Path : Reported(before[p], t[p]) \in Version
  BY DEF Reported, Tree
<1> QED
  BY <1>1 DEF CompareStates, Changed

\* The plan of one path: its direction, and why a file is uploaded.
LEMMA PlanForFacts ==
  ASSUME NEW l \in Version, NEW r \in Version
  PROVE  /\ PlanFor(l, r) \in FileAction
         /\ PlanFor(l, r).direction = "Upload" => l.hash = 0 \/ l.ts < PlanFor(l, r).ts
         /\ PlanFor(l, r).direction = "Download" => l.hash # 0 \/ r.hash = 0
BY DEF PlanFor, Action, FileAction, Version

\* Every plan, of any scan and any report, is well formed and only uploads over a
\* missing or an older file (generate_sync_plan).
THEOREM PlanUploadsNewer ==
  ASSUME NEW t \in Tree, NEW rep,
         DOMAIN rep \subseteq Path, \A p \in DOMAIN rep : rep[p] \in Version
  PROVE  /\ DOMAIN GenerateSyncPlan(t, rep) \subseteq Path
         /\ \A p \in DOMAIN GenerateSyncPlan(t, rep) :
              LET a == GenerateSyncPlan(t, rep)[p]
              IN a \in FileAction /\ (a.direction = "Upload" => t[p].hash = 0 \/ t[p].ts < a.ts)
<1> DEFINE r(p) == IF p \in DOMAIN rep THEN rep[p] ELSE NoFile
           a(p) == GenerateSyncPlan(t, rep)[p]
<1>1. DOMAIN GenerateSyncPlan(t, rep) \subseteq Path
  BY DEF GenerateSyncPlan, Present
<1>2. ASSUME NEW p \in DOMAIN GenerateSyncPlan(t, rep)
      PROVE  a(p) \in FileAction /\ (a(p).direction = "Upload" => t[p].hash = 0 \/ t[p].ts < a(p).ts)
  <2>1. a(p) = PlanFor(t[p], r(p))
    BY DEF GenerateSyncPlan
  <2>2. t[p] \in Version /\ r(p) \in Version
    BY <1>1 DEF Tree, NoFile, Version
  <2> HIDE DEF a, r
  <2> QED
    BY <2>1, <2>2, PlanForFacts
<1> QED
  BY <1>1, <1>2

-----------------------------------------------------------------------------
(* The inductive invariant.                                                 *)

\* A transfer under way belongs to the plan of the round under way.
Staged ==
  \A p \in Path : stage[p] \in {"todo", "active", "hung"} => phase = "transfer" /\ p \in DOMAIN plan

\* A round only runs when the saved state could be read.
Loaded == phase \notin {"idle", "write"} => saved \in Tree

LateOnlyByEvent == late # {} => "late" \in events

\* What the server scanned is what it has, unless its users write it.
Scanned ==
  phase = "serverStat" /\ "late" \notin events =>
    \A p \in Path \ touched["server"] : local[p].hash = tree["server"][p].hash

\* Until an upload is over, the server's file is older than what is planned.
UploadsNewer ==
  "late" \notin events =>
    \A p \in Path \ touched["server"] :
      stage[p] \in {"todo", "active", "hung"} /\ plan[p].direction = "Upload" =>
        tree["server"][p].hash = 0 \/ tree["server"][p].ts < plan[p].ts

IInv == TypeOK /\ Staged /\ Loaded /\ LateOnlyByEvent /\ Scanned /\ UploadsNewer
-----------------------------------------------------------------------------
(* What the parts of the actions do.                                        *)

LEMMA EmptyTypes == EmptyTree \in Tree /\ NoFile \in Version
BY DEF EmptyTree, Tree, NoFile, Version

LEMMA BegunFinite == IsFiniteSet(Begun) /\ Cardinality(Begun) \in Nat
<1>1. Begun \subseteq Path
  BY DEF Begun
<1> QED
  BY <1>1, PathAssumption, FS_Subset, FS_CardinalityType

\* Permits are only given back.
LEMMA FewerBegun ==
  ASSUME TypeOK, Begun' \subseteq Begun
  PROVE  Cardinality(Begun)' <= Permits
<1>1. /\ IsFiniteSet(Begun) /\ Cardinality(Begun) <= Permits
      /\ Cardinality(Begun) \in Nat
  BY BegunFinite DEF TypeOK
<1> HIDE DEF Begun
<1>2. IsFiniteSet(Begun') /\ Cardinality(Begun') <= Cardinality(Begun)
  BY <1>1, FS_Subset
<1>3. Cardinality(Begun') \in Nat
  BY <1>2, FS_CardinalityType
<1> QED
  BY <1>1, <1>2, <1>3, PermitsAssumption

LEMMA PutEffect ==
  ASSUME TypeOK, NEW side \in Side, NEW p \in Path, NEW v \in Version, Put(side, p, v)
  PROVE  /\ tree' \in [Side -> Tree] /\ settled' \subseteq Nat
         /\ \A s \in Side, q \in Path :
              tree'[s][q] = IF s = side /\ q = p THEN v ELSE tree[s][q]
<1>1. tree \in [Side -> Tree] /\ tree' = [tree EXCEPT ![side][p] = v]
  BY DEF TypeOK, Put
<1>2. tree' \in [Side -> Tree]
  BY <1>1 DEF Tree
<1>3. settled' \subseteq Nat
  BY DEF TypeOK, Put, Version
<1>4. ASSUME NEW s \in Side, NEW q \in Path
      PROVE  tree'[s][q] = IF s = side /\ q = p THEN v ELSE tree[s][q]
  BY <1>1 DEF Tree
<1> QED
  BY <1>2, <1>3, <1>4

LEMMA CutEffect ==
  ASSUME TypeOK, NEW P, P \subseteq DOMAIN plan, Cut(P)
  PROVE  /\ tree' \in [Side -> Tree] /\ settled' \subseteq Nat /\ clock' \in Nat
         /\ \A s \in Side, q \in Path :
              \/ tree'[s][q] = tree[s][q]
              \/ /\ q \in P /\ plan[q].direction # "Skip" /\ Target(q) = s
                 /\ tree'[s][q].ts = plan[q].ts
<1>0. /\ tree \in [Side -> Tree] /\ settled \subseteq Nat /\ clock \in Nat /\ P \subseteq Path
      /\ \A p \in P : plan[p].ts \in Nat
  BY DEF TypeOK, FileAction
<1>1. CASE UNCHANGED <<tree, settled, clock>>
  BY <1>0, <1>1
<1>2. ASSUME NEW T \in SUBSET {p \in P : plan[p].direction # "Skip"},
             clock' = clock + 1,
             tree' = [side \in Side |-> [p \in Path |->
                        IF p \in T /\ Target(p) = side
                        THEN [hash |-> clock', ts |-> plan[p].ts] ELSE tree[side][p]]],
             settled' = settled \cup {tree'["server"][p].hash : p \in T}
      PROVE  /\ tree' \in [Side -> Tree] /\ settled' \subseteq Nat /\ clock' \in Nat
             /\ \A s \in Side, q \in Path :
                  \/ tree'[s][q] = tree[s][q]
                  \/ /\ q \in P /\ plan[q].direction # "Skip" /\ Target(q) = s
                     /\ tree'[s][q].ts = plan[q].ts
  <2>1. clock' \in Nat
    BY <1>0, <1>2
  <2>2. ASSUME NEW s \in Side, NEW q \in Path
        PROVE  /\ tree'[s][q] \in Version
               /\ \/ tree'[s][q] = tree[s][q]
                  \/ /\ q \in P /\ plan[q].direction # "Skip" /\ Target(q) = s
                     /\ tree'[s][q].ts = plan[q].ts
    <3>1. tree[s][q] \in Version
      BY <1>0 DEF Tree
    <3>2. tree'[s][q] = IF q \in T /\ Target(q) = s
                        THEN [hash |-> clock', ts |-> plan[q].ts] ELSE tree[s][q]
      BY <1>2
    <3> QED
      BY <1>0, <2>1, <3>1, <3>2 DEF Version
  <2>3. tree' \in [Side -> Tree]
    BY <1>2, <2>2 DEF Tree
  <2>4. settled' \subseteq Nat
    <3>1. \A p \in T : p \in Path /\ tree'["server"][p].hash \in Nat
      BY <1>0, <1>2, <2>2 DEF Version, Side
    <3> QED
      BY <1>0, <1>2, <3>1
  <2> QED
    BY <2>1, <2>2, <2>3, <2>4
<1> QED
  BY <1>1, <1>2 DEF Cut

LEMMA GiveUpEffect ==
  ASSUME GiveUp
  PROVE  /\ phase' = "idle" /\ session' = FALSE
         /\ now' \in Tree /\ local' \in Tree
         /\ DOMAIN report' = {} /\ DOMAIN plan' = {}
         /\ stage' \in [Path -> {"none", "todo", "active", "hung", "kept", "done"}]
         /\ \A p \in Path : stage'[p] = "none"
         /\ touched' \in [Side -> SUBSET Path]
         /\ Begun' = {}
<1>1. stage' = [p \in Path |-> "none"]
  BY DEF GiveUp, NoStage
<1>2. Begun' = {}
  BY <1>1 DEF Begun
<1> QED
  BY <1>1, <1>2, EmptyTypes DEF GiveUp, NoReport, NoPlan

\* What a user does to a file.
LEMMA UserPuts ==
  ASSUME TypeOK, NEW side \in Side, NEW p \in Path, Edit(side, p) \/ Remove(side, p)
  PROVE  \E v \in Version : Put(side, p, v)
<1>1. CASE Edit(side, p)
  BY <1>1 DEF Edit, Tick, Version, TypeOK
<1>2. CASE Remove(side, p)
  BY <1>2, EmptyTypes DEF Remove
<1> QED
  BY <1>1, <1>2

\* A task that ends leaves its permit.
LEMMA EndTaskEffect ==
  ASSUME TypeOK, NEW p \in Path, NEW s \in {"kept", "done"}, stage' = [stage EXCEPT ![p] = s]
  PROVE  /\ stage' \in [Path -> {"none", "todo", "active", "hung", "kept", "done"}]
         /\ \A q \in Path : stage'[q] = IF q = p THEN s ELSE stage[q]
         /\ Cardinality(Begun)' <= Permits
<1>1. /\ stage' \in [Path -> {"none", "todo", "active", "hung", "kept", "done"}]
      /\ \A q \in Path : stage'[q] = IF q = p THEN s ELSE stage[q]
  BY DEF TypeOK
<1>2. Begun' \subseteq Begun
  BY <1>1 DEF Begun
<1> QED
  BY <1>1, <1>2, FewerBegun
-----------------------------------------------------------------------------
(* Every step keeps the invariant.                                          *)

\* A round that is given up leaves nothing to say about transfers.
LEMMA StepGiveUp ==
  ASSUME IInv, GiveUp,
         tree' \in [Side -> Tree], settled' \subseteq Nat, clock' \in Nat,
         saved' \in Tree \cup {Corrupt}, late' \subseteq late,
         events \subseteq events', events' \subseteq Events
  PROVE  IInv'
<1>1. TypeOK /\ LateOnlyByEvent
  BY DEF IInv
<1>2. Cardinality(Begun)' = 0
  BY GiveUpEffect, FS_EmptySet
<1>3. TypeOK'
  BY <1>1, <1>2, GiveUpEffect, PermitsAssumption DEF TypeOK, Phases
<1>4. Staged' /\ Loaded' /\ LateOnlyByEvent' /\ Scanned' /\ UploadsNewer'
  BY <1>1, GiveUpEffect DEF Staged, Loaded, LateOnlyByEvent, Scanned, UploadsNewer
<1> QED
  BY <1>3, <1>4 DEF IInv

LEMMA StepStartSync == IInv /\ StartSync => IInv'
<1> SUFFICES ASSUME IInv, StartSync PROVE IInv'
  OBVIOUS
<1> USE DEF IInv
<1>1. Begun' = Begun
  BY DEF StartSync, Begun
<1>2. now' \in Tree
  BY DEF StartSync, TypeOK, Tree, Version
<1>3. touched' \in [Side -> SUBSET Path] /\ touched'["server"] = touched["server"]
  BY DEF StartSync, TypeOK
<1>4. TypeOK'
  BY <1>1, <1>2, <1>3 DEF StartSync, TypeOK, Phases
<1>5. Staged'
  BY DEF StartSync, Staged
<1>6. Loaded' /\ LateOnlyByEvent' /\ Scanned' /\ UploadsNewer'
  BY <1>3 DEF StartSync, TypeOK, Loaded, LateOnlyByEvent, Scanned, UploadsNewer
<1> QED
  BY <1>4, <1>5, <1>6

LEMMA StepScanStat == IInv /\ ScanStat => IInv'
<1> SUFFICES ASSUME IInv, ScanStat PROVE IInv'
  OBVIOUS
<1>1. CASE GiveUp
  BY <1>1, StepGiveUp DEF ScanStat, IInv, TypeOK
<1>2. CASE ~GiveUp
  <2>0. /\ phase = "stat" /\ phase' = "call"
        /\ now' = Stat(now, tree["client"]) /\ report' = CompareStates(saved, now')
        /\ UNCHANGED <<tree, saved, local, plan, stage, late, session, clock, touched, settled, events>>
    BY <1>2 DEF ScanStat
  <2>1. now' \in Tree
    BY <2>0, StatType DEF IInv, TypeOK
  <2>2. DOMAIN report' \subseteq Path /\ \A p \in DOMAIN report' : report'[p] \in Version
    BY <2>0, <2>1, CompareType DEF IInv, Loaded
  <2>3. Begun' = Begun
    BY <2>0 DEF Begun
  <2>4. TypeOK'
    BY <2>0, <2>1, <2>2, <2>3 DEF IInv, TypeOK, Phases
  <2>5. Staged' /\ Loaded' /\ LateOnlyByEvent' /\ Scanned' /\ UploadsNewer'
    BY <2>0 DEF IInv, Staged, Loaded, LateOnlyByEvent, Scanned, UploadsNewer
  <2> QED
    BY <2>4, <2>5 DEF IInv
<1> QED
  BY <1>1, <1>2

LEMMA StepInitiateSync == IInv /\ InitiateSync => IInv'
<1> SUFFICES ASSUME IInv, InitiateSync PROVE IInv'
  OBVIOUS
<1> USE DEF IInv
<1>1. Begun' = Begun
  BY DEF InitiateSync, Begun
<1>2. /\ local' \in Tree
      /\ \A p \in Path : local'[p].hash = tree["server"][p].hash
  BY DEF InitiateSync, TypeOK, Tree, Version
<1>3. touched' \in [Side -> SUBSET Path]
  BY DEF InitiateSync, TypeOK
<1>4. TypeOK'
  BY <1>1, <1>2, <1>3 DEF InitiateSync, TypeOK, Phases
<1>5. \A p \in Path : stage[p] \notin {"todo", "active", "hung"}
  BY DEF InitiateSync, Staged
<1>6. Staged' /\ Loaded' /\ LateOnlyByEvent' /\ Scanned' /\ UploadsNewer'
  BY <1>2, <1>5 DEF InitiateSync, Staged, Loaded, LateOnlyByEvent, Scanned, UploadsNewer
<1> QED
  BY <1>4, <1>6

LEMMA StepMakePlan == IInv /\ MakePlan => IInv'
<1> SUFFICES ASSUME IInv, MakePlan PROVE IInv'
  OBVIOUS
<1>1. CASE GiveUp
  BY <1>1, StepGiveUp DEF MakePlan, IInv, TypeOK
<1>2. CASE ~GiveUp
  <2>0. /\ phase = "serverStat" /\ phase' = "transfer"
        /\ ~Vanished(local, tree["server"])
        /\ local' = Stat(local, tree["server"])
        /\ plan' = GenerateSyncPlan(local', report)
        /\ stage' = [p \in Path |-> IF p \in DOMAIN plan' THEN "todo" ELSE "none"]
        /\ session' = TRUE
        /\ UNCHANGED <<tree, saved, now, report, late, clock, touched, settled, events>>
    BY <1>2 DEF MakePlan
  <2>1. TypeOK /\ local \in Tree /\ tree["server"] \in Tree
    BY DEF IInv, TypeOK
  <2>2. local' \in Tree
    BY <2>0, <2>1, StatType
  <2>3. /\ DOMAIN plan' \subseteq Path
        /\ \A p \in DOMAIN plan' :
             /\ plan'[p] \in FileAction
             /\ plan'[p].direction = "Upload" => local'[p].hash = 0 \/ local'[p].ts < plan'[p].ts
    BY <2>0, <2>1, <2>2, PlanUploadsNewer DEF TypeOK
  <2>4. Cardinality(Begun)' = 0
    <3>1. Begun' = {}
      BY <2>0 DEF Begun
    <3> QED
      BY <3>1, FS_EmptySet
  <2>5. TypeOK'
    BY <2>0, <2>1, <2>2, <2>3, <2>4, PermitsAssumption DEF TypeOK, Phases
  <2>6. Staged' /\ Loaded' /\ LateOnlyByEvent' /\ Scanned'
    BY <2>0 DEF IInv, Staged, Loaded, LateOnlyByEvent, Scanned
  <2>7. UploadsNewer'
    <3> SUFFICES ASSUME "late" \notin events, NEW p \in Path \ touched["server"],
                        stage'[p] = "todo", plan'[p].direction = "Upload"
                 PROVE  tree["server"][p].hash = 0 \/ tree["server"][p].ts < plan'[p].ts
      BY <2>0 DEF UploadsNewer
    <3>1. p \in DOMAIN plan'
      BY <2>0
    <3>2. local[p].hash = tree["server"][p].hash
      BY <2>0 DEF IInv, Scanned
    <3>3. CASE local[p].hash = 0
      BY <3>2, <3>3
    <3>4. CASE local[p].hash # 0
      <4>1. local'[p] = [local[p] EXCEPT !.ts = tree["server"][p].ts]
        BY <2>0, <3>4 DEF Stat
      <4>2. local'[p].hash = local[p].hash /\ local'[p].ts = tree["server"][p].ts
        BY <2>1, <4>1 DEF Tree, Version
      <4> QED
        BY <2>3, <3>1, <3>4, <4>2
    <3> QED
      BY <3>3, <3>4
  <2> QED
    BY <2>5, <2>6, <2>7 DEF IInv
<1> QED
  BY <1>1, <1>2

LEMMA StepBegin == ASSUME IInv, NEW p \in Path, Begin(p) PROVE IInv'
<1> USE DEF IInv
<1>1. /\ stage' \in [Path -> {"none", "todo", "active", "hung", "kept", "done"}]
      /\ \A q \in Path : q # p => stage'[q] = stage[q]
      /\ stage'[p] \in {"active", "done"}
  BY DEF Begin, TypeOK
<1>2. Cardinality(Begun)' <= Permits
  <2>1. Begun' \subseteq Begun \cup {p}
    BY <1>1 DEF Begun
  <2>2. /\ IsFiniteSet(Begun) /\ Cardinality(Begun) \in Nat
        /\ Cardinality(Begun) < Permits
    BY BegunFinite DEF Begin
  <2> HIDE DEF Begun
  <2>3. /\ IsFiniteSet(Begun \cup {p})
        /\ Cardinality(Begun \cup {p}) <= Cardinality(Begun) + 1
    <3>1. IsFiniteSet(Begun \cup {p})
      BY <2>2, FS_AddElement
    <3>2. Cardinality(Begun \cup {p}) \in {Cardinality(Begun), Cardinality(Begun) + 1}
      BY <2>2, FS_AddElement, Zenon
    <3> QED
      BY <2>2, <3>1, <3>2
  <2>4. Cardinality(Begun \cup {p}) \in Nat
    BY <2>3, FS_CardinalityType
  <2>5. /\ IsFiniteSet(Begun')
        /\ Cardinality(Begun') <= Cardinality(Begun \cup {p})
    BY <2>1, <2>3, FS_Subset
  <2>6. Cardinality(Begun') \in Nat
    BY <2>5, FS_CardinalityType
  <2> QED
    BY <2>2, <2>3, <2>4, <2>5, <2>6, PermitsAssumption
<1>3. TypeOK'
  BY <1>1, <1>2 DEF Begin, TypeOK, round, ghosts
<1>4. Staged' /\ Loaded' /\ LateOnlyByEvent' /\ Scanned' /\ UploadsNewer'
  BY <1>1 DEF Begin, Staged, Loaded, LateOnlyByEvent, Scanned, UploadsNewer, round, ghosts
<1> QED
  BY <1>3, <1>4

LEMMA SentType ==
  ASSUME TypeOK, NEW p \in DOMAIN plan
  PROVE  /\ Sent(p) \in Version /\ Sent(p).ts = plan[p].ts
         /\ Source(p) \in Side /\ Target(p) \in Side
         /\ Target(p) = "server" <=> plan[p].direction = "Upload"
<1>1. Source(p) \in Side /\ Target(p) \in Side
  BY DEF Source, Target
<1>2. tree[Source(p)][p] \in Version /\ plan[p].ts \in Nat
  BY <1>1 DEF TypeOK, Tree, FileAction
<1> QED
  BY <1>1, <1>2 DEF Sent, Version, EmptyHash, Target

LEMMA StepTransfer == ASSUME IInv, NEW p \in Path, Transfer(p) PROVE IInv'
<1> USE DEF IInv
<1>0. /\ p \in DOMAIN plan /\ phase = "transfer"
      /\ stage' = [stage EXCEPT ![p] = "done"] /\ Put(Target(p), p, Sent(p))
      /\ UNCHANGED <<saved, phase, now, report, local, plan, late, session, clock, touched, events>>
  BY DEF Transfer, Running, Hanging, Active, Begun, Staged, round
<1>1. /\ tree' \in [Side -> Tree] /\ settled' \subseteq Nat
      /\ \A q \in Path : q # p => tree'["server"][q] = tree["server"][q]
  BY <1>0, PutEffect, SentType
<1>2. TypeOK'
  BY <1>0, <1>1, EndTaskEffect DEF TypeOK
<1>3. Staged' /\ Loaded' /\ LateOnlyByEvent' /\ Scanned' /\ UploadsNewer'
  <2>1. Staged' /\ Loaded' /\ LateOnlyByEvent'
    BY <1>0, EndTaskEffect DEF Staged, Loaded, LateOnlyByEvent
  <2>2. Scanned'
    BY <1>0, <1>1, EndTaskEffect DEF Scanned
  <2>3. UploadsNewer'
    <3>1. ASSUME NEW q \in Path, stage'[q] \in {"todo", "active", "hung"}
          PROVE  q # p /\ stage'[q] = stage[q] /\ tree'["server"][q] = tree["server"][q]
      BY <1>0, <1>1, <3>1, EndTaskEffect
    <3> QED
      BY <1>0, <3>1 DEF UploadsNewer
  <2> QED
    BY <2>1, <2>2, <2>3
<1> QED
  BY <1>2, <1>3

LEMMA StepTransferKept == ASSUME IInv, NEW p \in Path, TransferKept(p) PROVE IInv'
<1> USE DEF IInv
<1>0. /\ stage' = [stage EXCEPT ![p] = "kept"]
      /\ settled' = settled \cup {now[p].hash}
      /\ UNCHANGED <<tree, saved, phase, now, report, local, plan, late, session, clock, touched,
                     events>>
  BY DEF TransferKept, round
<1>1. settled' \subseteq Nat
  <2>1. now[p].hash \in Nat
    BY DEF TypeOK, Tree, Version
  <2> QED
    BY <1>0, <2>1 DEF TypeOK
<1>2. TypeOK'
  BY <1>0, <1>1, EndTaskEffect DEF TypeOK
<1>3. Staged' /\ Loaded' /\ LateOnlyByEvent' /\ Scanned' /\ UploadsNewer'
  BY <1>0, EndTaskEffect DEF Staged, Loaded, LateOnlyByEvent, Scanned, UploadsNewer
<1> QED
  BY <1>2, <1>3

LEMMA StepTransferGarbled == ASSUME IInv, NEW p \in Path, TransferGarbled(p) PROVE IInv'
<1> USE DEF IInv
<1> DEFINE v == [hash |-> clock', ts |-> plan[p].ts]
<1>0. /\ p \in DOMAIN plan /\ stage' = [stage EXCEPT ![p] = "done"]
      /\ clock' = clock + 1 /\ Put("client", p, v)
      /\ UNCHANGED <<saved, phase, now, report, local, plan, late, session, touched, events>>
  BY DEF TransferGarbled, Running, Hanging, Active, Begun, Staged, round
<1>1. v \in Version /\ clock' \in Nat
  BY <1>0 DEF TypeOK, FileAction, Version
<1> HIDE DEF v
<1>2. /\ tree' \in [Side -> Tree] /\ settled' \subseteq Nat
      /\ \A q \in Path : tree'["server"][q] = tree["server"][q]
  BY <1>0, <1>1, PutEffect
<1>3. TypeOK'
  BY <1>0, <1>1, <1>2, EndTaskEffect DEF TypeOK
<1>4. Staged' /\ Loaded' /\ LateOnlyByEvent' /\ Scanned' /\ UploadsNewer'
  BY <1>0, <1>2, EndTaskEffect DEF Staged, Loaded, LateOnlyByEvent, Scanned, UploadsNewer
<1> QED
  BY <1>3, <1>4

LEMMA StepHang == ASSUME IInv, NEW p \in Path, Hang(p) PROVE IInv'
<1> USE DEF IInv
<1>0. /\ stage[p] = "active" /\ stage' = [stage EXCEPT ![p] = "hung"]
      /\ UNCHANGED <<tree, saved, phase, now, report, local, plan, late, session, clock, touched,
                     settled, events>>
  BY DEF Hang, Running, Hanging, Active, Begun, round, ghosts
<1>1. /\ stage' \in [Path -> {"none", "todo", "active", "hung", "kept", "done"}]
      /\ \A q \in Path : stage'[q] = IF q = p THEN "hung" ELSE stage[q]
  BY <1>0 DEF TypeOK
<1>2. Begun' = Begun
  BY <1>0, <1>1 DEF Begun
<1>3. TypeOK'
  BY <1>0, <1>1, <1>2 DEF TypeOK
<1>4. Staged' /\ Loaded' /\ LateOnlyByEvent' /\ Scanned' /\ UploadsNewer'
  BY <1>0, <1>1 DEF Staged, Loaded, LateOnlyByEvent, Scanned, UploadsNewer
<1> QED
  BY <1>3, <1>4

LEMMA StepTransferLate == ASSUME IInv, NEW p \in Path, TransferLate(p) PROVE IInv'
<1> USE DEF IInv
<1>0. /\ p \in DOMAIN plan /\ stage' = [stage EXCEPT ![p] = "done"]
      /\ late' = late \cup {[side |-> Target(p), path |-> p, version |-> Sent(p)]}
      /\ "late" \in Events /\ events' = events \cup {"late"}
      /\ UNCHANGED <<tree, saved, phase, now, report, local, plan, session, clock, touched, settled>>
  BY DEF TransferLate, Running, Hanging, Active, Begun, Staged, round, ghosts, Happens
<1>1. late' \subseteq Write
  BY <1>0, SentType DEF TypeOK, Write
<1>2. TypeOK'
  BY <1>0, <1>1, EndTaskEffect DEF TypeOK
<1>3. Staged' /\ Loaded' /\ LateOnlyByEvent' /\ Scanned' /\ UploadsNewer'
  BY <1>0, EndTaskEffect DEF Staged, Loaded, LateOnlyByEvent, Scanned, UploadsNewer
<1> QED
  BY <1>2, <1>3

LEMMA StepLand == IInv /\ Land => IInv'
<1> SUFFICES ASSUME IInv, Land PROVE IInv'
  OBVIOUS
<1> USE DEF IInv
<1>1. PICK w \in late :
        /\ Put(w.side, w.path, w.version) /\ late' = late \ {w}
        /\ UNCHANGED <<saved, phase, round, stage, session, clock, touched, events>>
  BY DEF Land
<1>2. w.side \in Side /\ w.path \in Path /\ w.version \in Version /\ "late" \in events
  BY DEF TypeOK, Write, LateOnlyByEvent
<1>3. tree' \in [Side -> Tree] /\ settled' \subseteq Nat
  BY <1>1, <1>2, PutEffect
<1>4. Begun' = Begun
  BY <1>1 DEF Begun
<1>5. TypeOK'
  BY <1>1, <1>3, <1>4 DEF TypeOK, round
<1>6. Staged' /\ Loaded' /\ LateOnlyByEvent' /\ Scanned' /\ UploadsNewer'
  BY <1>1, <1>2 DEF Staged, Loaded, LateOnlyByEvent, Scanned, UploadsNewer, round
<1> QED
  BY <1>5, <1>6

LEMMA StepBreak == ASSUME IInv, NEW p \in Path, Break(p) PROVE IInv'
<1> USE DEF IInv
<1>0. /\ p \in DOMAIN plan /\ phase = "transfer"
      /\ stage' = [stage EXCEPT ![p] = "done"]
      /\ events \subseteq events' /\ events' \subseteq Events
      /\ UNCHANGED <<saved, phase, now, report, local, plan, late, session, touched>>
  BY DEF Break, Active, Begun, Staged, round, Happens, TypeOK
<1>1. PICK P \in SUBSET {p} : Cut(P)
  <2>1. {p} \cap {q \in Path : Target(q) = "client"} \in SUBSET {p}
    OBVIOUS
  <2> QED
    BY <2>1 DEF Break
<1>2. /\ tree' \in [Side -> Tree] /\ settled' \subseteq Nat /\ clock' \in Nat
      /\ \A q \in Path : q # p => tree'["server"][q] = tree["server"][q]
  BY <1>0, <1>1, CutEffect
<1>3. TypeOK'
  BY <1>0, <1>2, EndTaskEffect DEF TypeOK
<1>4. Staged' /\ Loaded' /\ LateOnlyByEvent' /\ Scanned' /\ UploadsNewer'
  <2>1. Staged' /\ Loaded' /\ LateOnlyByEvent'
    BY <1>0, EndTaskEffect DEF Staged, Loaded, LateOnlyByEvent
  <2>2. Scanned'
    BY <1>0, <1>2, EndTaskEffect DEF Scanned
  <2>3. UploadsNewer'
    BY <1>0, <1>2, EndTaskEffect DEF UploadsNewer
  <2> QED
    BY <2>1, <2>2, <2>3
<1> QED
  BY <1>3, <1>4

LEMMA StepSave == IInv /\ (AllDone \/ SaveOpen) => IInv'
<1> SUFFICES ASSUME IInv, AllDone \/ SaveOpen PROVE IInv'
  OBVIOUS
<1> USE DEF IInv
<1>0. /\ UNCHANGED <<tree, now, report, local, plan, stage, late, session, clock, touched, settled, events>>
      /\ \/ phase' = "save" /\ saved' = saved /\ phase = "transfer"
            /\ In("todo") = {} /\ Begun = {}
         \/ phase' = "write" /\ saved' = Corrupt /\ phase = "save"
  BY DEF AllDone, SaveOpen, round, ghosts
<1>1. Begun' = Begun
  BY <1>0 DEF Begun
<1>2. TypeOK'
  BY <1>0, <1>1 DEF TypeOK, Phases
<1>3. Staged'
  BY <1>0 DEF Staged, In, Begun
<1>4. Loaded' /\ LateOnlyByEvent' /\ Scanned' /\ UploadsNewer'
  BY <1>0 DEF Loaded, LateOnlyByEvent, Scanned, UploadsNewer
<1> QED
  BY <1>2, <1>3, <1>4

LEMMA StepUsers ==
  ASSUME IInv, NEW side \in Side, NEW p \in Path, Edit(side, p) \/ Remove(side, p)
  PROVE  IInv'
<1> USE DEF IInv
<1>0. /\ touched' = [touched EXCEPT ![side] = @ \cup {p}]
      /\ UNCHANGED <<saved, phase, now, report, local, plan, stage, late, session>>
      /\ events \subseteq events' /\ events' \subseteq Events /\ clock' \in Nat
  BY DEF Edit, Remove, Tick, Happens, round, TypeOK
<1>1. PICK v \in Version : Put(side, p, v)
  BY UserPuts
<1>2. /\ tree' \in [Side -> Tree] /\ settled' \subseteq Nat
      /\ \A s \in Side, q \in Path : s # side \/ q # p => tree'[s][q] = tree[s][q]
  BY <1>1, PutEffect
<1>3. /\ touched' \in [Side -> SUBSET Path]
      /\ touched["server"] \subseteq touched'["server"]
      /\ side = "server" => p \in touched'["server"]
  BY <1>0 DEF TypeOK
<1>4. Begun' = Begun
  BY <1>0 DEF Begun
<1>5. TypeOK'
  BY <1>0, <1>2, <1>3, <1>4 DEF TypeOK
<1>6. Staged' /\ Loaded' /\ LateOnlyByEvent'
  BY <1>0 DEF Staged, Loaded, LateOnlyByEvent
<1>7. \A q \in Path \ touched'["server"] : tree'["server"][q] = tree["server"][q]
  BY <1>2, <1>3
<1>8. Scanned' /\ UploadsNewer'
  BY <1>0, <1>3, <1>7 DEF Scanned, UploadsNewer
<1> QED
  BY <1>5, <1>6, <1>8

LEMMA StepKill == IInv /\ Kill => IInv'
<1> SUFFICES ASSUME IInv, Kill PROVE IInv'
  OBVIOUS
<1> DEFINE P == {p \in Path : Running(p) /\ Target(p) = "server"}
<1>1. P \subseteq DOMAIN plan /\ Cut(P)
  BY DEF Kill, Running, Hanging, Active, Begun, IInv, Staged
<1> HIDE DEF P
<1>2. tree' \in [Side -> Tree] /\ settled' \subseteq Nat /\ clock' \in Nat
  BY <1>1, CutEffect DEF IInv
<1> QED
  BY <1>2, StepGiveUp DEF Kill, Happens, IInv, TypeOK

LEMMA StepServerRestart == IInv /\ ServerRestart => IInv'
<1> SUFFICES ASSUME IInv, ServerRestart PROVE IInv'
  OBVIOUS
<1>1. CASE GiveUp
  BY <1>1, StepGiveUp DEF ServerRestart, Happens, IInv, TypeOK
<1>2. CASE ~GiveUp
  <2>0. /\ late' \subseteq late /\ events \subseteq events' /\ events' \subseteq Events
        /\ events' = events \cup {"restart"} /\ session' = FALSE
        /\ UNCHANGED <<phase, now, report, local, plan, stage, touched, tree, saved, clock, settled>>
    BY <1>2 DEF ServerRestart, Happens, round, IInv, TypeOK
  <2>1. Begun' = Begun
    BY <2>0 DEF Begun
  <2>2. TypeOK'
    BY <2>0, <2>1 DEF IInv, TypeOK
  <2>3. Staged' /\ Loaded' /\ LateOnlyByEvent' /\ Scanned' /\ UploadsNewer'
    BY <2>0 DEF IInv, Staged, Loaded, LateOnlyByEvent, Scanned, UploadsNewer
  <2> QED
    BY <2>2, <2>3 DEF IInv
<1> QED
  BY <1>1, <1>2

LEMMA StepSaveWrite == IInv /\ SaveWrite => IInv'
<1> SUFFICES ASSUME IInv, SaveWrite PROVE IInv'
  OBVIOUS
<1>1. Reloaded(now) \in Tree
  <2>1. now \in Tree
    BY DEF IInv, TypeOK
  <2>2. ASSUME NEW p \in Path
        PROVE  [now[p] EXCEPT !.ts = @ - (@ % Micro)] \in Version
    <3>1. now[p] \in Version /\ now[p].ts \in Nat
      BY <2>1 DEF Tree, Version
    <3>2. now[p].ts - (now[p].ts % Micro) \in Nat
      BY <3>1, MicroAssumption
    <3> QED
      BY <3>1, <3>2 DEF Version
  <2> QED
    BY <2>2 DEF Reloaded, Tree
<1> QED
  BY <1>1, StepGiveUp DEF SaveWrite, IInv, TypeOK
-----------------------------------------------------------------------------
(* The theorems.                                                            *)

LEMMA InitInvariant == Init => IInv
<1> SUFFICES ASSUME Init PROVE IInv
  OBVIOUS
<1> USE DEF Init
<1>1. tree \in [Side -> Tree] /\ settled \subseteq Nat
  <2>1. \A h \in 2..Start : [hash |-> h, ts |-> h - 1] \in Version
    BY ClockAssumption DEF Version
  <2>2. tree \in [Side -> Tree]
    BY <2>1, EmptyTypes DEF Tree
  <2> QED
    BY <2>2 DEF Tree, Version
<1>2. Cardinality(Begun) = 0
  <2>1. Begun = {}
    BY DEF Begun, NoStage
  <2> QED
    BY <2>1, FS_EmptySet
<1>3. TypeOK
  <2>1. Cardinality(Begun) <= Permits
    BY <1>2, PermitsAssumption
  <2>2. /\ DOMAIN report = {} /\ DOMAIN plan = {}
        /\ stage \in [Path -> {"none", "todo", "active", "hung", "kept", "done"}]
    BY DEF NoReport, NoPlan, NoStage
  <2>3. touched \in [Side -> SUBSET Path] /\ clock \in Nat /\ phase \in Phases
    BY ClockAssumption DEF Phases
  <2>4. now \in Tree /\ local \in Tree /\ saved \in Tree
    BY EmptyTypes
  <2> QED
    BY <1>1, <2>1, <2>2, <2>3, <2>4 DEF TypeOK
<1>4. Staged /\ Loaded /\ LateOnlyByEvent /\ Scanned /\ UploadsNewer
  BY DEF NoStage, Staged, Loaded, LateOnlyByEvent, Scanned, UploadsNewer
<1> QED
  BY <1>3, <1>4 DEF IInv

LEMMA NextInvariant == IInv /\ [Next]_vars => IInv'
<1> SUFFICES ASSUME IInv, [Next]_vars PROVE IInv'
  OBVIOUS
<1>1. CASE RunSync
  BY <1>1, StepStartSync, StepScanStat, StepSave, StepSaveWrite DEF RunSync
<1>2. CASE Plan
  BY <1>2, StepInitiateSync, StepMakePlan DEF Plan
<1>3. CASE Offline
  BY <1>3, StepGiveUp DEF Offline, Happens, IInv, TypeOK
<1>4. CASE Spawn
  BY <1>4, StepBegin DEF Spawn
<1>5. CASE \E p \in Path : SyncFile(p) \/ Hang(p)
  BY <1>5, StepTransfer, StepTransferKept, StepTransferGarbled, StepTransferLate, StepBreak,
     StepHang DEF SyncFile
<1>6. CASE Land
  BY <1>6, StepLand
<1>7. CASE Users
  BY <1>7, StepUsers DEF Users
<1>8. CASE Kill \/ ServerRestart
  BY <1>8, StepKill, StepServerRestart
<1>9. CASE UNCHANGED vars
  <2>1. Begun' = Begun
    BY <1>9 DEF vars, Begun
  <2> QED
    BY <1>9, <2>1 DEF vars, IInv, TypeOK, Staged, Loaded, LateOnlyByEvent, Scanned, UploadsNewer
<1> QED
  BY <1>1, <1>2, <1>3, <1>4, <1>5, <1>6, <1>7, <1>8, <1>9 DEF Next

\* The types of all variables, and no more transfers than permits.
THEOREM RoundsTyped == Spec => []TypeOK
<1>1. IInv => TypeOK
  BY DEF IInv
<1> QED
  BY <1>1, InitInvariant, NextInvariant, PTL DEF Spec

\* A step changes a server file nobody wrote only by an upload under way, whose time
\* is newer.
LEMMA ServerStep ==
  ASSUME IInv, Next, NEW p \in Path, tree'["server"][p] # tree["server"][p],
         p \notin touched["server"] \cup touched'["server"], Quiet({"late"})
  PROVE  tree["server"][p].hash = 0 \/ tree'["server"][p].ts > tree["server"][p].ts
<1>0. /\ "late" \notin events /\ late = {} /\ TypeOK
      /\ \A q \in Begun : q \in DOMAIN plan
      /\ tree["server"][p].ts \in Nat
  BY DEF IInv, LateOnlyByEvent, Staged, Begun, Quiet, TypeOK, Tree, Version
<1>1. ASSUME p \in Begun, plan[p].direction = "Upload", tree'["server"][p].ts = plan[p].ts
      PROVE  tree["server"][p].hash = 0 \/ tree'["server"][p].ts > tree["server"][p].ts
  <2>1. plan[p].ts \in Nat
    BY <1>0, <1>1 DEF TypeOK, FileAction
  <2> QED
    BY <1>0, <1>1, <2>1 DEF IInv, UploadsNewer, Begun
<1>2. ASSUME NEW q \in Path, Transfer(q)
      PROVE  p \in Begun /\ plan[p].direction = "Upload" /\ tree'["server"][p].ts = plan[p].ts
  <2>1. q \in Begun /\ q \in DOMAIN plan /\ Put(Target(q), q, Sent(q))
    BY <1>0, <1>2 DEF Transfer, Running, Active
  <2>2. q = p /\ Target(q) = "server" /\ tree'["server"][p] = Sent(p)
    BY <1>0, <2>1, PutEffect, SentType
  <2> QED
    BY <1>0, <2>1, <2>2, SentType
<1>3. ASSUME NEW P, P \subseteq Begun, Cut(P)
      PROVE  p \in Begun /\ plan[p].direction = "Upload" /\ tree'["server"][p].ts = plan[p].ts
  <2>1. p \in P /\ Target(p) = "server" /\ tree'["server"][p].ts = plan[p].ts
    BY <1>0, <1>3, CutEffect
  <2> QED
    BY <1>0, <1>3, <2>1, SentType
<1>4. CASE Kill
  <2>1. {q \in Path : Running(q) /\ Target(q) = "server"} \subseteq Begun
    BY DEF Running, Hanging, Active, Begun
  <2> QED
    BY <1>1, <1>3, <1>4, <2>1 DEF Kill
<1>5. ASSUME NEW q \in Path, Break(q)
      PROVE  tree["server"][p].hash = 0 \/ tree'["server"][p].ts > tree["server"][p].ts
  <2>1. {q} \subseteq Begun
    BY <1>5 DEF Break, Active
  <2> QED
    BY <1>1, <1>3, <1>5, <2>1 DEF Break
<1>6. ASSUME NEW side \in Side, NEW q \in Path, Edit(side, q) \/ Remove(side, q)
      PROVE  FALSE
  <2>1. \E v \in Version : Put(side, q, v)
    BY <1>0, <1>6, UserPuts
  <2>2. side = "server" /\ q = p
    BY <1>0, <2>1, PutEffect
  <2> QED
    BY <1>0, <1>6, <2>2 DEF Edit, Remove, TypeOK
<1>7. ~ UNCHANGED tree
  OBVIOUS
<1>8. ASSUME NEW q \in Path PROVE ~TransferGarbled(q)
  <2> SUFFICES ASSUME TransferGarbled(q) PROVE FALSE
    OBVIOUS
  <2> DEFINE v == [hash |-> clock', ts |-> plan[q].ts]
  <2>1. v \in Version /\ Put("client", q, v)
    BY <1>0 DEF TransferGarbled, Running, Active, TypeOK, FileAction, Version
  <2> HIDE DEF v
  <2> QED
    BY <1>0, <2>1, PutEffect
<1> QED
  BY <1>0, <1>1, <1>2, <1>4, <1>5, <1>6, <1>7, <1>8 DEF Next, RunSync, Plan, Spawn, SyncFile,
     Users, StartSync, ScanStat, InitiateSync, MakePlan, Offline, Begin, TransferKept, Hang,
     TransferLate, Land, AllDone, SaveOpen, SaveWrite, ServerRestart

\* Whatever fails, no round replaces a version on the server by one that is not
\* newer, unless its users wrote it meanwhile or a writer was left behind.
THEOREM ServerKeepsNewest == Spec => NewestOnServer
<1> DEFINE A == \A p \in Path :
                  /\ tree'["server"][p].hash # tree["server"][p].hash
                  /\ p \notin touched["server"] \cup touched'["server"]
                  /\ Quiet({"late"})
                  => tree["server"][p].hash = 0 \/ tree'["server"][p].ts > tree["server"][p].ts
<1>1. IInv /\ [Next]_vars => [A]_vars
  BY ServerStep
<1> QED
  BY <1>1, InitInvariant, NextInvariant, PTL DEF Spec, NewestOnServer
=============================================================================
