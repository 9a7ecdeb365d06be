------------------------------ MODULE SyncPlan ------------------------------
(***************************************************************************)
(* The pure part of a synchronisation round (sync/state.rs): what a client *)
(* reports as changed since its saved state, and the plan the server makes *)
(* of the report and its own files.  A content is a number, its hash; a    *)
(* path that has no file holds NoFile.  Paths stand for those the scans    *)
(* keep (no hidden component), as numbers in the order of the BTreeMaps.   *)
(***************************************************************************)
EXTENDS Integers, FiniteSets

CONSTANTS
  Path,   \* paths relative to the sync roots
  Micro   \* ticks of a file's clock per tick kept in state.json

ASSUME PathAssumption == Path \subseteq Nat /\ IsFiniteSet(Path)
ASSUME MicroAssumption == Micro \in Nat \ {0}

Version == [hash : Nat, ts : Nat]
NoFile == [hash |-> 0, ts |-> 0]
Tree == [Path -> Version]
Present(tree) == {p \in Path : tree[p].hash # 0}
EmptyTree == [p \in Path |-> NoFile]

\* What load_state gives back of a saved tree: times lose their nanoseconds.
Reloaded(tree) == [p \in Path |-> [tree[p] EXCEPT !.ts = @ - (@ % Micro)]]

Changed(before, now) == {p \in Path : before[p].hash # now[p].hash}

\* The status sent for a changed path.  A removed file, and a file whose time
\* did not advance, is reported as it was before; the kind of change is not sent.
Reported(before, now) ==
  IF now.hash = 0 \/ (before.hash # 0 /\ now.ts <= before.ts) THEN before ELSE now

CompareStates(before, now) ==
  [p \in Changed(before, now) |-> Reported(before[p], now[p])]

Action(direction, ts) == [direction |-> direction, ts |-> ts]
FileAction == [direction : {"Skip", "Download", "Upload"}, ts : Nat]

\* Faults: the newer side receives; of two files of one age the client's wins.
PlanForSwapped(local, remote) ==
  IF remote.hash = 0 THEN Action("Download", local.ts)
  ELSE IF local.hash = 0 THEN Action("Upload", remote.ts)
  ELSE IF local.hash = remote.hash THEN Action("Skip", 0)
  ELSE IF local.ts > remote.ts THEN Action("Upload", local.ts)
  ELSE IF local.ts < remote.ts THEN Action("Download", remote.ts)
  ELSE Action("Skip", local.ts)

PlanForTie(local, remote) ==
  IF remote.hash = 0 THEN Action("Download", local.ts)
  ELSE IF local.hash = 0 THEN Action("Upload", remote.ts)
  ELSE IF local.hash = remote.hash THEN Action("Skip", 0)
  ELSE IF local.ts > remote.ts THEN Action("Download", local.ts)
  ELSE Action("Upload", remote.ts)

\* local is the server's file, remote the status reported by the client, NoFile
\* if it reported none: the client may have the file all the same, unchanged.
PlanFor(local, remote) ==
  IF remote.hash = 0 THEN Action("Download", local.ts)
  ELSE IF local.hash = 0 THEN Action("Upload", remote.ts)
  ELSE IF local.hash = remote.hash THEN Action("Skip", 0)
  ELSE IF local.ts > remote.ts THEN Action("Download", local.ts)
  ELSE IF local.ts < remote.ts THEN Action("Upload", remote.ts)
  ELSE Action("Skip", local.ts)

GenerateSyncPlan(local, reported) ==
  [p \in Present(local) \cup DOMAIN reported |->
     PlanFor(local[p], IF p \in DOMAIN reported THEN reported[p] ELSE NoFile)]
=============================================================================
