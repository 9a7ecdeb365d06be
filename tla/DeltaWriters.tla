---------------------------- MODULE DeltaWriters ----------------------------
(***************************************************************************)
(* The delta writers of one machine, on its file system: every file that   *)
(* arrives is written to a temporary file next to it, by a task of its     *)
(* own, and renamed when its channel is closed; many run at once, for the  *)
(* files of a plan and for the sessions of several clients.                *)
(*                                                                         *)
(* A name, with every ".." resolved, leads to an inode; a writer keeps its *)
(* inode open whatever becomes of the name.  The content of an inode is    *)
(* the sequence of the owners of its chunks.                               *)
(***************************************************************************)
EXTENDS SyncPaths

CONSTANTS
  Job,         \* the writers, each with a file to write
  Chunks,      \* Chunks[j]: the instructions of j's delta
  Roots,       \* what sync_path may be
  WirePaths,   \* the paths the peer may name
  OldFiles,    \* OldFiles[i]: where the inode i may lie at the start
  Events       \* what the environment may do, each at most once

ASSUME JobsAssumption == Chunks \in [Job -> Nat] /\ Job \cap DOMAIN OldFiles = {}
ASSUME RootsAssumption == Roots \subseteq Seq(Component)
\* The peer names files by their paths below its root, where the user's lie here.
ASSUME WirePathsAssumption ==
  \A w \in WirePaths :
    /\ w \in Seq(DOMAIN TmpOf \cup Special)
    /\ \A i \in 2..Len(w) : w[i] # "/"
    /\ Clean(w) # <<".">>
ASSUME OldFilesAssumption == \A i \in DOMAIN OldFiles : OldFiles[i] \in Seq(Name) \ {<<>>}
ASSUME EventsAssumption == Events \subseteq {"kill", "cut", "diskError"}

VARIABLES
  root,     \* sync_path
  wire,     \* wire[j]: the path the peer named
  dirs,     \* the directories there are
  tree,     \* the inode of every file there is
  data,     \* data[i]: the owners of the chunks of inode i
  mtime,    \* mtime[i]: whose time stamp it has, or "now"
  pc,       \* where each writer is
  fd,       \* the inode each writer has open
  wrote,    \* chunks written by each
  cut,      \* the writers whose channel was closed early
  contested,\* history: the names of writers that were at work on one name at
            \* once, and of those that have used such a name since
  events    \* what the environment did so far

names == <<root, wire, dirs>>
vars == <<names, tree, data, mtime, pc, fd, wrote, cut, contested, events>>

Inode == Job \cup DOMAIN OldFiles
Home == Clean(root)
Base == Resolved(root)  \* what the names below it begin with
Located(path) == IF path = PathError THEN path ELSE Clean(path)
Target(j) == Located(GetAbsolutePath(wire[j], root))
Parent(path) == Clean(Front(path))
Temp(j) == Tmp(Target(j))
Goto(j, l) == pc' = [pc EXCEPT ![j] = l]
Live(j) == pc[j] \in {"open", "stamp"}
Uses(j) == {Target(j), Temp(j)}
Rivals(j) == {k \in Job \ {j} : Live(k) /\ Uses(k) \cap Uses(j) # {}}
Happens(ev) == ev \in Events \ events /\ events' = events \cup {ev}

Init ==
  /\ root \in Roots
  /\ wire \in [Job -> WirePaths]
  /\ \E new \in SUBSET {Append(Base, "d")} : dirs = {Parent(Home), Home} \cup new
  /\ \E old \in SUBSET DOMAIN OldFiles :
       tree = [p \in {Base \o OldFiles[i] : i \in old} |->
                 CHOOSE i \in old : Base \o OldFiles[i] = p]
  /\ data = [i \in Inode |-> <<"user">>]
  /\ mtime = [i \in Inode |-> "user"]
  /\ pc = [j \in Job |-> "new"]
  /\ fd = [j \in Job |-> j]
  /\ wrote = [j \in Job |-> 0]
  /\ cut = {} /\ contested = {} /\ events = {}

\* A path that leads out of sync_path is no file to write.
Refuse(j) ==
  /\ pc[j] = "new" /\ Target(j) = PathError
  /\ Goto(j, "refused")
  /\ UNCHANGED <<names, tree, data, mtime, fd, wrote, cut, contested, events>>

\* File::create: a file that is there already is emptied, and stays itself.
CreateOn(j, old) ==
  /\ pc[j] = "new" /\ Target(j) # PathError
  /\ Parent(Temp(j)) \in dirs /\ Temp(j) \notin dirs
  /\ LET i == IF Temp(j) \in DOMAIN tree THEN tree[Temp(j)] ELSE j IN
       /\ tree' = [p \in DOMAIN tree \cup {Temp(j)} |-> IF p = Temp(j) THEN i ELSE tree[p]]
       /\ data' = [data EXCEPT ![i] = IF i = j THEN <<>> ELSE old[i]]
       /\ mtime' = [mtime EXCEPT ![i] = "now"]
       /\ fd' = [fd EXCEPT ![j] = i]
  /\ Goto(j, "open")
  /\ contested' = contested \cup
       IF Rivals(j) # {} \/ Uses(j) \cap contested # {}
       THEN UNION {Uses(k) : k \in Rivals(j) \cup {j}} ELSE {}
  /\ UNCHANGED <<names, wrote, cut, events>>

\* Faulty: opened without emptying it.
CreateKeeping(j) == CreateOn(j, data)

Create(j) == CreateOn(j, [i \in Inode |-> <<>>])

\* The directories above the file are never made.
CreateFails(j) ==
  /\ pc[j] = "new" /\ Target(j) # PathError
  /\ Parent(Temp(j)) \notin dirs \/ Temp(j) \in dirs
  /\ Goto(j, "failed")
  /\ UNCHANGED <<names, tree, data, mtime, fd, wrote, cut, contested, events>>

\* Every instruction says where its bytes go.
WriteAt(content, k, owner) ==
  [n \in 1..(IF k > Len(content) THEN k ELSE Len(content)) |->
     IF n = k THEN owner ELSE IF n <= Len(content) THEN content[n] ELSE "hole"]

Write(j) ==
  /\ pc[j] = "open" /\ wrote[j] < Chunks[j] /\ j \notin cut
  /\ wrote' = [wrote EXCEPT ![j] = @ + 1]
  /\ data' = [data EXCEPT ![fd[j]] = WriteAt(@, wrote[j] + 1, j)]
  /\ mtime' = [mtime EXCEPT ![fd[j]] = "now"]
  /\ UNCHANGED <<names, tree, pc, fd, cut, contested, events>>

\* The channel is closed, early or not: whatever lies at the temporary name by
\* now takes the file's place.
Commit(j, without, next) ==
  /\ pc[j] = "open" /\ (wrote[j] = Chunks[j] \/ j \in cut)
  /\ IF Temp(j) \in DOMAIN tree /\ Target(j) \notin dirs
     THEN /\ tree' = [p \in (DOMAIN tree \ without) \cup {Target(j)} |->
                        IF p = Target(j) THEN tree[Temp(j)] ELSE tree[p]]
          /\ Goto(j, next)
     ELSE tree' = tree /\ Goto(j, "failed")
  /\ UNCHANGED <<names, data, mtime, fd, wrote, cut, contested, events>>

\* Faulty: copied, not renamed; left alone when cut; never stamped.
RenameCopying(j) == Commit(j, {}, "stamp")
RenameIfWhole(j) ==
  IF j \in cut /\ pc[j] = "open"
  THEN Goto(j, "done") /\ UNCHANGED <<names, tree, data, mtime, fd, wrote, cut, contested, events>>
  ELSE Commit(j, {Temp(j)}, "stamp")
RenameStamped(j) == Commit(j, {Temp(j)}, "done")

Rename(j) == Commit(j, {Temp(j)}, "stamp")

\* The time stamp is set by name, by a task of its own.
Stamp(j) ==
  /\ pc[j] = "stamp"
  /\ mtime' = IF Target(j) \in DOMAIN tree THEN [mtime EXCEPT ![tree[Target(j)]] = j] ELSE mtime
  /\ Goto(j, "done")
  /\ UNCHANGED <<names, tree, data, fd, wrote, cut, contested, events>>

\* The session ends early and drops the channel.
Cut(j) ==
  /\ pc[j] = "open" /\ wrote[j] < Chunks[j]
  /\ Happens("cut")
  /\ cut' = cut \cup {j}
  /\ UNCHANGED <<names, tree, data, mtime, pc, fd, wrote, contested>>

\* A write fails, an instruction is not one, or it names a block there is not and
\* the task panics.
DiskError(j) ==
  /\ pc[j] = "open"
  /\ Happens("diskError")
  /\ Goto(j, "failed")
  /\ UNCHANGED <<names, tree, data, mtime, fd, wrote, cut, contested>>

\* The process ends with its writers; writers that start later are those of the
\* next one.
Kill ==
  /\ \E j \in Job : Live(j)
  /\ Happens("kill")
  /\ pc' = [j \in Job |-> IF Live(j) THEN "failed" ELSE pc[j]]
  /\ UNCHANGED <<names, tree, data, mtime, fd, wrote, cut, contested>>

Next ==
  \/ \E j \in Job :
       \/ Refuse(j) \/ Create(j) \/ CreateFails(j) \/ Write(j) \/ Rename(j)
       \/ Stamp(j) \/ Cut(j) \/ DiskError(j)
  \/ Kill

Spec == Init /\ [][Next]_vars

-----------------------------------------------------------------------------
\* The names of the files, and the temporary ones: a file of the user that has one is not safe.
Targets == {Target(j) : j \in Job}
Temps == {Temp(j) : j \in {k \in Job : Target(k) # PathError}}

\* The shape of the state.  A temporary file is renamed, not copied: no two names
\* lead to one inode (writer.rs:70).
TypeOK ==
  /\ root \in Roots /\ wire \in [Job -> WirePaths]
  /\ \A p \in DOMAIN tree : tree[p] \in Inode
  /\ \A p, q \in DOMAIN tree : tree[p] = tree[q] => p = q
  /\ DOMAIN data = Inode /\ mtime \in [Inode -> Job \cup {"user", "now"}]
  /\ pc \in [Job -> {"new", "open", "stamp", "done", "failed", "refused"}]
  /\ fd \in [Job -> Inode]
  /\ wrote \in [Job -> Nat] /\ \A j \in Job : wrote[j] <= Chunks[j]
  /\ cut \subseteq Job /\ contested \subseteq Targets \cup Temps
  /\ events \subseteq Events

Whole(j) == [n \in 1..Chunks[j] |-> j]
Complete(content, p) ==
  \/ content = <<"user">>
  \/ \E j \in Job : Target(j) = p
                    /\ \/ content = Whole(j)
                       \/ j \in cut /\ content = [n \in 1..wrote[j] |-> j]

\* Under its own name a file is what the user had, or all of one delta, even
\* after a kill and a second try, unless the name is contested: whatever two
\* writers of one path do to it, no other file suffers; a channel closed early
\* leaves the front of the file (writer.rs:26-70).
FilesWhole ==
  \A p \in DOMAIN tree \ (Temps \cup contested) : Complete(data[tree[p]], p)

\* A file that was written has the sender's time stamp, and not the time of the
\* write, when its writer is done, unless its name is contested
\* (writer.rs:74-75).
StampMatches ==
  \A j \in Job : pc[j] = "done" /\ Target(j) \in DOMAIN tree \ (Temps \cup contested)
                 /\ tree[Target(j)] = fd[j] => mtime[fd[j]] = j

\* A temporary file that no writer is at work on, and the next scan will report
\* as a file of the user, is left by a kill, an error of the writer (the disk's,
\* or a block index there is not) or a directory in the file's place only, if
\* its name is not contested (writer.rs:36-78, state.rs:156-173).
StrayTemporary ==
  \A j \in Job :
    /\ Target(j) # PathError /\ Temp(j) \in DOMAIN tree \ contested
    /\ Temp(j) \notin Targets
    /\ data[tree[Temp(j)]] # <<"user">>
    => \/ \E k \in Job : Live(k) /\ Temp(k) = Temp(j)
       \/ {"kill", "diskError"} \cap events # {}
       \/ Target(j) \in dirs

Below(p) == SubSeq(p, Len(Base) + 1, Len(p))

\* Nothing is written outside sync_path, whatever path the peer names
\* (transfer.rs:15-39).
StaysInside ==
  \A p \in DOMAIN tree :
    StartsWith(p, Base) /\ \A i \in 1..Len(Below(p)) : Below(p)[i] \notin Special

\* Every file a scan should report is reported under the name that leads back to
\* it, unless sync_path itself is hidden: then none is (state.rs:152-184).
ScanFaithful ==
  LET found == Scan({root \o Below(p) : p \in DOMAIN tree}, root)
  IN  \A p \in DOMAIN tree :
        ~HasHiddenComponents(Below(p)) =>
          ((\E r \in found : Located(GetAbsolutePath(r, root)) = p)
             <=> ~HasHiddenComponents(root))

\* What a test says of the writer (tests/file_system_operations.rs:12): it
\* reconstructs the file.
WriterReconstructs ==
  \A j \in Job : events = {} /\ Target(j) \notin dirs \cup contested => pc[j] # "failed"
=============================================================================
