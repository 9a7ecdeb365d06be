------------------------------ MODULE SyncPaths -----------------------------
(***************************************************************************)
(* The names of files: a path is the sequence of its components, an        *)
(* absolute one starts with "/".  Both sides name a file by its path below *)
(* their own sync_path; the sender strips its root, the receiver joins its *)
(* own after it has refused whatever leads out of it.                      *)
(***************************************************************************)
EXTENDS Integers, Sequences, SequencesExt

CONSTANTS
  Name,    \* the names of files and directories
  Dotted,  \* the names that begin with a dot
  TmpOf    \* TmpOf[n]: the name the delta writer derives from name n

\* What stands for no name.
Special == {"/", ".", ".."}
Component == Name \cup Special

ASSUME NameAssumption == Name \cap Special = {} /\ DOMAIN TmpOf \subseteq Name

\* The writer adds ".tmp" to a name.
ASSUME TmpAssumption ==
  /\ \A n \in DOMAIN TmpOf : TmpOf[n] \in Name
  /\ \A n, m \in DOMAIN TmpOf : TmpOf[n] = TmpOf[m] => n = m

IsAbsolute(path) == path # <<>> /\ Head(path) = "/"

StartsWith(path, prefix) == IsPrefix(prefix, path)

\* PathClean: ".." takes its parent away, and stays where there is none.
Resolve(done, c) ==
  CASE c = "." -> done
    [] c = ".." /\ done = <<"/">> -> done
    [] c = ".." /\ done # <<>> /\ Last(done) # ".." -> Front(done)
    [] OTHER -> Append(done, c)

Resolved(path) ==
  LET done[i \in 0..Len(path)] == IF i = 0 THEN <<>> ELSE Resolve(done[i - 1], path[i])
  IN  done[Len(path)]

Clean(path) == IF Resolved(path) = <<>> THEN <<".">> ELSE Resolved(path)

\* PathBuf::join; a "." adds nothing.
Join(path, below) ==
  IF IsAbsolute(below) THEN below ELSE IF below = <<".">> THEN path ELSE path \o below

PathError == <<>>

\* Faulty: the path is joined as it comes.
JoinedUnclean(relative, root) ==
  IF IsAbsolute(relative) \/ StartsWith(relative, <<"..">>)
     \/ ~StartsWith(Join(root, relative), root)
  THEN PathError ELSE Join(root, relative)

GetAbsolutePath(relative, root) ==
  IF IsAbsolute(relative) \/ StartsWith(Clean(relative), <<"..">>)
     \/ ~StartsWith(Join(root, Clean(relative)), root)
  THEN PathError ELSE Join(root, Clean(relative))

GetRelativePath(path, root) ==
  IF StartsWith(path, root) THEN SubSeq(path, Len(root) + 1, Len(path)) ELSE PathError

\* Every component counts, those of sync_path and a leading "." included.
HasHiddenComponents(path) ==
  \E i \in 1..Len(path) : path[i] \in Dotted \cup {".", ".."}

\* Faulty: the path is reported as it was found.
ScanAbsolute(files, root) == {p \in files : ~HasHiddenComponents(p)}

\* The paths generate_state reports for the files below root.
Scan(files, root) ==
  {GetRelativePath(p, root) : p \in {q \in files : ~HasHiddenComponents(q)}}

Tmp(path) == Append(Front(path), TmpOf[Last(path)])
=============================================================================
