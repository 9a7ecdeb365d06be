-------------------------- MODULE DeltaWritersProofs --------------------------
(* Proofs about the delta writers, for any number of writers and deltas, any  *)
(* sync_path and any paths the peer may name.                                 *)
EXTENDS DeltaWriters, SyncPathsProofs

-----------------------------------------------------------------------------
(* The names.                                                               *)

LEMMA Ends ==
  ASSUME NEW S, NEW s \in Seq(S), NEW c \in S
  PROVE  Front(Append(s, c)) = s /\ Last(Append(s, c)) = c
<1> DEFINE e == Append(s, c)
<1>1. /\ e \in Seq(S) /\ Len(e) = Len(s) + 1 /\ e[Len(s) + 1] = c
      /\ \A i \in 1..Len(s) : e[i] = s[i]
  BY SeqEnds
<1> HIDE DEF e
<1>2. e # <<>> /\ Len(s) \in Nat
  BY <1>1
<1>3. /\ Front(e) \in Seq(S) /\ Len(Front(e)) = Len(e) - 1
      /\ \A i \in 1..(Len(e) - 1) : Front(e)[i] = e[i]
  BY <1>1, <1>2, SeqEnds
<1>4. Len(Front(e)) = Len(s) /\ \A i \in 1..Len(s) : Front(e)[i] = s[i]
  BY <1>1, <1>2, <1>3
<1>5. Front(e) = s
  <2> HIDE DEF Front
  <2> QED
    BY <1>3, <1>4, SeqEqual
<1>6. Last(e) = c
  BY <1>1, <1>2 DEF Last
<1> QED
  BY <1>5, <1>6 DEF e

LEMMA SplitLast ==
  ASSUME NEW S, NEW s \in Seq(S), s # <<>>
  PROVE  /\ Front(s) \in Seq(S) /\ Last(s) \in S
         /\ s = Append(Front(s), Last(s))
<1>1. /\ Front(s) \in Seq(S) /\ Len(Front(s)) = Len(s) - 1 /\ Last(s) \in S
      /\ \A i \in 1..(Len(s) - 1) : Front(s)[i] = s[i]
  <2>1. PICK c : c \in S
    <3>1. 1 \in 1..Len(s)
      OBVIOUS
    <3>2. s[1] \in S
      BY <3>1
    <3> QED
      BY <3>2
  <2> QED
    BY <2>1, SeqEnds
<1> DEFINE f == Front(s)
           l == Last(s)
           e == Append(f, l)
<1>2. l = s[Len(s)] /\ Len(s) \in Nat /\ Len(s) > 0
  BY DEF Last
<1> HIDE DEF f, l
<1>3. f \in Seq(S) /\ l \in S /\ Len(f) = Len(s) - 1 /\ \A i \in 1..(Len(s) - 1) : f[i] = s[i]
  BY <1>1 DEF f, l
<1>4. /\ e \in Seq(S) /\ Len(e) = Len(f) + 1 /\ e[Len(f) + 1] = l
      /\ \A i \in 1..Len(f) : e[i] = f[i]
  BY <1>3, SeqEnds
<1> HIDE DEF e
<1>5. Len(e) = Len(s)
  BY <1>2, <1>3, <1>4
<1>6. ASSUME NEW i \in 1..Len(e) PROVE e[i] = s[i]
  <2>1. CASE i = Len(s)
    BY <1>2, <1>3, <1>4, <2>1
  <2>2. CASE i # Len(s)
    <3>1. i \in 1..(Len(s) - 1) /\ i \in 1..Len(f)
      BY <1>2, <1>3, <1>5, <2>2
    <3> QED
      BY <1>3, <1>4, <3>1
  <2> QED
    BY <2>1, <2>2
<1>7. e = s
  BY <1>4, <1>5, <1>6, SeqEqual
<1> QED
  BY <1>1, <1>7 DEF e, f, l

LEMMA Prefixed ==
  ASSUME NEW S, NEW s \in Seq(S), NEW t \in Seq(S)
  PROVE  StartsWith(s \o t, s) /\ SubSeq(s \o t, Len(s) + 1, Len(s \o t)) = t
<1> DEFINE c == s \o t
<1>1. /\ c \in Seq(S) /\ Len(c) = Len(s) + Len(t)
      /\ \A i \in 1..Len(c) : c[i] = IF i <= Len(s) THEN s[i] ELSE t[i - Len(s)]
  BY ConcatProperties
<1>2. Len(s) \in Nat /\ Len(t) \in Nat
  OBVIOUS
<1> HIDE DEF c
<1>3. StartsWith(c, s)
  <2>1. \A i \in 1..Len(s) : i \in 1..Len(c) /\ i <= Len(s)
    BY <1>1, <1>2
  <2>2. SubSeq(s, 1, Len(s)) = [i \in 1..Len(s) |-> s[i]]
    BY <1>2
  <2>3. SubSeq(c, 1, Len(s)) = [i \in 1..Len(s) |-> c[i]]
    BY <1>1, <1>2
  <2>4. \A i \in 1..Len(s) : c[i] = s[i]
    BY <1>1, <2>1
  <2> QED
    BY <1>1, <1>2, <2>2, <2>3, <2>4 DEF StartsWith, IsPrefix
<1>4. SubSeq(c, Len(s) + 1, Len(c)) = t
  <2> DEFINE u == SubSeq(c, Len(s) + 1, Len(c))
  <2>1. u = [i \in 1..Len(t) |-> c[i + Len(s)]]
    BY <1>1, <1>2
  <2>2. \A i \in 1..Len(t) : i + Len(s) \in 1..Len(c) /\ ~(i + Len(s) <= Len(s)) /\ (i + Len(s)) - Len(s) = i
    BY <1>1, <1>2
  <2>3. \A i \in 1..Len(t) : c[i + Len(s)] = t[i]
    BY <1>1, <2>2
  <2>4. t = [i \in 1..Len(t) |-> t[i]]
    OBVIOUS
  <2> HIDE DEF u
  <2> QED
    BY <2>1, <2>3, <2>4 DEF u
<1> QED
  BY <1>3, <1>4 DEF c

\* A name below the root, as GetAbsolutePath joins it.
LEMMA NameBelow ==
  ASSUME NEW r \in Seq(Component), NEW b \in Seq(Name), b # <<>>
  PROVE  Located(Join(r, b)) = Resolved(r) \o b /\ Join(r, b) = r \o b /\ r \o b # <<>>
<1>1. Len(b) \in Nat /\ Len(b) > 0 /\ b[1] \in Name
  OBVIOUS
<1>2. b[1] # "/" /\ b[1] # "."
  BY <1>1, NameAssumption DEF Special
<1>3. ~ IsAbsolute(b) /\ b # <<".">>
  BY <1>1, <1>2 DEF IsAbsolute
<1>4. Join(r, b) = r \o b
  BY <1>3 DEF Join
<1>5. b \in Seq(Component) /\ Resolved(r) \in Seq(Component)
  BY ResolvedType DEF Component
<1>6. r \o b # <<>> /\ Resolved(r) \o b # <<>>
  BY <1>1, <1>5, ConcatProperties
<1>7. Resolved(r \o b) = Resolved(r) \o b
  BY ResolvedBelow
<1>8. Located(r \o b) = Resolved(r) \o b
  BY <1>6, <1>7 DEF Located, PathError, Clean
<1> QED
  BY <1>4, <1>6, <1>8

\* What a writer works on: a name below the root, and the one next to it.
LEMMA Shape ==
  ASSUME root \in Roots, wire \in [Job -> WirePaths], NEW j \in Job, Target(j) # PathError
  PROVE  /\ Base \in Seq(Component)
         /\ \E f \in Seq(DOMAIN TmpOf) : \E x \in DOMAIN TmpOf :
              /\ Target(j) = Base \o Append(f, x) /\ Target(j) = Append(Base \o f, x)
              /\ Temp(j) = Base \o Append(f, TmpOf[x]) /\ Temp(j) = Append(Base \o f, TmpOf[x])
<1> DEFINE w == wire[j]
           b == Clean(w)
<1>1. /\ root \in Seq(Component) /\ w \in WirePaths
      /\ w \in Seq(DOMAIN TmpOf \cup Special) /\ \A i \in 2..Len(w) : w[i] # "/"
      /\ Clean(w) # <<".">>
  BY RootsAssumption, WirePathsAssumption
<1>2. Base \in Seq(Component)
  BY <1>1, ResolvedType DEF Base
<1>3. Target(j) = Located(GetAbsolutePath(w, root))
  BY DEF Target
<1> HIDE DEF w
<1>4. /\ ~ IsAbsolute(w) /\ ~ StartsWith(Clean(w), <<"..">>)
      /\ GetAbsolutePath(w, root) = Join(root, Clean(w))
  BY <1>3 DEF GetAbsolutePath, Located
<1>5. w \in Seq(Component) /\ DOMAIN TmpOf \subseteq Name
  <2>1. DOMAIN TmpOf \cup Special \subseteq Component /\ DOMAIN TmpOf \subseteq Name
    BY NameAssumption DEF Component
  <2> QED
    BY <1>1, <2>1
<1>6. \A i \in 1..Len(w) : w[i] \in DOMAIN TmpOf \cup {".", ".."}
  <2> SUFFICES ASSUME NEW i \in 1..Len(w) PROVE w[i] # "/"
    BY <1>1 DEF Special
  <2>1. CASE i = 1
    BY <1>1, <1>4, <2>1 DEF IsAbsolute
  <2>2. CASE i # 1
    BY <1>1, <2>2
  <2> QED
    BY <2>1, <2>2
<1>7. b \in Seq(DOMAIN TmpOf) /\ b # <<>>
  BY <1>1, <1>4, <1>5, <1>6, RelativeNames
<1> HIDE DEF b
<1>8. Target(j) = Base \o b
  <2>1. b \in Seq(Name)
    BY <1>5, <1>7
  <2> QED
    BY <1>1, <1>3, <1>4, <1>7, <2>1, NameBelow DEF Base, b
<1> DEFINE f == Front(b)
           x == Last(b)
<1>9. f \in Seq(DOMAIN TmpOf) /\ x \in DOMAIN TmpOf /\ b = Append(f, x)
  BY <1>7, SplitLast
<1> HIDE DEF f, x
<1>10. /\ f \in Seq(Component) /\ x \in Component /\ TmpOf[x] \in Component
       /\ Base \o f \in Seq(Component)
  <2>1. DOMAIN TmpOf \subseteq Component /\ TmpOf[x] \in Component
    BY <1>5, <1>9, TmpAssumption DEF Component
  <2>2. f \in Seq(Component)
    BY <1>9, <2>1
  <2> QED
    BY <1>2, <1>9, <2>1, <2>2
<1>11. Base \o b = Append(Base \o f, x) /\ Base \o Append(f, TmpOf[x]) = Append(Base \o f, TmpOf[x])
  BY <1>2, <1>9, <1>10, CatAppend
<1>12. Temp(j) = Append(Base \o f, TmpOf[x])
  <2> DEFINE s == Base \o f
  <2>1. s \in Seq(Component) /\ Target(j) = Append(s, x)
    BY <1>8, <1>9, <1>10, <1>11
  <2> HIDE DEF s
  <2>2. Front(Append(s, x)) = s /\ Last(Append(s, x)) = x
    BY <1>10, <2>1, Ends
  <2>3. Temp(j) = Append(s, TmpOf[x])
    BY <2>1, <2>2 DEF Temp, Tmp
  <2> QED
    BY <2>3 DEF s
<1> QED
  BY <1>2, <1>8, <1>9, <1>11, <1>12

\* No two files share a temporary name.
LEMMA TempOfOne ==
  ASSUME root \in Roots, wire \in [Job -> WirePaths],
         NEW j \in Job, NEW k \in Job, Target(j) # PathError, Target(k) # PathError,
         Temp(j) = Temp(k)
  PROVE  Target(j) = Target(k)
<1>1. PICK f \in Seq(DOMAIN TmpOf), x \in DOMAIN TmpOf :
        Target(j) = Append(Base \o f, x) /\ Temp(j) = Append(Base \o f, TmpOf[x])
  BY Shape
<1>2. PICK g \in Seq(DOMAIN TmpOf), y \in DOMAIN TmpOf :
        Target(k) = Append(Base \o g, y) /\ Temp(k) = Append(Base \o g, TmpOf[y])
  BY Shape
<1>3. /\ Base \o f \in Seq(Component) /\ TmpOf[x] \in Component
      /\ Base \o g \in Seq(Component) /\ TmpOf[y] \in Component
  <2>1. DOMAIN TmpOf \subseteq Component /\ TmpOf[x] \in Component /\ TmpOf[y] \in Component
    BY NameAssumption, TmpAssumption DEF Component
  <2>2. f \in Seq(Component) /\ g \in Seq(Component)
    BY <2>1
  <2>3. Base \in Seq(Component)
    BY Shape
  <2> QED
    BY <2>1, <2>2, <2>3
<1> DEFINE s == Base \o f
           t == Base \o g
           c == TmpOf[x]
           d == TmpOf[y]
<1>4. /\ s \in Seq(Component) /\ c \in Component /\ t \in Seq(Component) /\ d \in Component
      /\ Append(s, c) = Append(t, d)
  BY <1>1, <1>2, <1>3
<1>5. s = t /\ c = d
  <2> HIDE DEF s, t, c, d
  <2>1. Front(Append(s, c)) = s /\ Last(Append(s, c)) = c
    BY <1>4, Ends
  <2>2. Front(Append(t, d)) = t /\ Last(Append(t, d)) = d
    BY <1>4, Ends
  <2> QED
    BY <1>4, <2>1, <2>2
<1> QED
  BY <1>1, <1>2, <1>5, TmpAssumption

LEMMA NamesKept ==
  ASSUME UNCHANGED names
  PROVE  /\ root' = root /\ wire' = wire /\ dirs' = dirs
         /\ \A j \in Job : Target(j)' = Target(j) /\ Temp(j)' = Temp(j) /\ Uses(j)' = Uses(j)
         /\ Targets' = Targets /\ Temps' = Temps /\ Base' = Base
<1>1. root' = root /\ wire' = wire /\ dirs' = dirs
  BY DEF names
<1>2. \A j : Target(j)' = Target(j)
  BY <1>1 DEF Target
<1>3. \A j : Temp(j)' = Temp(j)
  BY <1>2 DEF Temp
<1>4. Temps' = Temps /\ Targets' = Targets
  BY <1>2, <1>3 DEF Temps, Targets
<1> QED
  BY <1>1, <1>2, <1>3, <1>4 DEF Base, Uses

-----------------------------------------------------------------------------
(* The invariants.                                                          *)

\* A writer has no inode before it opens one, and a name once it has.
Fresh(j) ==
  /\ wrote[j] = 0
  /\ \A p \in DOMAIN tree : tree[p] # j
  /\ \A k \in Job : fd[k] = j => k = j

Ready ==
  /\ TypeOK
  /\ \A j \in Job : pc[j] = "new" => Fresh(j)
  /\ \A j \in Job : pc[j] \in {"open", "stamp", "done"} => Target(j) # PathError

Inside ==
  \A p \in DOMAIN tree : p = Base \o Below(p) /\ Below(p) \in Seq(Name) \ {<<>>}

Free(j) == Uses(j) \cap contested = {}
Lost(j) == Uses(j) \subseteq contested

\* Two writers at work share no name, or all their names are contested; a writer
\* at work has none of its names contested, or all of them.
Apart(j, k) ==
  Live(j) /\ Live(k) => Uses(j) \cap Uses(k) = {} \/ (Lost(j) /\ Lost(k))

Divided(j) == Live(j) => Free(j) \/ Lost(j)

\* As long as its names are its own, a writer finds what it left: its temporary
\* file until it renames it, its file until it stamps it.
AtTemp(j) ==
  pc[j] = "open" /\ Free(j) =>
    /\ Temp(j) \in DOMAIN tree /\ tree[Temp(j)] = fd[j]
    /\ data[fd[j]] = [n \in 1..wrote[j] |-> j]

AtTarget(j) ==
  pc[j] = "stamp" /\ Free(j) =>
    /\ Target(j) \in DOMAIN tree /\ tree[Target(j)] = fd[j]
    /\ Temp(j) \in DOMAIN tree => \E k \in Job : Temp(j) = Target(k)

\* The inode of another writer never lies at a name that is not contested.
Spread(j) ==
  Live(j) /\ Lost(j) => \A p \in DOMAIN tree : tree[p] = fd[j] => p \in contested

Alone ==
  /\ \A j, k \in Job : j # k => Apart(j, k)
  /\ \A j \in Job : Divided(j)
  /\ \A j \in Job : AtTemp(j)
  /\ \A j \in Job : AtTarget(j)
  /\ \A j \in Job : Spread(j)

\* An inode that was renamed into place stays there, and is no other writer's.
Renamed(j) == pc[j] \in {"stamp", "done"} /\ Target(j) \notin Temps \cup contested

Kept ==
  /\ \A j \in Job : Renamed(j) => \A p \in DOMAIN tree : tree[p] = fd[j] => p = Target(j)
  /\ \A j, k \in Job : j # k /\ Renamed(j) /\ Renamed(k) => fd[j] # fd[k]

-----------------------------------------------------------------------------
(* What the steps do.                                                       *)

LEMMA CreateEffect ==
  ASSUME Ready, NEW j \in Job, Create(j)
  PROVE  /\ pc[j] = "new" /\ Target(j) # PathError /\ pc' = [pc EXCEPT ![j] = "open"]
         /\ DOMAIN tree' = DOMAIN tree \cup {Temp(j)}
         /\ \A p \in DOMAIN tree : tree'[p] = tree[p]
         /\ tree'[Temp(j)] = fd'[j] /\ fd'[j] \in Inode /\ fd' = [fd EXCEPT ![j] = fd'[j]]
         /\ Temp(j) \notin DOMAIN tree => fd'[j] = j
         /\ \A p \in DOMAIN tree : tree[p] = fd'[j] => p = Temp(j)
         /\ \A k \in Job \ {j} : fd[k] = fd'[j] => Temp(j) \in DOMAIN tree
         /\ DOMAIN data' = Inode /\ data'[fd'[j]] = <<>>
         /\ \A i \in Inode \ {fd'[j]} : data'[i] = data[i]
         /\ mtime' = [mtime EXCEPT ![fd'[j]] = "now"]
         /\ contested \subseteq contested'
         /\ \A p \in contested' \ contested : \E k \in Rivals(j) \cup {j} : p \in Uses(k)
         /\ contested' # contested => \A k \in Rivals(j) \cup {j} : Uses(k) \subseteq contested'
         /\ Rivals(j) # {} \/ Uses(j) \cap contested # {} =>
              \A k \in Rivals(j) \cup {j} : Uses(k) \subseteq contested'
         /\ UNCHANGED <<names, wrote, cut, events>>
<1> DEFINE i == IF Temp(j) \in DOMAIN tree THEN tree[Temp(j)] ELSE j
<1>1. /\ pc[j] = "new" /\ Target(j) # PathError /\ pc' = [pc EXCEPT ![j] = "open"]
      /\ tree' = [p \in DOMAIN tree \cup {Temp(j)} |-> IF p = Temp(j) THEN i ELSE tree[p]]
      /\ data' = [data EXCEPT ![i] = IF i = j THEN <<>> ELSE [n \in Inode |-> <<>>][i]]
      /\ mtime' = [mtime EXCEPT ![i] = "now"]
      /\ fd' = [fd EXCEPT ![j] = i]
      /\ UNCHANGED <<names, wrote, cut, events>>
  BY DEF Create, CreateOn, Goto
<1>11. contested' = contested \cup
         IF Rivals(j) # {} \/ Uses(j) \cap contested # {}
         THEN UNION {Uses(k) : k \in Rivals(j) \cup {j}} ELSE {}
  BY DEF Create, CreateOn
<1>12. /\ contested \subseteq contested'
       /\ \A p \in contested' \ contested : \E k \in Rivals(j) \cup {j} : p \in Uses(k)
       /\ Rivals(j) # {} \/ Uses(j) \cap contested # {} =>
            \A k \in Rivals(j) \cup {j} : Uses(k) \subseteq contested'
       /\ contested' # contested => Rivals(j) # {} \/ Uses(j) \cap contested # {}
  <2> DEFINE A == UNION {Uses(k) : k \in Rivals(j) \cup {j}}
             B == Rivals(j) # {} \/ Uses(j) \cap contested # {}
  <2>1. contested' = contested \cup IF B THEN A ELSE {}
    BY <1>11
  <2>2. \A p : p \in A <=> \E k \in Rivals(j) \cup {j} : p \in Uses(k)
    OBVIOUS
  <2>3. \A k \in Rivals(j) \cup {j} : Uses(k) \subseteq A
    BY <2>2
  <2> HIDE DEF A, B
  <2>4. /\ contested \subseteq contested' /\ contested' \ contested \subseteq A
        /\ (B => A \subseteq contested') /\ (contested' # contested => B)
    BY <2>1
  <2> QED
    BY <2>2, <2>3, <2>4 DEF B
<1>2. TypeOK /\ Fresh(j)
  BY <1>1 DEF Ready
<1>3. i \in Inode
  BY <1>2 DEF TypeOK, Inode
<1>4. Temp(j) \notin DOMAIN tree => i = j
  OBVIOUS
<1>5. \A p \in DOMAIN tree : tree[p] = i => p = Temp(j)
  BY <1>2 DEF TypeOK, Fresh
<1>6. \A k \in Job \ {j} : fd[k] = i => Temp(j) \in DOMAIN tree
  BY <1>2 DEF Fresh
<1>7. \A p \in DOMAIN tree : p = Temp(j) => tree[p] = i
  OBVIOUS
<1> HIDE DEF i
<1>8. fd'[j] = i
  BY <1>1, <1>2 DEF TypeOK
<1>9. DOMAIN data' = Inode /\ data'[i] = <<>> /\ \A n \in Inode \ {i} : data'[n] = data[n]
  BY <1>1, <1>2, <1>3 DEF TypeOK
<1>10. /\ DOMAIN tree' = DOMAIN tree \cup {Temp(j)} /\ tree'[Temp(j)] = i
       /\ \A p \in DOMAIN tree : tree'[p] = tree[p]
  BY <1>1, <1>7
<1> QED
  BY <1>1, <1>3, <1>4, <1>5, <1>6, <1>8, <1>9, <1>10, <1>12

LEMMA WriteEffect ==
  ASSUME Ready, NEW j \in Job, Write(j)
  PROVE  /\ pc[j] = "open" /\ j \notin cut /\ wrote[j] < Chunks[j]
         /\ wrote' = [wrote EXCEPT ![j] = wrote[j] + 1] /\ wrote[j] \in Nat /\ wrote[j] + 1 \in 0..Chunks[j]
         /\ fd[j] \in Inode /\ DOMAIN data' = Inode
         /\ \A i \in Inode \ {fd[j]} : data'[i] = data[i]
         /\ data[fd[j]] = [n \in 1..wrote[j] |-> j] => data'[fd[j]] = [n \in 1..(wrote[j] + 1) |-> j]
         /\ mtime' = [mtime EXCEPT ![fd[j]] = "now"]
         /\ UNCHANGED <<names, tree, pc, fd, cut, contested, events>>
<1>1. /\ pc[j] = "open" /\ j \notin cut /\ wrote[j] < Chunks[j]
      /\ wrote' = [wrote EXCEPT ![j] = wrote[j] + 1]
      /\ data' = [data EXCEPT ![fd[j]] = WriteAt(data[fd[j]], wrote[j] + 1, j)]
      /\ mtime' = [mtime EXCEPT ![fd[j]] = "now"]
      /\ UNCHANGED <<names, tree, pc, fd, cut, contested, events>>
  BY DEF Write
<1>2. fd[j] \in Inode /\ DOMAIN data = Inode /\ wrote[j] \in 0..Chunks[j] /\ Chunks[j] \in Nat
  BY JobsAssumption DEF Ready, TypeOK
<1>3. wrote[j] \in Nat /\ wrote[j] + 1 \in 0..Chunks[j]
  BY <1>1, <1>2
<1>4. ASSUME data[fd[j]] = [n \in 1..wrote[j] |-> j]
      PROVE  data'[fd[j]] = [n \in 1..(wrote[j] + 1) |-> j]
  <2> DEFINE c == [n \in 1..wrote[j] |-> j]
             k == wrote[j] + 1
  <2>1. Len(c) = wrote[j] /\ \A n \in 1..Len(c) : c[n] = j
    BY <1>3
  <2> HIDE DEF c
  <2>2. WriteAt(c, k, j) = [n \in 1..k |-> IF n = k THEN j ELSE IF n <= Len(c) THEN c[n] ELSE "hole"]
    BY <1>3, <2>1 DEF WriteAt
  <2>3. \A n \in 1..k : n # k => n <= Len(c) /\ c[n] = j
    BY <1>3, <2>1
  <2>4. WriteAt(c, k, j) = [n \in 1..k |-> j]
    BY <2>2, <2>3
  <2>5. data'[fd[j]] = WriteAt(c, k, j)
    BY <1>1, <1>2, <1>4 DEF c
  <2> QED
    BY <2>4, <2>5
<1> QED
  BY <1>1, <1>2, <1>3, <1>4

LEMMA RenameEffect ==
  ASSUME Ready, NEW j \in Job, Rename(j)
  PROVE  /\ pc[j] = "open" /\ (wrote[j] = Chunks[j] \/ j \in cut)
         /\ UNCHANGED <<names, data, mtime, fd, wrote, cut, contested, events>>
         /\ \/ /\ Temp(j) \in DOMAIN tree /\ pc' = [pc EXCEPT ![j] = "stamp"]
               /\ DOMAIN tree' = (DOMAIN tree \ {Temp(j)}) \cup {Target(j)}
               /\ tree'[Target(j)] = tree[Temp(j)]
               /\ \A p \in DOMAIN tree' \ {Target(j)} :
                    p \in DOMAIN tree /\ p # Temp(j) /\ tree'[p] = tree[p]
            \/ /\ Temp(j) \notin DOMAIN tree \/ Target(j) \in dirs
               /\ tree' = tree /\ pc' = [pc EXCEPT ![j] = "failed"]
<1>1. /\ pc[j] = "open" /\ (wrote[j] = Chunks[j] \/ j \in cut)
      /\ UNCHANGED <<names, data, mtime, fd, wrote, cut, contested, events>>
  BY DEF Rename, Commit
<1>2. CASE Temp(j) \in DOMAIN tree /\ Target(j) \notin dirs
  <2>1. /\ tree' = [p \in (DOMAIN tree \ {Temp(j)}) \cup {Target(j)} |->
                      IF p = Target(j) THEN tree[Temp(j)] ELSE tree[p]]
        /\ pc' = [pc EXCEPT ![j] = "stamp"]
    BY <1>2 DEF Rename, Commit, Goto
  <2> QED
    BY <1>1, <1>2, <2>1
<1>3. CASE ~(Temp(j) \in DOMAIN tree /\ Target(j) \notin dirs)
  <2>1. tree' = tree /\ pc' = [pc EXCEPT ![j] = "failed"]
    BY <1>3 DEF Rename, Commit, Goto
  <2> QED
    BY <1>1, <1>3, <2>1
<1> QED
  BY <1>2, <1>3

\* The steps that leave every file alone.
Quiet ==
  /\ UNCHANGED <<names, tree, data, mtime, fd, wrote, contested>>
  /\ pc' \in [Job -> {"new", "open", "stamp", "done", "failed", "refused"}]
  /\ \A j \in Job : pc'[j] = pc[j] \/ pc'[j] \in {"failed", "refused"}
  /\ cut \subseteq cut' /\ cut' \subseteq Job
  /\ events \subseteq events' /\ events' \subseteq Events
  /\ \A j \in Job : Live(j) => pc'[j] = pc[j] \/ {"kill", "diskError"} \cap events' # {}

LEMMA QuietSteps ==
  ASSUME TypeOK,
         \/ UNCHANGED vars
         \/ Kill
         \/ \E j \in Job : Refuse(j) \/ CreateFails(j) \/ Cut(j) \/ DiskError(j)
  PROVE  Quiet
<1>1. CASE UNCHANGED vars
  BY <1>1 DEF TypeOK, vars, Quiet
<1>2. CASE Kill
  <2>1. /\ pc' = [j \in Job |-> IF Live(j) THEN "failed" ELSE pc[j]]
        /\ UNCHANGED <<names, tree, data, mtime, fd, wrote, cut, contested>>
        /\ events' = events \cup {"kill"} /\ "kill" \in Events
    BY <1>2 DEF Kill, Happens
  <2> QED
    BY <2>1 DEF TypeOK, Quiet
<1>3. ASSUME NEW j \in Job, Refuse(j) \/ CreateFails(j) PROVE Quiet
  <2>1. /\ pc[j] = "new" /\ (Goto(j, "refused") \/ Goto(j, "failed"))
        /\ UNCHANGED <<names, tree, data, mtime, fd, wrote, cut, contested, events>>
    BY <1>3 DEF Refuse, CreateFails
  <2> QED
    BY <2>1 DEF TypeOK, Quiet, Goto, Live
<1>4. ASSUME NEW j \in Job, Cut(j) PROVE Quiet
  <2>1. /\ cut' = cut \cup {j} /\ events' = events \cup {"cut"} /\ "cut" \in Events
        /\ UNCHANGED <<names, tree, data, mtime, pc, fd, wrote, contested>>
    BY <1>4 DEF Cut, Happens
  <2> QED
    BY <2>1 DEF TypeOK, Quiet
<1>5. ASSUME NEW j \in Job, DiskError(j) PROVE Quiet
  <2>1. /\ Goto(j, "failed") /\ events' = events \cup {"diskError"} /\ "diskError" \in Events
        /\ UNCHANGED <<names, tree, data, mtime, fd, wrote, cut, contested>>
    BY <1>5 DEF DiskError, Happens
  <2> QED
    BY <2>1 DEF TypeOK, Quiet, Goto
<1> QED
  BY <1>1, <1>2, <1>3, <1>4, <1>5

\* Next, in the groups of steps that the proofs tell apart.
LEMMA NextSteps ==
  ASSUME TypeOK, [Next]_vars
  PROVE  \/ Quiet
         \/ \E j \in Job : Create(j) \/ Write(j) \/ Rename(j) \/ Stamp(j)
BY QuietSteps DEF Next

-----------------------------------------------------------------------------
(* Types.                                                                   *)

LEMMA ReadyInit == Init => Ready
<1> SUFFICES ASSUME Init PROVE Ready
  OBVIOUS
<1>1. /\ root \in Roots /\ wire \in [Job -> WirePaths]
      /\ data = [i \in Inode |-> <<"user">>] /\ mtime = [i \in Inode |-> "user"]
      /\ pc = [j \in Job |-> "new"] /\ fd = [j \in Job |-> j] /\ wrote = [j \in Job |-> 0]
      /\ cut = {} /\ contested = {} /\ events = {}
  BY DEF Init
<1>2. PICK old \in SUBSET DOMAIN OldFiles :
        tree = [p \in {Base \o OldFiles[i] : i \in old} |->
                  CHOOSE i \in old : Base \o OldFiles[i] = p]
  BY DEF Init
<1>3. \A p \in DOMAIN tree : tree[p] \in old /\ Base \o OldFiles[tree[p]] = p
  BY <1>2
<1>4. \A p \in DOMAIN tree : tree[p] \in Inode /\ tree[p] \notin Job
  BY <1>3, JobsAssumption DEF Inode
<1>5. \A p, q \in DOMAIN tree : tree[p] = tree[q] => p = q
  BY <1>3
<1>6. \A j \in Job : Chunks[j] \in Nat /\ 0 <= Chunks[j]
  BY JobsAssumption
<1>7. TypeOK
  <2>1. fd \in [Job -> Inode] /\ DOMAIN data = Inode
    BY <1>1 DEF Inode
  <2>2. /\ mtime \in [Inode -> Job \cup {"user", "now"}]
        /\ pc \in [Job -> {"new", "open", "stamp", "done", "failed", "refused"}]
    BY <1>1
  <2>3. wrote \in [Job -> Nat] /\ \A j \in Job : wrote[j] <= Chunks[j]
    BY <1>1, <1>6
  <2> QED
    BY <1>1, <1>4, <1>5, <2>1, <2>2, <2>3 DEF TypeOK
<1>8. \A j \in Job : Fresh(j)
  BY <1>1, <1>4 DEF Fresh
<1>9. \A j \in Job : pc[j] \notin {"open", "stamp", "done"}
  BY <1>1
<1> QED
  BY <1>7, <1>8, <1>9 DEF Ready

LEMMA ReadyNext ==
  ASSUME Ready, [Next]_vars
  PROVE  Ready'
<1>1. CASE Quiet
  <2>1. /\ UNCHANGED <<names, tree, data, mtime, fd, wrote, contested>>
        /\ pc' \in [Job -> {"new", "open", "stamp", "done", "failed", "refused"}]
        /\ \A j \in Job : pc'[j] = pc[j] \/ pc'[j] \in {"failed", "refused"}
        /\ cut' \subseteq Job /\ events' \subseteq Events
    BY <1>1 DEF Quiet
  <2>2. /\ root' = root /\ wire' = wire /\ Targets' = Targets /\ Temps' = Temps
        /\ \A j \in Job : Target(j)' = Target(j)
    BY <2>1, NamesKept
  <2>3. TypeOK'
    BY <2>1, <2>2 DEF Ready, TypeOK
  <2>4. \A j \in Job : pc'[j] = "new" => Fresh(j)'
    BY <2>1 DEF Ready, Fresh
  <2>5. \A j \in Job : pc'[j] \in {"open", "stamp", "done"} => Target(j)' # PathError
    BY <2>1, <2>2 DEF Ready
  <2> QED
    BY <2>3, <2>4, <2>5 DEF Ready
<1>2. ASSUME NEW j \in Job, Create(j) PROVE Ready'
  <2>1. /\ pc[j] = "new" /\ Target(j) # PathError /\ pc' = [pc EXCEPT ![j] = "open"]
        /\ DOMAIN tree' = DOMAIN tree \cup {Temp(j)}
        /\ \A p \in DOMAIN tree : tree'[p] = tree[p]
        /\ tree'[Temp(j)] = fd'[j] /\ fd'[j] \in Inode /\ fd' = [fd EXCEPT ![j] = fd'[j]]
        /\ Temp(j) \notin DOMAIN tree => fd'[j] = j
        /\ \A p \in DOMAIN tree : tree[p] = fd'[j] => p = Temp(j)
        /\ DOMAIN data' = Inode
        /\ mtime' = [mtime EXCEPT ![fd'[j]] = "now"]
        /\ \A p \in contested' \ contested : \E k \in Rivals(j) \cup {j} : p \in Uses(k)
        /\ UNCHANGED <<names, wrote, cut, events>>
    BY <1>2, CreateEffect
  <2>2. /\ root' = root /\ wire' = wire /\ Targets' = Targets /\ Temps' = Temps
        /\ \A k \in Job : Target(k)' = Target(k)
    BY <2>1, NamesKept
  <2>3. TypeOK
    BY DEF Ready
  <2>4. TypeOK'
    <3>1. \A p \in DOMAIN tree' : tree'[p] \in Inode
      BY <2>1, <2>3 DEF TypeOK
    <3>2. \A p, q \in DOMAIN tree' : tree'[p] = tree'[q] => p = q
      BY <2>1, <2>3 DEF TypeOK
    <3>3. mtime' \in [Inode -> Job \cup {"user", "now"}] /\ fd' \in [Job -> Inode]
      BY <2>1, <2>3 DEF TypeOK
    <3>4. pc' \in [Job -> {"new", "open", "stamp", "done", "failed", "refused"}]
      BY <2>1, <2>3 DEF TypeOK
    <3>5. contested' \subseteq Targets \cup Temps
      <4>1. \A k \in Rivals(j) \cup {j} : k \in Job /\ Target(k) # PathError
        BY <2>1 DEF Rivals, Live, Ready
      <4>2. \A k \in Rivals(j) \cup {j} : Uses(k) \subseteq Targets \cup Temps
        BY <4>1 DEF Uses, Targets, Temps
      <4>3. contested \subseteq Targets \cup Temps
        BY <2>3 DEF TypeOK
      <4> QED
        BY <2>1, <4>2, <4>3
    <3> QED
      BY <2>1, <2>2, <2>3, <3>1, <3>2, <3>3, <3>4, <3>5 DEF TypeOK
  <2>5. ASSUME NEW k \in Job, pc'[k] = "new" PROVE Fresh(k)'
    <3>1. k # j /\ Fresh(k)
      BY <2>1, <2>3, <2>5 DEF Ready, TypeOK
    <3>2. fd'[j] # k
      BY <2>1, <3>1 DEF Fresh
    <3>3. \A p \in DOMAIN tree' : tree'[p] # k
      BY <2>1, <3>1, <3>2 DEF Fresh
    <3>4. \A l \in Job : fd'[l] = k => l = k
      BY <2>1, <2>3, <3>1, <3>2 DEF Fresh, TypeOK
    <3> QED
      BY <2>1, <3>1, <3>3, <3>4 DEF Fresh
  <2>6. \A k \in Job : pc'[k] \in {"open", "stamp", "done"} => Target(k)' # PathError
    BY <2>1, <2>2, <2>3 DEF Ready, TypeOK
  <2> QED
    BY <2>4, <2>5, <2>6 DEF Ready
<1>3. ASSUME NEW j \in Job, Write(j) PROVE Ready'
  <2>1. /\ pc[j] = "open" /\ wrote' = [wrote EXCEPT ![j] = wrote[j] + 1]
        /\ wrote[j] + 1 \in 0..Chunks[j] /\ fd[j] \in Inode /\ DOMAIN data' = Inode
        /\ mtime' = [mtime EXCEPT ![fd[j]] = "now"]
        /\ UNCHANGED <<names, tree, pc, fd, cut, contested, events>>
    BY <1>3, WriteEffect
  <2>2. /\ root' = root /\ wire' = wire /\ Targets' = Targets /\ Temps' = Temps
        /\ \A k \in Job : Target(k)' = Target(k)
    BY <2>1, NamesKept
  <2>3. TypeOK'
    <3>1. mtime' \in [Inode -> Job \cup {"user", "now"}]
      BY <2>1 DEF Ready, TypeOK
    <3>2. \A k \in Job : wrote'[k] \in 0..Chunks[k]
      <4> SUFFICES ASSUME NEW k \in Job PROVE wrote'[k] \in 0..Chunks[k]
        OBVIOUS
      <4>1. wrote[k] \in 0..Chunks[k]
        BY DEF Ready, TypeOK
      <4>2. wrote'[k] = wrote[k] \/ (k = j /\ wrote'[k] = wrote[j] + 1)
        BY <2>1
      <4> QED
        BY <2>1, <4>1, <4>2
    <3> QED
      BY <2>1, <2>2, <3>1, <3>2 DEF Ready, TypeOK
  <2>4. \A k \in Job : pc'[k] = "new" => Fresh(k)'
    BY <2>1 DEF Ready, Fresh
  <2>5. \A k \in Job : pc'[k] \in {"open", "stamp", "done"} => Target(k)' # PathError
    BY <2>1, <2>2 DEF Ready
  <2> QED
    BY <2>3, <2>4, <2>5 DEF Ready
<1>4. ASSUME NEW j \in Job, Rename(j) PROVE Ready'
  <2>1. /\ pc[j] = "open"
        /\ UNCHANGED <<names, data, mtime, fd, wrote, cut, contested, events>>
        /\ pc' = [pc EXCEPT ![j] = "stamp"] \/ pc' = [pc EXCEPT ![j] = "failed"]
    BY <1>4, RenameEffect
  <2>2. \/ /\ Temp(j) \in DOMAIN tree
           /\ DOMAIN tree' = (DOMAIN tree \ {Temp(j)}) \cup {Target(j)}
           /\ tree'[Target(j)] = tree[Temp(j)]
           /\ \A p \in DOMAIN tree' \ {Target(j)} :
                p \in DOMAIN tree /\ p # Temp(j) /\ tree'[p] = tree[p]
        \/ tree' = tree
    BY <1>4, RenameEffect
  <2>3. /\ root' = root /\ wire' = wire /\ Targets' = Targets /\ Temps' = Temps
        /\ \A k \in Job : Target(k)' = Target(k)
    BY <2>1, NamesKept
  <2>4. TypeOK'
    <3>1. \A p \in DOMAIN tree' : tree'[p] \in Inode
      BY <2>2 DEF Ready, TypeOK
    <3>2. \A p, q \in DOMAIN tree' : tree'[p] = tree'[q] => p = q
      <4>1. \A p, q \in DOMAIN tree : tree[p] = tree[q] => p = q
        BY DEF Ready, TypeOK
      <4> QED
        BY <2>2, <4>1
    <3>3. pc' \in [Job -> {"new", "open", "stamp", "done", "failed", "refused"}]
      BY <2>1 DEF Ready, TypeOK
    <3> QED
      BY <2>1, <2>3, <3>1, <3>2, <3>3 DEF Ready, TypeOK
  <2>5. \A p \in DOMAIN tree' : \E q \in DOMAIN tree : tree'[p] = tree[q]
    BY <2>2
  <2>6. \A k \in Job : pc'[k] = "new" => pc[k] = "new"
    BY <2>1 DEF Ready, TypeOK
  <2>7. \A k \in Job : pc'[k] = "new" => Fresh(k)'
    BY <2>1, <2>5, <2>6 DEF Ready, Fresh
  <2>8. \A k \in Job : pc'[k] \in {"open", "stamp", "done"} => Target(k)' # PathError
    BY <2>1, <2>3 DEF Ready, TypeOK
  <2> QED
    BY <2>4, <2>7, <2>8 DEF Ready
<1>5. ASSUME NEW j \in Job, Stamp(j) PROVE Ready'
  <2>1. /\ pc[j] = "stamp" /\ pc' = [pc EXCEPT ![j] = "done"]
        /\ mtime' = IF Target(j) \in DOMAIN tree THEN [mtime EXCEPT ![tree[Target(j)]] = j] ELSE mtime
        /\ UNCHANGED <<names, tree, data, fd, wrote, cut, contested, events>>
    BY <1>5 DEF Stamp, Goto
  <2>2. /\ root' = root /\ wire' = wire /\ Targets' = Targets /\ Temps' = Temps
        /\ \A k \in Job : Target(k)' = Target(k)
    BY <2>1, NamesKept
  <2>3. TypeOK'
    <3>1. mtime' \in [Inode -> Job \cup {"user", "now"}]
      BY <2>1 DEF Ready, TypeOK
    <3>2. pc' \in [Job -> {"new", "open", "stamp", "done", "failed", "refused"}]
      BY <2>1 DEF Ready, TypeOK
    <3> QED
      BY <2>1, <2>2, <3>1, <3>2 DEF Ready, TypeOK
  <2>4. \A k \in Job : pc'[k] = "new" => pc[k] = "new"
    BY <2>1 DEF Ready, TypeOK
  <2>5. \A k \in Job : pc'[k] = "new" => Fresh(k)'
    BY <2>1, <2>4 DEF Ready, Fresh
  <2>6. \A k \in Job : pc'[k] \in {"open", "stamp", "done"} => Target(k)' # PathError
    BY <2>1, <2>2 DEF Ready, TypeOK
  <2> QED
    BY <2>3, <2>5, <2>6 DEF Ready
<1>6. TypeOK
  BY DEF Ready
<1> QED
  BY <1>1, <1>2, <1>3, <1>4, <1>5, <1>6, NextSteps

\* No two names lead to one inode, and a writer has a file of its own to write
\* or one that lay at its temporary name, whatever the interleaving
\* (writer.rs:36-78).
THEOREM TypeCorrect == Spec => []TypeOK
<1>1. Init => Ready
  BY ReadyInit
<1>2. Ready /\ [Next]_vars => Ready'
  BY ReadyNext
<1>3. Ready => TypeOK
  BY DEF Ready
<1> QED
  BY <1>1, <1>2, <1>3, PTL DEF Spec

-----------------------------------------------------------------------------
(* Nothing lies outside sync_path.                                          *)

LEMMA BaseType ==
  ASSUME root \in Roots
  PROVE  root \in Seq(Component) /\ Base \in Seq(Component)
<1>1. root \in Seq(Component)
  BY RootsAssumption
<1> QED
  BY <1>1, ResolvedType DEF Base

LEMMA InsideName ==
  ASSUME root \in Roots, NEW b \in Seq(Name), b # <<>>
  PROVE  Base \o b = Base \o Below(Base \o b) /\ Below(Base \o b) \in Seq(Name) \ {<<>>}
<1>1. Base \in Seq(Component) /\ b \in Seq(Component)
  BY BaseType DEF Component
<1>2. Below(Base \o b) = b
  BY <1>1, Prefixed DEF Below
<1> QED
  BY <1>2

LEMMA WriterInside ==
  ASSUME TypeOK, NEW j \in Job, Target(j) # PathError
  PROVE  /\ Target(j) = Base \o Below(Target(j)) /\ Below(Target(j)) \in Seq(Name) \ {<<>>}
         /\ Temp(j) = Base \o Below(Temp(j)) /\ Below(Temp(j)) \in Seq(Name) \ {<<>>}
<1>1. root \in Roots /\ wire \in [Job -> WirePaths]
  BY DEF TypeOK
<1>2. PICK f \in Seq(DOMAIN TmpOf), x \in DOMAIN TmpOf :
        Target(j) = Base \o Append(f, x) /\ Temp(j) = Base \o Append(f, TmpOf[x])
  BY <1>1, Shape
<1>3. f \in Seq(Name) /\ x \in Name /\ TmpOf[x] \in Name
  BY NameAssumption, TmpAssumption
<1>4. \A c \in Name : Append(f, c) \in Seq(Name) /\ Append(f, c) # <<>>
  BY <1>3
<1>5. /\ Append(f, x) \in Seq(Name) /\ Append(f, x) # <<>>
      /\ Append(f, TmpOf[x]) \in Seq(Name) /\ Append(f, TmpOf[x]) # <<>>
  BY <1>3, <1>4
<1> QED
  BY <1>1, <1>2, <1>5, InsideName

LEMMA InsideInit == Init => Inside
<1> SUFFICES ASSUME Init PROVE Inside
  OBVIOUS
<1>1. root \in Roots
  BY DEF Init
<1>2. PICK old \in SUBSET DOMAIN OldFiles :
        tree = [p \in {Base \o OldFiles[i] : i \in old} |->
                  CHOOSE i \in old : Base \o OldFiles[i] = p]
  BY DEF Init
<1>3. ASSUME NEW p \in DOMAIN tree
      PROVE  p = Base \o Below(p) /\ Below(p) \in Seq(Name) \ {<<>>}
  <2>1. PICK i \in old : p = Base \o OldFiles[i]
    BY <1>2
  <2>2. OldFiles[i] \in Seq(Name) /\ OldFiles[i] # <<>>
    BY OldFilesAssumption
  <2> QED
    BY <1>1, <2>1, <2>2, InsideName
<1> QED
  BY <1>3 DEF Inside

LEMMA InsideNext ==
  ASSUME Ready, Inside, [Next]_vars
  PROVE  Inside'
<1>0. TypeOK
  BY DEF Ready
<1>1. ASSUME UNCHANGED names,
             \A p \in DOMAIN tree' :
               \/ p \in DOMAIN tree
               \/ \E j \in Job : Target(j) # PathError /\ p \in {Target(j), Temp(j)}
      PROVE  Inside'
  <2>1. Base' = Base
    BY <1>1, NamesKept
  <2>2. \A p \in DOMAIN tree' : p = Base \o Below(p) /\ Below(p) \in Seq(Name) \ {<<>>}
    BY <1>0, <1>1, WriterInside DEF Inside
  <2>3. \A p : Below(p)' = Below(p)
    BY <2>1 DEF Below
  <2> QED
    BY <2>1, <2>2, <2>3 DEF Inside
<1>2. CASE Quiet
  BY <1>1, <1>2 DEF Quiet
<1>3. ASSUME NEW j \in Job, Create(j) PROVE Inside'
  <2>1. UNCHANGED names /\ Target(j) # PathError /\ DOMAIN tree' = DOMAIN tree \cup {Temp(j)}
    BY <1>3, CreateEffect
  <2> QED
    BY <1>1, <2>1
<1>4. ASSUME NEW j \in Job, Write(j) PROVE Inside'
  BY <1>1, <1>4 DEF Write
<1>5. ASSUME NEW j \in Job, Rename(j) PROVE Inside'
  <2>1. UNCHANGED names /\ pc[j] = "open"
    BY <1>5, RenameEffect
  <2>2. Target(j) # PathError
    BY <2>1 DEF Ready
  <2>3. \A p \in DOMAIN tree' : p \in DOMAIN tree \/ p = Target(j)
    BY <1>5, RenameEffect
  <2> QED
    BY <1>1, <2>1, <2>2, <2>3
<1>6. ASSUME NEW j \in Job, Stamp(j) PROVE Inside'
  BY <1>1, <1>6 DEF Stamp
<1> QED
  BY <1>0, <1>2, <1>3, <1>4, <1>5, <1>6, NextSteps

LEMMA InsideStays ==
  ASSUME root \in Roots, Inside
  PROVE  StaysInside
<1>1. Base \in Seq(Component)
  BY BaseType
<1>2. ASSUME NEW p \in DOMAIN tree
      PROVE  StartsWith(p, Base) /\ \A i \in 1..Len(Below(p)) : Below(p)[i] \notin Special
  <2> DEFINE b == Below(p)
  <2>1. p = Base \o b /\ b \in Seq(Name)
    BY DEF Inside
  <2> HIDE DEF b
  <2>2. b \in Seq(Component)
    BY <2>1 DEF Component
  <2>3. StartsWith(p, Base)
    BY <1>1, <2>1, <2>2, Prefixed
  <2>4. \A i \in 1..Len(b) : b[i] \notin Special
    BY <2>1, NameAssumption
  <2> QED
    BY <2>3, <2>4 DEF b
<1> QED
  BY <1>2 DEF StaysInside

\* What a scan reports for a name below the root, and where that leads.
LEMMA ScanName ==
  ASSUME root \in Roots, NEW b \in Seq(Name), b # <<>>
  PROVE  /\ GetRelativePath(root \o b, root) = b
         /\ Located(GetAbsolutePath(b, root)) = Base \o b
         /\ HasHiddenComponents(root \o b) <=> HasHiddenComponents(root) \/ HasHiddenComponents(b)
<1>1. root \in Seq(Component) /\ b \in Seq(Component) /\ Base \in Seq(Component)
  BY BaseType DEF Component
<1>2. StartsWith(root \o b, root) /\ SubSeq(root \o b, Len(root) + 1, Len(root \o b)) = b
  BY <1>1, Prefixed
<1>3. GetRelativePath(root \o b, root) = b
  BY <1>2 DEF GetRelativePath
<1>4. Len(b) \in Nat /\ Len(b) > 0 /\ b[1] \in Name
  OBVIOUS
<1>5. Clean(b) = b
  <2>1. <<>> \in Seq(Component) /\ <<>> \o b = b
    BY <1>1
  <2>2. Resolved(<<>> \o b) = Resolved(<<>>) \o b
    BY <2>1, ResolvedBelow
  <2>3. Resolved(b) = b
    BY <2>1, <2>2, ResolvedEmpty
  <2> QED
    BY <2>3 DEF Clean
<1>6. ~ IsAbsolute(b) /\ ~ StartsWith(b, <<"..">>)
  <2>1. b[1] # "/" /\ b[1] # ".."
    BY <1>4, NameAssumption DEF Special
  <2>2. SubSeq(b, 1, 1) = [i \in 1..1 |-> b[i]] /\ SubSeq(<<"..">>, 1, 1) = [i \in 1..1 |-> ".."]
        /\ Len(<<"..">>) = 1
    BY <1>4
  <2> QED
    BY <1>4, <2>1, <2>2 DEF IsAbsolute, StartsWith, IsPrefix
<1>7. Located(Join(root, b)) = Base \o b /\ Join(root, b) = root \o b
  BY <1>1, NameBelow DEF Base
<1>8. Located(GetAbsolutePath(b, root)) = Base \o b
  BY <1>2, <1>5, <1>6, <1>7 DEF GetAbsolutePath
<1>9. HasHiddenComponents(root \o b) <=> HasHiddenComponents(root) \/ HasHiddenComponents(b)
  <2> DEFINE c == root \o b
             H == Dotted \cup {".", ".."}
  <2>1. /\ Len(c) = Len(root) + Len(b) /\ Len(root) \in Nat
        /\ \A i \in 1..Len(c) : c[i] = IF i <= Len(root) THEN root[i] ELSE b[i - Len(root)]
    BY <1>1, ConcatProperties
  <2> HIDE DEF c, H
  <2>2. \A i \in 1..Len(root) : i \in 1..Len(c) /\ c[i] = root[i]
    BY <1>4, <2>1
  <2>3. \A i \in 1..Len(b) : i + Len(root) \in 1..Len(c) /\ c[i + Len(root)] = b[i]
    BY <1>4, <2>1
  <2>4. \A i \in 1..Len(c) : \/ i \in 1..Len(root) /\ c[i] = root[i]
                             \/ i - Len(root) \in 1..Len(b) /\ c[i] = b[i - Len(root)]
    BY <1>4, <2>1
  <2>5. (\E i \in 1..Len(c) : c[i] \in H)
          <=> (\E i \in 1..Len(root) : root[i] \in H) \/ (\E i \in 1..Len(b) : b[i] \in H)
    BY <2>2, <2>3, <2>4
  <2> QED
    BY <2>5 DEF HasHiddenComponents, c, H
<1> QED
  BY <1>3, <1>8, <1>9

LEMMA InsideScan ==
  ASSUME root \in Roots, Inside
  PROVE  ScanFaithful
<1> DEFINE files == {root \o Below(p) : p \in DOMAIN tree}
           found == Scan(files, root)
<1>1. \A p \in DOMAIN tree : p = Base \o Below(p) /\ Below(p) \in Seq(Name) /\ Below(p) # <<>>
  BY DEF Inside
<1>2. found = {GetRelativePath(q, root) : q \in {q \in files : ~HasHiddenComponents(q)}}
  BY DEF Scan
<1> HIDE DEF found
<1>3. ASSUME NEW p \in DOMAIN tree, ~HasHiddenComponents(Below(p))
      PROVE  (\E r \in found : Located(GetAbsolutePath(r, root)) = p) <=> ~HasHiddenComponents(root)
  <2>1. ASSUME ~HasHiddenComponents(root)
        PROVE  \E r \in found : Located(GetAbsolutePath(r, root)) = p
    <3> DEFINE b == Below(p)
    <3>1. p = Base \o b /\ b \in Seq(Name) /\ b # <<>> /\ ~HasHiddenComponents(b) /\ root \o b \in files
      BY <1>1, <1>3
    <3> HIDE DEF b, files
    <3>2. /\ GetRelativePath(root \o b, root) = b /\ ~HasHiddenComponents(root \o b)
          /\ Located(GetAbsolutePath(b, root)) = p
      BY <2>1, <3>1, ScanName
    <3>3. b \in found
      BY <1>2, <3>1, <3>2
    <3> QED
      BY <3>2, <3>3
  <2>2. ASSUME NEW r \in found
        PROVE  ~HasHiddenComponents(root)
    <3>1. PICK q \in files : ~HasHiddenComponents(q)
      BY <1>2
    <3>2. PICK o \in DOMAIN tree : q = root \o Below(o)
      OBVIOUS
    <3>3. Below(o) \in Seq(Name) /\ Below(o) # <<>>
      BY <1>1
    <3> QED
      BY <3>1, <3>2, <3>3, ScanName
  <2> QED
    BY <2>1, <2>2
<1> QED
  BY <1>3 DEF ScanFaithful, found

\* Whatever paths the peer names, and however the writers run, no name outside
\* sync_path is ever made (transfer.rs:15-39, writer.rs:36-78).
THEOREM NothingOutside == Spec => []StaysInside
<1>1. Init => Ready /\ Inside
  BY ReadyInit, InsideInit
<1>2. Ready /\ Inside /\ [Next]_vars => Ready' /\ Inside'
  BY ReadyNext, InsideNext
<1>3. Ready /\ Inside => StaysInside
  BY InsideStays DEF Ready, TypeOK
<1> QED
  BY <1>1, <1>2, <1>3, PTL DEF Spec

\* Every file a scan should report is reported under the name that leads back to
\* it, unless sync_path itself is hidden (state.rs:118-126, 152-184).
THEOREM ScansFaithfully == Spec => []ScanFaithful
<1>1. Init => Ready /\ Inside
  BY ReadyInit, InsideInit
<1>2. Ready /\ Inside /\ [Next]_vars => Ready' /\ Inside'
  BY ReadyNext, InsideNext
<1>3. Ready /\ Inside => ScanFaithful
  BY InsideScan DEF Ready, TypeOK
<1> QED
  BY <1>1, <1>2, <1>3, PTL DEF Spec

-----------------------------------------------------------------------------
(* Writers that are alone at their names.                                   *)

LEMMA AloneInit == Init => Alone
<1> SUFFICES ASSUME Init PROVE Alone
  OBVIOUS
<1>1. \A j \in Job : pc[j] = "new"
  BY DEF Init
<1>2. \A j \in Job : ~Live(j)
  BY <1>1 DEF Live
<1>3. \A j \in Job : AtTemp(j) /\ AtTarget(j)
  BY <1>1 DEF AtTemp, AtTarget
<1> QED
  BY <1>2, <1>3 DEF Alone, Apart, Divided, Spread

\* The type facts a step is told with.
LEMMA OneName ==
  ASSUME Ready
  PROVE  /\ \A p, q \in DOMAIN tree : tree[p] = tree[q] => p = q
         /\ \A p \in DOMAIN tree : tree[p] \in Inode
         /\ \A j \in Job : fd[j] \in Inode /\ wrote[j] \in Nat /\ Chunks[j] \in Nat
         /\ DOMAIN pc = Job /\ DOMAIN fd = Job /\ DOMAIN wrote = Job /\ DOMAIN mtime = Inode
BY JobsAssumption DEF Ready, TypeOK

\* A writer at work that has a name of its own has all of them, and shares none.
LEMMA OwnNames ==
  ASSUME Alone, NEW j \in Job, Live(j), Temp(j) \notin contested \/ Target(j) \notin contested
  PROVE  /\ Free(j)
         /\ \A k \in Job \ {j} : Live(k) =>
              /\ Target(k) # Target(j) /\ Temp(k) # Temp(j)
              /\ Target(k) # Temp(j) /\ Temp(k) # Target(j)
<1>1. ~Lost(j)
  BY DEF Lost, Uses
<1>2. Free(j) /\ \A k \in Job \ {j} : Live(k) => Uses(j) \cap Uses(k) = {}
  BY <1>1 DEF Alone, Divided, Apart
<1> QED
  BY <1>2 DEF Uses

\* Names that become contested take all the names of the writers that use them.
LEMMA ContestedCreate ==
  ASSUME Ready, Alone, NEW j \in Job, Create(j)
  PROVE  /\ \A k \in Job \ {j} : Live(k) => (Uses(k) \cap contested' = {} \/ Uses(k) \subseteq contested')
         /\ Uses(j) \cap contested' = {} \/ Uses(j) \subseteq contested'
         /\ \A k \in Job \ {j} : Live(k) /\ Uses(k) \cap contested' = {} => Uses(k) \cap Uses(j) = {}
         /\ \A k \in Job \ {j} : Live(k) /\ Uses(k) \cap Uses(j) # {} =>
              Uses(k) \subseteq contested' /\ Uses(j) \subseteq contested'
<1>1. /\ contested \subseteq contested'
      /\ \A p \in contested' \ contested : \E k \in Rivals(j) \cup {j} : p \in Uses(k)
      /\ contested' # contested => \A k \in Rivals(j) \cup {j} : Uses(k) \subseteq contested'
      /\ Rivals(j) # {} \/ Uses(j) \cap contested # {} =>
           \A k \in Rivals(j) \cup {j} : Uses(k) \subseteq contested'
  BY CreateEffect
<1>2. \A k \in Rivals(j) : k \in Job \ {j} /\ Live(k) /\ Uses(k) \cap Uses(j) # {}
  BY DEF Rivals
<1>3. ASSUME NEW k \in Job \ {j}, Live(k), Uses(k) \cap Uses(j) # {}
      PROVE  Uses(k) \subseteq contested' /\ Uses(j) \subseteq contested'
  <2>1. k \in Rivals(j)
    BY <1>3 DEF Rivals
  <2> QED
    BY <1>1, <2>1
<1>4. Uses(j) \cap contested' = {} \/ Uses(j) \subseteq contested'
  <2>1. CASE contested' = contested
    BY <1>1, <2>1
  <2>2. CASE contested' # contested
    BY <1>1, <2>2
  <2> QED
    BY <2>1, <2>2
<1>5. ASSUME NEW k \in Job \ {j}, Live(k), NEW p \in Uses(k), p \in contested'
      PROVE  Uses(k) \subseteq contested'
  <2>1. CASE p \in contested
    <3>1. Lost(k)
      BY <1>5, <2>1 DEF Alone, Divided, Free
    <3> QED
      BY <1>1, <3>1 DEF Lost
  <2>2. CASE p \notin contested
    <3>1. PICK i \in Rivals(j) \cup {j} : p \in Uses(i)
      BY <1>1, <1>5, <2>2
    <3>2. CASE i = j
      BY <1>3, <1>5, <3>1, <3>2
    <3>3. CASE i = k
      BY <1>2, <1>3, <1>5, <3>3
    <3>4. CASE i # j /\ i # k
      <4>1. i \in Job /\ Live(i)
        BY <1>2, <3>1, <3>4
      <4>2. Lost(k)
        BY <1>5, <3>1, <3>4, <4>1 DEF Alone, Apart
      <4> QED
        BY <1>1, <4>2 DEF Lost
    <3> QED
      BY <3>2, <3>3, <3>4
  <2> QED
    BY <2>1, <2>2
<1>6. \A k \in Job \ {j} : Live(k) => (Uses(k) \cap contested' = {} \/ Uses(k) \subseteq contested')
  BY <1>5
<1>7. \A k \in Job : Uses(k) # {}
  BY DEF Uses
<1>8. \A k \in Job \ {j} : Live(k) /\ Uses(k) \cap contested' = {} => Uses(k) \cap Uses(j) = {}
  BY <1>3, <1>7
<1> QED
  BY <1>3, <1>4, <1>6, <1>8

LEMMA AloneCreate ==
  ASSUME Ready, Alone, NEW j \in Job, Create(j)
  PROVE  Alone'
<1>1. /\ pc[j] = "new" /\ Target(j) # PathError /\ pc' = [pc EXCEPT ![j] = "open"]
      /\ DOMAIN tree' = DOMAIN tree \cup {Temp(j)}
      /\ \A p \in DOMAIN tree : tree'[p] = tree[p]
      /\ tree'[Temp(j)] = fd'[j] /\ fd'[j] \in Inode /\ fd' = [fd EXCEPT ![j] = fd'[j]]
      /\ Temp(j) \notin DOMAIN tree => fd'[j] = j
      /\ \A p \in DOMAIN tree : tree[p] = fd'[j] => p = Temp(j)
      /\ \A k \in Job \ {j} : fd[k] = fd'[j] => Temp(j) \in DOMAIN tree
      /\ data'[fd'[j]] = <<>>
      /\ \A i \in Inode \ {fd'[j]} : data'[i] = data[i]
      /\ contested \subseteq contested'
      /\ UNCHANGED <<names, wrote, cut, events>>
  BY CreateEffect
<1>2. /\ \A k \in Job : Target(k)' = Target(k) /\ Temp(k)' = Temp(k) /\ Uses(k)' = Uses(k)
      /\ \A k \in Job : Free(k)' <=> Uses(k) \cap contested' = {}
      /\ \A k \in Job : Lost(k)' <=> Uses(k) \subseteq contested'
  BY <1>1, NamesKept DEF Free, Lost
<1>3. /\ \A k \in Job \ {j} : Live(k) => (Uses(k) \cap contested' = {} \/ Uses(k) \subseteq contested')
      /\ Uses(j) \cap contested' = {} \/ Uses(j) \subseteq contested'
      /\ \A k \in Job \ {j} : Live(k) /\ Uses(k) \cap contested' = {} => Uses(k) \cap Uses(j) = {}
      /\ \A k \in Job \ {j} : Live(k) /\ Uses(k) \cap Uses(j) # {} =>
           Uses(k) \subseteq contested' /\ Uses(j) \subseteq contested'
  BY ContestedCreate
<1>4. /\ \A i, k \in Job : i # k => Apart(i, k)
      /\ \A k \in Job : AtTemp(k) /\ AtTarget(k) /\ Spread(k) /\ Divided(k)
  BY DEF Alone
<1>5. \A k \in Job \ {j} : pc'[k] = pc[k] /\ fd'[k] = fd[k] /\ (Live(k)' <=> Live(k))
  BY <1>1, OneName DEF Live
<1>6. pc'[j] = "open" /\ wrote[j] = 0 /\ wrote' = wrote
  BY <1>1, OneName DEF Ready, Fresh
<1>7. ASSUME NEW i \in Job, NEW k \in Job, i # k PROVE Apart(i, k)'
  <2>1. CASE i # j /\ k # j
    <3>1. Lost(i) => Lost(i)'
      BY <1>1, <1>2 DEF Lost
    <3>2. Lost(k) => Lost(k)'
      BY <1>1, <1>2 DEF Lost
    <3> QED
      BY <1>2, <1>4, <1>5, <1>7, <2>1, <3>1, <3>2 DEF Apart
  <2>2. CASE i = j
    BY <1>2, <1>3, <1>5, <1>7, <2>2 DEF Apart
  <2>3. CASE k = j
    BY <1>2, <1>3, <1>5, <1>7, <2>3 DEF Apart
  <2> QED
    BY <2>1, <2>2, <2>3
<1>8. ASSUME NEW k \in Job PROVE Divided(k)'
  BY <1>2, <1>3, <1>5 DEF Divided
\* A writer that is still free was free before, and does not use j's names.
<1>9. ASSUME NEW k \in Job \ {j}, Live(k), Free(k)'
      PROVE  Free(k) /\ Temp(k) # Temp(j)
  <2>1. Uses(k) \cap contested' = {} /\ Uses(k) \cap Uses(j) = {}
    BY <1>2, <1>3, <1>9
  <2> QED
    BY <1>1, <2>1 DEF Free, Uses
<1>10. ASSUME NEW k \in Job PROVE AtTemp(k)'
  <2>1. CASE k = j
    <3>1. data'[fd'[j]] = [n \in 1..wrote'[j] |-> j]
      BY <1>1, <1>6
    <3> QED
      BY <1>1, <1>2, <2>1, <3>1 DEF AtTemp
  <2>2. CASE k # j /\ pc[k] = "open" /\ Free(k)'
    <3>1. Free(k) /\ Temp(k) # Temp(j)
      BY <1>9, <2>2 DEF Live
    <3>2. /\ Temp(k) \in DOMAIN tree /\ tree[Temp(k)] = fd[k]
          /\ data[fd[k]] = [n \in 1..wrote[k] |-> k]
      BY <1>4, <2>2, <3>1 DEF AtTemp
    <3>3. fd[k] # fd'[j] /\ fd[k] \in Inode
      BY <1>1, <3>1, <3>2, OneName
    <3> QED
      BY <1>1, <1>2, <1>5, <1>6, <2>2, <3>2, <3>3 DEF AtTemp
  <2>3. CASE k # j /\ ~(pc[k] = "open" /\ Free(k)')
    BY <1>5, <2>3 DEF AtTemp
  <2> QED
    BY <2>1, <2>2, <2>3
<1>11. ASSUME NEW k \in Job PROVE AtTarget(k)'
  <2>1. CASE k = j
    BY <1>6, <2>1 DEF AtTarget
  <2>2. CASE k # j /\ pc[k] = "stamp" /\ Free(k)'
    <3>1. Free(k) /\ Temp(k) # Temp(j)
      BY <1>9, <2>2 DEF Live
    <3>2. /\ Target(k) \in DOMAIN tree /\ tree[Target(k)] = fd[k]
          /\ Temp(k) \in DOMAIN tree => \E i \in Job : Temp(k) = Target(i)
      BY <1>4, <2>2, <3>1 DEF AtTarget
    <3>3. Temp(k) \in DOMAIN tree' => \E i \in Job : Temp(k) = Target(i)'
      BY <1>1, <1>2, <3>1, <3>2
    <3> QED
      BY <1>1, <1>2, <1>5, <2>2, <3>2, <3>3 DEF AtTarget
  <2>3. CASE k # j /\ ~(pc[k] = "stamp" /\ Free(k)')
    BY <1>5, <2>3 DEF AtTarget
  <2> QED
    BY <2>1, <2>2, <2>3
<1>12. ASSUME NEW k \in Job PROVE Spread(k)'
  <2> SUFFICES ASSUME Live(k)', Lost(k)', NEW p \in DOMAIN tree', tree'[p] = fd'[k]
               PROVE  p \in contested'
    BY DEF Spread
  <2>0. Uses(k) \subseteq contested'
    BY <1>2
  <2>1. CASE k = j
    <3>1. p = Temp(j)
      BY <1>1, <2>1
    <3> QED
      BY <2>0, <2>1, <3>1 DEF Uses
  <2>2. CASE k # j
    <3>1. Live(k) /\ fd'[k] = fd[k]
      BY <1>5, <2>2
    <3>2. p \in DOMAIN tree /\ tree[p] = fd[k]
      <4>1. CASE p \in DOMAIN tree
        BY <1>1, <3>1, <4>1
      <4>2. CASE p \notin DOMAIN tree
        <5>1. p = Temp(j) /\ fd[k] = fd'[j]
          BY <1>1, <3>1, <4>2
        <5> QED
          BY <1>1, <2>2, <4>2, <5>1
      <4> QED
        BY <4>1, <4>2
    <3>3. CASE Lost(k)
      BY <1>1, <1>4, <3>1, <3>2, <3>3 DEF Spread
    <3>4. CASE Free(k)
      <4>1. p \in Uses(k)
        <5>1. CASE pc[k] = "open"
          BY <1>4, <3>2, <3>4, <5>1, OneName DEF AtTemp, Uses
        <5>2. CASE pc[k] = "stamp"
          BY <1>4, <3>2, <3>4, <5>2, OneName DEF AtTarget, Uses
        <5> QED
          BY <3>1, <5>1, <5>2 DEF Live
      <4> QED
        BY <2>0, <4>1
    <3> QED
      BY <1>4, <3>1, <3>3, <3>4 DEF Divided
  <2> QED
    BY <2>1, <2>2
<1> QED
  BY <1>7, <1>8, <1>10, <1>11, <1>12 DEF Alone

LEMMA AloneWrite ==
  ASSUME Ready, Alone, NEW j \in Job, Write(j)
  PROVE  Alone'
<1>1. /\ pc[j] = "open" /\ wrote' = [wrote EXCEPT ![j] = wrote[j] + 1]
      /\ fd[j] \in Inode
      /\ \A i \in Inode \ {fd[j]} : data'[i] = data[i]
      /\ data[fd[j]] = [n \in 1..wrote[j] |-> j] => data'[fd[j]] = [n \in 1..(wrote[j] + 1) |-> j]
      /\ UNCHANGED <<names, tree, pc, fd, contested>>
  BY WriteEffect
<1>2. \A k \in Job : /\ Target(k)' = Target(k) /\ Temp(k)' = Temp(k) /\ Uses(k)' = Uses(k)
                     /\ (Free(k)' <=> Free(k)) /\ (Lost(k)' <=> Lost(k))
  BY <1>1, NamesKept DEF Free, Lost
<1>3. /\ \A i, k \in Job : i # k => Apart(i, k)
      /\ \A k \in Job : AtTemp(k) /\ AtTarget(k) /\ Spread(k) /\ Divided(k)
  BY DEF Alone
<1>4. /\ \A i, k \in Job : i # k => Apart(i, k)'
      /\ \A k \in Job : Divided(k)'
  BY <1>1, <1>2, <1>3 DEF Apart, Divided, Live
<1>5. \A k \in Job : AtTarget(k)' /\ Spread(k)'
  BY <1>1, <1>2, <1>3 DEF AtTarget, Spread, Live
<1>6. ASSUME NEW k \in Job PROVE AtTemp(k)'
  <2>1. CASE k = j
    <3>1. wrote'[j] = wrote[j] + 1
      BY <1>1, OneName
    <3>2. CASE Free(j)
      <4>1. /\ Temp(j) \in DOMAIN tree /\ tree[Temp(j)] = fd[j]
            /\ data[fd[j]] = [n \in 1..wrote[j] |-> j]
        BY <1>1, <1>3, <3>2 DEF AtTemp
      <4>2. data'[fd[j]] = [n \in 1..(wrote[j] + 1) |-> j]
        BY <1>1, <4>1
      <4> QED
        BY <1>1, <1>2, <2>1, <3>1, <4>1, <4>2 DEF AtTemp
    <3>3. CASE ~Free(j)
      BY <1>2, <2>1, <3>3 DEF AtTemp
    <3> QED
      BY <3>2, <3>3
  <2>2. CASE k # j /\ pc[k] = "open" /\ Free(k)
    <3>1. /\ Temp(k) \in DOMAIN tree /\ tree[Temp(k)] = fd[k]
          /\ data[fd[k]] = [n \in 1..wrote[k] |-> k] /\ Temp(k) \notin contested
      BY <1>3, <2>2 DEF AtTemp, Free, Uses
    <3>2. Temp(j) # Temp(k)
      BY <1>1, <2>2, <3>1, OwnNames DEF Live
    <3>3. fd[k] # fd[j] /\ fd[k] \in Inode
      <4>1. CASE Free(j)
        BY <1>1, <1>3, <3>1, <3>2, <4>1, OneName DEF AtTemp
      <4>2. CASE Lost(j)
        BY <1>1, <1>3, <3>1, <4>2, OneName DEF Spread, Live
      <4> QED
        BY <1>1, <1>3, <4>1, <4>2 DEF Divided, Live
    <3>4. wrote'[k] = wrote[k]
      BY <1>1, <2>2
    <3> QED
      BY <1>1, <1>2, <3>1, <3>3, <3>4 DEF AtTemp
  <2>3. CASE k # j /\ ~(pc[k] = "open" /\ Free(k))
    BY <1>1, <1>2, <2>3 DEF AtTemp
  <2> QED
    BY <2>1, <2>2, <2>3
<1> QED
  BY <1>4, <1>5, <1>6 DEF Alone

LEMMA AloneRename ==
  ASSUME Ready, Alone, NEW j \in Job, Rename(j)
  PROVE  Alone'
<1>1. /\ pc[j] = "open"
      /\ UNCHANGED <<names, data, fd, wrote, contested>>
      /\ \/ /\ Temp(j) \in DOMAIN tree /\ pc' = [pc EXCEPT ![j] = "stamp"]
            /\ DOMAIN tree' = (DOMAIN tree \ {Temp(j)}) \cup {Target(j)}
            /\ tree'[Target(j)] = tree[Temp(j)]
            /\ \A p \in DOMAIN tree' \ {Target(j)} :
                 p \in DOMAIN tree /\ p # Temp(j) /\ tree'[p] = tree[p]
         \/ tree' = tree /\ pc' = [pc EXCEPT ![j] = "failed"]
  BY RenameEffect
<1>2. \A k \in Job : /\ Target(k)' = Target(k) /\ Temp(k)' = Temp(k) /\ Uses(k)' = Uses(k)
                     /\ (Free(k)' <=> Free(k)) /\ (Lost(k)' <=> Lost(k))
  BY <1>1, NamesKept DEF Free, Lost
<1>3. /\ \A i, k \in Job : i # k => Apart(i, k)
      /\ \A k \in Job : AtTemp(k) /\ AtTarget(k) /\ Spread(k) /\ Divided(k)
  BY DEF Alone
<1>4. (\A k \in Job \ {j} : pc'[k] = pc[k]) /\ pc'[j] \in {"stamp", "failed"}
  BY <1>1, OneName
<1>5. /\ \A i, k \in Job : i # k => Apart(i, k)'
      /\ \A k \in Job : Divided(k)' /\ (Live(k)' => Live(k))
  <2>1. \A k \in Job : Live(k)' => Live(k)
    BY <1>1, <1>4 DEF Live
  <2> QED
    BY <1>2, <1>3, <2>1 DEF Apart, Divided
<1>6. CASE tree' = tree /\ pc' = [pc EXCEPT ![j] = "failed"]
  <2>1. pc'[j] = "failed"
    BY <1>6, OneName
  <2>2. \A k \in Job : AtTemp(k)' /\ AtTarget(k)'
    BY <1>1, <1>2, <1>3, <1>4, <1>6, <2>1 DEF AtTemp, AtTarget
  <2>3. \A k \in Job : Spread(k)'
    BY <1>1, <1>2, <1>3, <1>5, <1>6 DEF Spread
  <2> QED
    BY <1>5, <2>2, <2>3 DEF Alone
<1>7. CASE /\ Temp(j) \in DOMAIN tree /\ pc' = [pc EXCEPT ![j] = "stamp"]
           /\ DOMAIN tree' = (DOMAIN tree \ {Temp(j)}) \cup {Target(j)}
           /\ tree'[Target(j)] = tree[Temp(j)]
           /\ \A p \in DOMAIN tree' \ {Target(j)} :
                p \in DOMAIN tree /\ p # Temp(j) /\ tree'[p] = tree[p]
  <2>0. pc'[j] = "stamp"
    BY <1>7, OneName
  <2>1. ASSUME NEW k \in Job \ {j}, Live(k), Free(k)
        PROVE  /\ Target(k) # Target(j) /\ Temp(k) # Temp(j)
               /\ Target(k) # Temp(j) /\ Temp(k) # Target(j)
    <3>1. Temp(k) \notin contested
      BY <2>1 DEF Free, Uses
    <3> QED
      BY <1>1, <2>1, <3>1, OwnNames DEF Live
  <2>2. ASSUME NEW k \in Job PROVE AtTemp(k)'
    <3>1. CASE k = j
      BY <2>0, <3>1 DEF AtTemp
    <3>2. CASE k # j /\ pc[k] = "open" /\ Free(k)
      <4>1. /\ Temp(k) \in DOMAIN tree /\ tree[Temp(k)] = fd[k]
            /\ data[fd[k]] = [n \in 1..wrote[k] |-> k]
        BY <1>3, <3>2 DEF AtTemp
      <4>2. Temp(k) # Temp(j) /\ Temp(k) # Target(j)
        BY <2>1, <3>2 DEF Live
      <4>3. Temp(k) \in DOMAIN tree' /\ tree'[Temp(k)] = fd[k]
        BY <1>7, <4>1, <4>2
      <4> QED
        BY <1>1, <1>2, <4>1, <4>3 DEF AtTemp
    <3>3. CASE k # j /\ ~(pc[k] = "open" /\ Free(k))
      BY <1>2, <1>4, <3>3 DEF AtTemp
    <3> QED
      BY <3>1, <3>2, <3>3
  <2>3. ASSUME NEW k \in Job PROVE AtTarget(k)'
    <3>1. CASE k = j /\ Free(j)
      <4>1. tree[Temp(j)] = fd[j]
        BY <1>1, <1>3, <3>1 DEF AtTemp
      <4>2. Target(j) \in DOMAIN tree' /\ tree'[Target(j)] = fd[j]
        BY <1>7, <4>1
      <4>3. Temp(j) \in DOMAIN tree' => Temp(j) = Target(j)
        BY <1>7
      <4>4. Temp(j)' \in DOMAIN tree' => Temp(j)' = Target(j)'
        BY <1>2, <4>3
      <4> QED
        BY <1>1, <1>2, <3>1, <4>2, <4>4 DEF AtTarget
    <3>2. CASE k # j /\ pc[k] = "stamp" /\ Free(k)
      <4>1. /\ Target(k) \in DOMAIN tree /\ tree[Target(k)] = fd[k]
            /\ Temp(k) \in DOMAIN tree => \E i \in Job : Temp(k) = Target(i)
        BY <1>3, <3>2 DEF AtTarget
      <4>2. Target(k) # Target(j) /\ Target(k) # Temp(j)
        BY <2>1, <3>2 DEF Live
      <4>3. Target(k) \in DOMAIN tree' /\ tree'[Target(k)] = fd[k]
        BY <1>7, <4>1, <4>2
      <4>4. Temp(k) \in DOMAIN tree' => \E i \in Job : Temp(k) = Target(i)'
        <5>1. CASE Temp(k) = Target(j)
          BY <1>2, <5>1
        <5>2. CASE Temp(k) # Target(j)
          BY <1>2, <1>7, <4>1, <5>2
        <5> QED
          BY <5>1, <5>2
      <4> QED
        BY <1>1, <1>2, <4>3, <4>4 DEF AtTarget
    <3>3. CASE ~Free(k) \/ (k # j /\ pc[k] # "stamp")
      BY <1>2, <1>4, <3>3 DEF AtTarget
    <3> QED
      BY <3>1, <3>2, <3>3
  <2>4. ASSUME NEW k \in Job PROVE Spread(k)'
    <3> SUFFICES ASSUME Live(k), Lost(k), NEW p \in DOMAIN tree', tree'[p] = fd[k]
                 PROVE  p \in contested
      BY <1>1, <1>2, <1>5 DEF Spread
    <3>1. CASE p # Target(j)
      BY <1>3, <1>7, <3>1 DEF Spread
    <3>2. CASE p = Target(j)
      <4>1. Temp(j) \in contested
        BY <1>3, <1>7, <3>2 DEF Spread
      <4>2. Lost(j)
        BY <1>1, <1>3, <4>1 DEF Divided, Free, Uses, Live
      <4> QED
        BY <3>2, <4>2 DEF Lost, Uses
    <3> QED
      BY <3>1, <3>2
  <2> QED
    BY <1>5, <2>2, <2>3, <2>4 DEF Alone
<1> QED
  BY <1>1, <1>6, <1>7

LEMMA AloneNext ==
  ASSUME Ready, Alone, [Next]_vars
  PROVE  Alone'
<1>0. TypeOK
  BY DEF Ready
\* What is left are the steps that change no file and make no writer live.
<1>1. ASSUME UNCHANGED <<names, tree, data, fd, wrote, contested>>,
             \A k \in Job : pc'[k] = pc[k] \/ pc'[k] \in {"done", "failed", "refused"}
      PROVE  Alone'
  <2>1. \A k \in Job : /\ Target(k)' = Target(k) /\ Temp(k)' = Temp(k) /\ Uses(k)' = Uses(k)
                       /\ (Free(k)' <=> Free(k)) /\ (Lost(k)' <=> Lost(k))
    BY <1>1, NamesKept DEF Free, Lost
  <2>2. \A k \in Job : Live(k)' => Live(k)
    BY <1>1 DEF Live
  <2>3. \A i, k \in Job : Apart(i, k) => Apart(i, k)'
    BY <2>1, <2>2 DEF Apart
  <2>4. \A k \in Job : (AtTemp(k) => AtTemp(k)') /\ (AtTarget(k) => AtTarget(k)')
    BY <1>1, <2>1 DEF AtTemp, AtTarget
  <2>5. \A k \in Job : (Divided(k) => Divided(k)') /\ (Spread(k) => Spread(k)')
    BY <1>1, <2>1, <2>2 DEF Divided, Spread
  <2> QED
    BY <2>3, <2>4, <2>5 DEF Alone
<1>2. CASE Quiet
  BY <1>1, <1>2 DEF Quiet
<1>3. ASSUME NEW j \in Job, Stamp(j) PROVE Alone'
  <2>1. UNCHANGED <<names, tree, data, fd, wrote, contested>> /\ pc' = [pc EXCEPT ![j] = "done"]
    BY <1>3 DEF Stamp, Goto
  <2>2. \A k \in Job : pc'[k] = pc[k] \/ pc'[k] = "done"
    BY <2>1, OneName
  <2> QED
    BY <1>1, <2>1, <2>2
<1> QED
  BY <1>0, <1>2, <1>3, AloneCreate, AloneWrite, AloneRename, NextSteps

-----------------------------------------------------------------------------
(* Files that were renamed into place.                                      *)

LEMMA KeptInit == Init => Kept
BY DEF Init, Kept, Renamed

LEMMA TempInTemps ==
  ASSUME NEW j \in Job, Target(j) # PathError
  PROVE  Temp(j) \in Temps
BY DEF Temps

LEMMA RenamedPrimed ==
  ASSUME UNCHANGED names, NEW k \in Job
  PROVE  Renamed(k)' <=> pc'[k] \in {"stamp", "done"} /\ Target(k) \notin Temps \cup contested'
BY NamesKept DEF Renamed

LEMMA KeptNext ==
  ASSUME Ready, Alone, Kept, [Next]_vars
  PROVE  Kept'
<1>0. TypeOK
  BY DEF Ready
<1>1. ASSUME UNCHANGED <<names, tree, fd, contested>>,
             \A k \in Job : pc'[k] \in {"stamp", "done"} => pc[k] \in {"stamp", "done"}
      PROVE  Kept'
  <2>1. \A k \in Job : Target(k)' = Target(k) /\ (Renamed(k)' => Renamed(k))
    BY <1>1, NamesKept DEF Renamed
  <2> QED
    BY <1>1, <2>1 DEF Kept
<1>2. CASE Quiet
  BY <1>1, <1>2 DEF Quiet
<1>3. ASSUME NEW j \in Job, Create(j) PROVE Kept'
  <2>1. /\ pc' = [pc EXCEPT ![j] = "open"]
        /\ DOMAIN tree' = DOMAIN tree \cup {Temp(j)}
        /\ \A p \in DOMAIN tree : tree'[p] = tree[p]
        /\ tree'[Temp(j)] = fd'[j] /\ fd' = [fd EXCEPT ![j] = fd'[j]]
        /\ \A k \in Job \ {j} : fd[k] = fd'[j] => Temp(j) \in DOMAIN tree
        /\ UNCHANGED names /\ contested \subseteq contested'
    BY <1>3, CreateEffect
  <2>2. \A k \in Job : Target(k)' = Target(k)
    BY <2>1, NamesKept
  <2>3. \A k \in Job : Renamed(k)' => k # j /\ Renamed(k) /\ fd'[k] = fd[k]
    BY <2>1, RenamedPrimed, OneName DEF Renamed
  <2>4. ASSUME NEW k \in Job, Renamed(k)', NEW p \in DOMAIN tree', tree'[p] = fd'[k]
        PROVE  p = Target(k)
    <3>1. p \in DOMAIN tree
      BY <2>1, <2>3, <2>4
    <3> QED
      BY <2>1, <2>3, <2>4, <3>1 DEF Kept
  <2>5. \A i, k \in Job : i # k /\ Renamed(i)' /\ Renamed(k)' => fd'[i] # fd'[k]
    BY <2>1, <2>3 DEF Kept
  <2> QED
    BY <2>2, <2>4, <2>5 DEF Kept
<1>4. ASSUME NEW j \in Job, Write(j) PROVE Kept'
  BY <1>1, <1>4 DEF Write
<1>5. ASSUME NEW j \in Job, Rename(j) PROVE Kept'
  <2>1. /\ pc[j] = "open" /\ UNCHANGED <<names, fd, contested>>
        /\ \/ /\ Temp(j) \in DOMAIN tree /\ pc' = [pc EXCEPT ![j] = "stamp"]
              /\ DOMAIN tree' = (DOMAIN tree \ {Temp(j)}) \cup {Target(j)}
              /\ tree'[Target(j)] = tree[Temp(j)]
              /\ \A p \in DOMAIN tree' \ {Target(j)} :
                   p \in DOMAIN tree /\ p # Temp(j) /\ tree'[p] = tree[p]
           \/ tree' = tree /\ pc' = [pc EXCEPT ![j] = "failed"]
    BY <1>5, RenameEffect
  <2>2. CASE tree' = tree /\ pc' = [pc EXCEPT ![j] = "failed"]
    <3>1. \A k \in Job : pc'[k] = pc[k] \/ pc'[k] = "failed"
      BY <2>2, OneName
    <3> QED
      BY <1>1, <2>1, <2>2, <3>1
  <2>3. CASE /\ Temp(j) \in DOMAIN tree /\ pc' = [pc EXCEPT ![j] = "stamp"]
             /\ DOMAIN tree' = (DOMAIN tree \ {Temp(j)}) \cup {Target(j)}
             /\ tree'[Target(j)] = tree[Temp(j)]
             /\ \A p \in DOMAIN tree' \ {Target(j)} :
                  p \in DOMAIN tree /\ p # Temp(j) /\ tree'[p] = tree[p]
    <3>1. Temp(j) \in Temps /\ (Target(j) \notin contested => tree[Temp(j)] = fd[j])
      <4>1. Temp(j) \in Temps
        BY <2>1, TempInTemps DEF Ready
      <4>2. ASSUME Target(j) \notin contested PROVE tree[Temp(j)] = fd[j]
        <5>1. Free(j)
          BY <2>1, <4>2, OwnNames DEF Live
        <5> QED
          BY <2>1, <5>1 DEF Alone, AtTemp
      <4> QED
        BY <4>1, <4>2
    <3>2. \A k \in Job : Target(k)' = Target(k)
      BY <2>1, NamesKept
    <3>3. \A k \in Job \ {j} : Renamed(k)' => Renamed(k)
      BY <2>1, <2>3, RenamedPrimed, OneName DEF Renamed
    <3>4. \A k \in Job \ {j} : Renamed(k) => tree[Temp(j)] # fd[k]
      BY <2>3, <3>1 DEF Kept, Renamed
    <3>7. Renamed(j)' => tree[Temp(j)] = fd[j]
      BY <2>1, <3>1, RenamedPrimed
    <3>5. ASSUME NEW k \in Job, Renamed(k)', NEW p \in DOMAIN tree', tree'[p] = fd[k]
          PROVE  p = Target(k)
      <4>1. CASE k = j
        BY <2>3, <3>5, <3>7, <4>1, OneName
      <4>2. CASE k # j /\ p = Target(j)
        BY <2>3, <3>3, <3>4, <3>5, <4>2
      <4>3. CASE k # j /\ p # Target(j)
        BY <2>3, <3>3, <3>5, <4>3 DEF Kept
      <4> QED
        BY <4>1, <4>2, <4>3
    <3>6. ASSUME NEW i \in Job, NEW k \in Job, i # k, Renamed(i)', Renamed(k)'
          PROVE  fd[i] # fd[k]
      <4>1. CASE i = j
        BY <3>3, <3>4, <3>6, <3>7, <4>1
      <4>2. CASE k = j
        BY <3>3, <3>4, <3>6, <3>7, <4>2
      <4>3. CASE i # j /\ k # j
        BY <3>3, <3>6, <4>3 DEF Kept
      <4> QED
        BY <4>1, <4>2, <4>3
    <3> QED
      BY <2>1, <3>2, <3>5, <3>6 DEF Kept
  <2> QED
    BY <2>1, <2>2, <2>3
<1>6. ASSUME NEW j \in Job, Stamp(j) PROVE Kept'
  <2>1. /\ pc[j] = "stamp" /\ pc' = [pc EXCEPT ![j] = "done"]
        /\ UNCHANGED <<names, tree, fd, contested>>
    BY <1>6 DEF Stamp, Goto
  <2>2. \A k \in Job : pc'[k] \in {"stamp", "done"} => pc[k] \in {"stamp", "done"}
    BY <2>1, OneName
  <2> QED
    BY <1>1, <2>1, <2>2
<1> QED
  BY <1>0, <1>2, <1>3, <1>4, <1>5, <1>6, NextSteps

\* What a writer writes lies at its temporary name, or at contested ones.
LEMMA WritesOwn ==
  ASSUME Ready, Alone, NEW j \in Job, pc[j] = "open",
         NEW p \in DOMAIN tree, p # Temp(j), p \notin contested
  PROVE  tree[p] # fd[j]
<1>1. CASE Free(j)
  <2>1. Temp(j) \in DOMAIN tree /\ tree[Temp(j)] = fd[j]
    BY <1>1 DEF Alone, AtTemp
  <2> QED
    BY <2>1, OneName
<1>2. CASE Lost(j)
  BY <1>2 DEF Alone, Spread, Live
<1> QED
  BY <1>1, <1>2 DEF Alone, Divided, Live

LEMMA WritesElsewhere ==
  ASSUME Ready, Alone, NEW j \in Job, pc[j] = "open",
         NEW p \in DOMAIN tree, p \notin Temps \cup contested
  PROVE  tree[p] # fd[j]
<1>1. Temp(j) \in Temps
  BY TempInTemps DEF Ready
<1> QED
  BY <1>1, WritesOwn

LEMMA StampInit == Init => StampMatches
BY DEF Init, StampMatches

LEMMA StampNext ==
  ASSUME Ready, Alone, Kept, StampMatches, [Next]_vars
  PROVE  StampMatches'
<1>0. TypeOK
  BY DEF Ready
\* It is enough to look at one writer that is done.
<1>1. ASSUME UNCHANGED names,
             \A k \in Job : pc'[k] = "done" /\ Target(k) \in DOMAIN tree'
                            /\ Target(k) \notin Temps \cup contested' /\ tree'[Target(k)] = fd'[k]
                            => mtime'[fd'[k]] = k
      PROVE  StampMatches'
  <2>1. Temps' = Temps /\ \A k \in Job : Target(k)' = Target(k)
    BY <1>1, NamesKept
  <2> QED
    BY <1>1, <2>1 DEF StampMatches
<1>2. CASE Quiet
  BY <1>1, <1>2 DEF Quiet, StampMatches
<1>3. ASSUME NEW j \in Job, Create(j) PROVE StampMatches'
  <2>1. /\ pc' = [pc EXCEPT ![j] = "open"]
        /\ DOMAIN tree' = DOMAIN tree \cup {Temp(j)}
        /\ \A p \in DOMAIN tree : tree'[p] = tree[p]
        /\ fd' = [fd EXCEPT ![j] = fd'[j]]
        /\ \A p \in DOMAIN tree : tree[p] = fd'[j] => p = Temp(j)
        /\ mtime' = [mtime EXCEPT ![fd'[j]] = "now"]
        /\ UNCHANGED names /\ contested \subseteq contested' /\ Target(j) # PathError
    BY <1>3, CreateEffect
  <2>2. ASSUME NEW k \in Job, pc'[k] = "done", Target(k) \in DOMAIN tree',
               Target(k) \notin Temps \cup contested', tree'[Target(k)] = fd'[k]
        PROVE  mtime'[fd'[k]] = k
    <3>1. k # j /\ pc[k] = "done" /\ fd'[k] = fd[k]
      BY <2>1, <2>2, OneName
    <3>2. Target(k) # Temp(j)
      BY <2>1, <2>2, TempInTemps
    <3>3. Target(k) \in DOMAIN tree /\ tree[Target(k)] = fd[k] /\ fd[k] # fd'[j]
      BY <2>1, <2>2, <3>1, <3>2
    <3>4. mtime[fd[k]] = k
      BY <2>1, <2>2, <3>1, <3>3 DEF StampMatches
    <3> QED
      BY <2>1, <3>1, <3>3, <3>4, OneName
  <2> QED
    BY <1>1, <2>1, <2>2
<1>4. ASSUME NEW j \in Job, Write(j) PROVE StampMatches'
  <2>1. /\ pc[j] = "open" /\ mtime' = [mtime EXCEPT ![fd[j]] = "now"]
        /\ UNCHANGED <<names, tree, pc, fd, contested>>
    BY <1>4, WriteEffect
  <2>2. ASSUME NEW k \in Job, pc[k] = "done", Target(k) \in DOMAIN tree,
               Target(k) \notin Temps \cup contested, tree[Target(k)] = fd[k]
        PROVE  mtime'[fd[k]] = k
    <3>2. fd[k] # fd[j]
      BY <1>0, <2>1, <2>2, WritesElsewhere
    <3>3. mtime[fd[k]] = k
      BY <2>2 DEF StampMatches
    <3> QED
      BY <2>1, <3>2, <3>3, OneName
  <2> QED
    BY <1>1, <2>1, <2>2
<1>5. ASSUME NEW j \in Job, Rename(j) PROVE StampMatches'
  <2>1. /\ pc[j] = "open" /\ UNCHANGED <<names, fd, mtime, contested>>
        /\ \/ /\ Temp(j) \in DOMAIN tree /\ pc' = [pc EXCEPT ![j] = "stamp"]
              /\ DOMAIN tree' = (DOMAIN tree \ {Temp(j)}) \cup {Target(j)}
              /\ tree'[Target(j)] = tree[Temp(j)]
              /\ \A p \in DOMAIN tree' \ {Target(j)} :
                   p \in DOMAIN tree /\ p # Temp(j) /\ tree'[p] = tree[p]
           \/ tree' = tree /\ pc' = [pc EXCEPT ![j] = "failed"]
    BY <1>5, RenameEffect
  <2>2. ASSUME NEW k \in Job, pc'[k] = "done", Target(k) \in DOMAIN tree',
               Target(k) \notin Temps \cup contested, tree'[Target(k)] = fd[k]
        PROVE  mtime[fd[k]] = k
    <3>1. k # j /\ pc[k] = "done" /\ Renamed(k)
      BY <2>1, <2>2, OneName DEF Renamed
    <3>2. Target(k) \in DOMAIN tree /\ tree[Target(k)] = fd[k]
      <4>1. CASE tree' = tree
        BY <2>2, <4>1
      <4>2. CASE tree' # tree /\ Target(k) # Target(j)
        BY <2>1, <2>2, <4>2
      <4>3. CASE tree' # tree /\ Target(k) = Target(j)
        <5>1. tree[Temp(j)] = fd[k] /\ Temp(j) \in DOMAIN tree
          BY <2>1, <2>2, <4>3
        <5>2. Temp(j) = Target(k)
          BY <2>2, <3>1, <5>1 DEF Kept
        <5>3. Temp(j) \in Temps
          BY <2>1, TempInTemps DEF Ready
        <5> QED
          BY <2>2, <5>2, <5>3
      <4> QED
        BY <4>1, <4>2, <4>3
    <3> QED
      BY <2>2, <3>1, <3>2 DEF StampMatches
  <2> QED
    BY <1>1, <2>1, <2>2
<1>6. ASSUME NEW j \in Job, Stamp(j) PROVE StampMatches'
  <2>1. /\ pc[j] = "stamp" /\ pc' = [pc EXCEPT ![j] = "done"]
        /\ mtime' = IF Target(j) \in DOMAIN tree THEN [mtime EXCEPT ![tree[Target(j)]] = j] ELSE mtime
        /\ UNCHANGED <<names, tree, fd, contested>>
    BY <1>6 DEF Stamp, Goto
  <2>2. ASSUME NEW k \in Job, pc'[k] = "done", Target(k) \in DOMAIN tree,
               Target(k) \notin Temps \cup contested, tree[Target(k)] = fd[k]
        PROVE  mtime'[fd[k]] = k
    <3>1. Target(j) \notin contested => Target(j) \in DOMAIN tree /\ tree[Target(j)] = fd[j]
      <4> SUFFICES ASSUME Target(j) \notin contested
                   PROVE  Target(j) \in DOMAIN tree /\ tree[Target(j)] = fd[j]
        OBVIOUS
      <4>1. Free(j)
        BY <2>1, OwnNames DEF Live
      <4> QED
        BY <2>1, <4>1 DEF Alone, AtTarget
    <3>2. Target(j) \in DOMAIN tree => mtime' = [mtime EXCEPT ![tree[Target(j)]] = j]
      BY <2>1
    <3>3. CASE k = j
      BY <2>2, <3>1, <3>2, <3>3, OneName
    <3>4. CASE k # j
      <4>1. pc[k] = "done"
        BY <2>1, <2>2, <3>4, OneName
      <4>2. Target(j) \in DOMAIN tree => fd[k] # tree[Target(j)]
        <5> SUFFICES ASSUME Target(j) \in DOMAIN tree, fd[k] = tree[Target(j)] PROVE FALSE
          OBVIOUS
        <5>1. Target(j) = Target(k)
          BY <2>2, OneName
        <5>2. Renamed(j) /\ Renamed(k)
          BY <2>1, <2>2, <4>1, <5>1 DEF Renamed
        <5>3. fd[j] = fd[k]
          BY <2>2, <3>1, <5>1
        <5> QED
          BY <3>4, <5>2, <5>3 DEF Kept
      <4>3. mtime[fd[k]] = k
        BY <2>2, <4>1 DEF StampMatches
      <4> QED
        BY <2>1, <3>2, <4>2, <4>3, OneName
    <3> QED
      BY <3>3, <3>4
  <2> QED
    BY <1>1, <2>1, <2>2
<1> QED
  BY <1>0, <1>2, <1>3, <1>4, <1>5, <1>6, NextSteps

\* What the writers keep of each other, all at once.
Settled == Ready /\ Alone /\ Kept

LEMMA SettledInit == Init => Settled
BY ReadyInit, AloneInit, KeptInit DEF Settled

LEMMA SettledNext ==
  ASSUME Settled, [Next]_vars
  PROVE  Settled'
BY ReadyNext, AloneNext, KeptNext DEF Settled

\* A file that was written has the sender's time stamp when its writer is done,
\* whoever wrote the same file before or takes its place afterwards, unless two
\* writers were at work on its names at once; what they do there costs no other
\* file its stamp (writer.rs:74-75).
THEOREM StampedRight == Spec => []StampMatches
<1>1. Init => Settled /\ StampMatches
  BY SettledInit, StampInit
<1>2. Settled /\ StampMatches /\ [Next]_vars => Settled' /\ StampMatches'
  BY SettledNext, StampNext DEF Settled
<1> QED
  BY <1>1, <1>2, PTL DEF Spec

-----------------------------------------------------------------------------
(* What lies under the names.                                               *)

\* Complete, by the parts of the state it reads.
Finished(c, p, w, early) ==
  \/ c = <<"user">>
  \/ \E j \in Job : Target(j) = p /\ (c = Whole(j) \/ (j \in early /\ c = [n \in 1..w[j] |-> j]))

\* A channel that is closed stays closed, and what it carried stays the same.
LEMMA FinishedStays ==
  ASSUME NEW c, NEW p, NEW w, NEW early, NEW w2, NEW early2, early \subseteq early2,
         \A j \in early : w2[j] = w[j], Finished(c, p, w, early)
  PROVE  Finished(c, p, w2, early2)
BY DEF Finished

LEMMA FilesInit == Init => FilesWhole
<1> SUFFICES ASSUME Init PROVE FilesWhole
  OBVIOUS
<1>1. data = [i \in Inode |-> <<"user">>] /\ \A p \in DOMAIN tree : tree[p] \in Inode
  BY ReadyInit DEF Init, Ready, TypeOK
<1> QED
  BY <1>1 DEF FilesWhole, Complete

LEMMA FilesNext ==
  ASSUME Settled, FilesWhole, [Next]_vars
  PROVE  FilesWhole'
<1>0. Ready /\ TypeOK /\ Alone
  BY DEF Settled, Ready
\* It is enough to look at one name that is not a temporary one.
<1>1. ASSUME UNCHANGED names, cut \subseteq cut', \A k \in cut : wrote'[k] = wrote[k],
             contested \subseteq contested',
             \A p \in DOMAIN tree' : p \notin Temps \cup contested' =>
               \/ p \in DOMAIN tree /\ data'[tree'[p]] = data[tree[p]]
               \/ Finished(data'[tree'[p]], p, wrote', cut')
      PROVE  FilesWhole'
  <2>1. Temps' = Temps /\ \A k \in Job : Target(k)' = Target(k)
    BY <1>1, NamesKept
  <2>2. ASSUME NEW p \in DOMAIN tree', p \notin Temps \cup contested'
        PROVE  Finished(data'[tree'[p]], p, wrote', cut')
    <3>1. CASE p \in DOMAIN tree /\ data'[tree'[p]] = data[tree[p]]
      <4>1. Complete(data[tree[p]], p)
        BY <1>1, <2>2, <3>1 DEF FilesWhole
      <4>2. Finished(data[tree[p]], p, wrote, cut)
        BY <4>1 DEF Finished, Complete
      <4> QED
        BY <1>1, <3>1, <4>2, FinishedStays
    <3> QED
      BY <1>1, <2>2, <3>1
  <2> QED
    BY <2>1, <2>2 DEF FilesWhole, Complete, Finished, Whole
<1>2. CASE Quiet
  BY <1>1, <1>2 DEF Quiet
<1>3. ASSUME NEW j \in Job, Create(j) PROVE FilesWhole'
  <2>1. /\ DOMAIN tree' = DOMAIN tree \cup {Temp(j)}
        /\ \A p \in DOMAIN tree : tree'[p] = tree[p]
        /\ \A p \in DOMAIN tree : tree[p] = fd'[j] => p = Temp(j)
        /\ \A i \in Inode \ {fd'[j]} : data'[i] = data[i]
        /\ UNCHANGED <<names, wrote, cut>> /\ contested \subseteq contested' /\ Target(j) # PathError
    BY <1>0, <1>3, CreateEffect
  <2>2. \A p \in DOMAIN tree' : p \notin Temps => p \in DOMAIN tree /\ data'[tree'[p]] = data[tree[p]]
    BY <1>0, <2>1, TempInTemps, OneName
  <2> QED
    BY <1>1, <2>1, <2>2
<1>4. ASSUME NEW j \in Job, Write(j) PROVE FilesWhole'
  <2>1. /\ pc[j] = "open" /\ j \notin cut /\ wrote' = [wrote EXCEPT ![j] = wrote[j] + 1]
        /\ \A i \in Inode \ {fd[j]} : data'[i] = data[i]
        /\ UNCHANGED <<names, tree, pc, fd, cut, contested>>
    BY <1>0, <1>4, WriteEffect
  <2>2. \A k \in cut : wrote'[k] = wrote[k]
    BY <2>1
  <2>3. ASSUME NEW p \in DOMAIN tree, p \notin Temps \cup contested
        PROVE  data'[tree[p]] = data[tree[p]]
    <3>1. tree[p] # fd[j]
      BY <1>0, <2>1, <2>3, WritesElsewhere
    <3> QED
      BY <1>0, <2>1, <3>1, OneName
  <2> QED
    BY <1>1, <2>1, <2>2, <2>3
<1>5. ASSUME NEW j \in Job, Rename(j) PROVE FilesWhole'
  <2>1. /\ pc[j] = "open" /\ (wrote[j] = Chunks[j] \/ j \in cut)
        /\ UNCHANGED <<names, data, wrote, cut, contested>>
        /\ \/ /\ Temp(j) \in DOMAIN tree
              /\ DOMAIN tree' = (DOMAIN tree \ {Temp(j)}) \cup {Target(j)}
              /\ tree'[Target(j)] = tree[Temp(j)]
              /\ \A p \in DOMAIN tree' \ {Target(j)} :
                   p \in DOMAIN tree /\ p # Temp(j) /\ tree'[p] = tree[p]
           \/ tree' = tree
    BY <1>0, <1>5, RenameEffect
  <2>2. ASSUME NEW p \in DOMAIN tree', p \notin Temps \cup contested
        PROVE  \/ p \in DOMAIN tree /\ data[tree'[p]] = data[tree[p]]
               \/ Finished(data[tree'[p]], p, wrote, cut)
    <3>1. CASE p \in DOMAIN tree /\ tree'[p] = tree[p]
      BY <3>1
    <3>2. CASE ~(p \in DOMAIN tree /\ tree'[p] = tree[p])
      <4>1. p = Target(j) /\ tree'[p] = tree[Temp(j)]
        BY <2>1, <3>2
      <4>4. Free(j)
        BY <1>0, <2>1, <2>2, <4>1, OwnNames DEF Live
      <4>2. tree[Temp(j)] = fd[j] /\ data[fd[j]] = [n \in 1..wrote[j] |-> j]
        BY <1>0, <2>1, <4>4 DEF Alone, AtTemp
      <4>3. data[tree'[p]] = Whole(j) \/ (j \in cut /\ data[tree'[p]] = [n \in 1..wrote[j] |-> j])
        BY <2>1, <4>1, <4>2 DEF Whole
      <4> QED
        BY <4>1, <4>3 DEF Finished
    <3> QED
      BY <3>1, <3>2
  <2> QED
    BY <1>1, <2>1, <2>2
<1>6. ASSUME NEW j \in Job, Stamp(j) PROVE FilesWhole'
  BY <1>1, <1>6 DEF Stamp
<1> QED
  BY <1>0, <1>2, <1>3, <1>4, <1>5, <1>6, NextSteps

\* What lies under the name of a file is what the user had or all of one delta,
\* at every moment, whichever writers are stopped and tried again, and whatever
\* writers that share a name do to each other's files; only those are excepted.
\* A channel closed early leaves the front of the file (writer.rs:26-70).
THEOREM NeverHalfWritten == Spec => []FilesWhole
<1>1. Init => Settled /\ FilesWhole
  BY SettledInit, FilesInit
<1>2. Settled /\ FilesWhole /\ [Next]_vars => Settled' /\ FilesWhole'
  BY SettledNext, FilesNext
<1> QED
  BY <1>1, <1>2, PTL DEF Spec

-----------------------------------------------------------------------------
(* Temporary files that are left behind.                                    *)

\* A temporary file of j's that the next scan would report, and what excuses it.
Stray(j, tr, da, no) ==
  /\ Target(j) # PathError /\ Temp(j) \in DOMAIN tr \ no
  /\ Temp(j) \notin Targets
  /\ da[tr[Temp(j)]] # <<"user">>

Excused(j, at, evs) ==
  \/ \E k \in Job : at[k] \in {"open", "stamp"} /\ Temp(k) = Temp(j)
  \/ {"kill", "diskError"} \cap evs # {}
  \/ Target(j) \in dirs

LEMMA StrayExcused ==
  StrayTemporary <=> \A j \in Job : Stray(j, tree, data, contested) => Excused(j, pc, events)
BY DEF StrayTemporary, Stray, Excused, Live

LEMMA StrayInit == Init => StrayTemporary
<1> SUFFICES ASSUME Init PROVE StrayTemporary
  OBVIOUS
<1>1. data = [i \in Inode |-> <<"user">>] /\ \A p \in DOMAIN tree : tree[p] \in Inode
  BY ReadyInit DEF Init, Ready, TypeOK
<1> QED
  BY <1>1 DEF StrayTemporary

LEMMA StrayNext ==
  ASSUME Settled, StrayTemporary, [Next]_vars
  PROVE  StrayTemporary'
<1>0. Ready /\ TypeOK /\ Alone /\ root \in Roots /\ wire \in [Job -> WirePaths]
  BY DEF Settled, Ready, TypeOK
<1>1. ASSUME UNCHANGED names,
             \A j \in Job : Stray(j, tree', data', contested') => Excused(j, pc', events')
      PROVE  StrayTemporary'
  <2>1. /\ dirs' = dirs
        /\ \A k \in Job : Target(k)' = Target(k) /\ Temp(k)' = Temp(k)
        /\ Targets' = Targets
    BY <1>1, NamesKept
  <2> QED
    BY <1>1, <2>1 DEF StrayTemporary, Stray, Excused, Live
<1>2. \A j \in Job : Stray(j, tree, data, contested) => Excused(j, pc, events)
  BY StrayExcused
<1>3. CASE Quiet
  <2>1. /\ UNCHANGED <<names, tree, data, contested>> /\ events \subseteq events'
        /\ \A j \in Job : Live(j) => pc'[j] = pc[j] \/ {"kill", "diskError"} \cap events' # {}
    BY <1>3 DEF Quiet
  <2>2. \A j \in Job : Excused(j, pc, events) => Excused(j, pc', events')
    BY <2>1 DEF Excused, Live
  <2> QED
    BY <1>1, <1>2, <2>1, <2>2
<1>4. ASSUME NEW j \in Job, Create(j) PROVE StrayTemporary'
  <2>1. /\ pc' = [pc EXCEPT ![j] = "open"]
        /\ DOMAIN tree' = DOMAIN tree \cup {Temp(j)}
        /\ \A p \in DOMAIN tree : tree'[p] = tree[p]
        /\ \A p \in DOMAIN tree : tree[p] = fd'[j] => p = Temp(j)
        /\ \A i \in Inode \ {fd'[j]} : data'[i] = data[i]
        /\ UNCHANGED <<names, events>> /\ contested \subseteq contested' /\ pc[j] = "new"
    BY <1>0, <1>4, CreateEffect
  <2>2. pc'[j] = "open" /\ \A k \in Job : k # j => pc'[k] = pc[k]
    BY <1>0, <2>1, OneName
  <2>3. ASSUME NEW k \in Job, Stray(k, tree', data', contested') PROVE Excused(k, pc', events')
    <3>1. CASE Temp(k) = Temp(j)
      BY <2>2, <3>1 DEF Excused
    <3>2. CASE Temp(k) # Temp(j)
      <4>1. Temp(k) \in DOMAIN tree /\ data'[tree'[Temp(k)]] = data[tree[Temp(k)]]
        BY <1>0, <2>1, <2>3, <3>2, OneName DEF Stray
      <4>2. Stray(k, tree, data, contested)
        <5>1. /\ Target(k) # PathError /\ Temp(k) \notin contested' /\ Temp(k) \notin Targets
              /\ data'[tree'[Temp(k)]] # <<"user">>
          BY <2>3 DEF Stray
        <5>2. Temp(k) \notin contested
          BY <2>1, <5>1
        <5> QED
          BY <4>1, <5>1, <5>2 DEF Stray
      <4>3. Excused(k, pc, events)
        BY <1>2, <2>1, <2>3, <4>2
      <4> QED
        BY <2>1, <2>2, <4>3 DEF Excused
    <3> QED
      BY <3>1, <3>2
  <2> QED
    BY <1>1, <2>1, <2>3
<1>5. ASSUME NEW j \in Job, Write(j) PROVE StrayTemporary'
  <2>1. /\ pc[j] = "open"
        /\ \A i \in Inode \ {fd[j]} : data'[i] = data[i]
        /\ UNCHANGED <<names, tree, pc, fd, contested, events>>
    BY <1>0, <1>5, WriteEffect
  <2>2. ASSUME NEW k \in Job, Stray(k, tree, data', contested) PROVE Excused(k, pc, events)
    <3>2. CASE Temp(k) = Temp(j)
      BY <2>1, <3>2 DEF Excused
    <3>3. CASE Temp(k) # Temp(j)
      <4>0. Temp(k) \in DOMAIN tree /\ Temp(k) \notin contested
        BY <2>2 DEF Stray
      <4>1. data'[tree[Temp(k)]] = data[tree[Temp(k)]]
        <5>1. tree[Temp(k)] # fd[j] /\ tree[Temp(k)] \in Inode
          BY <1>0, <2>1, <3>3, <4>0, WritesOwn, OneName
        <5> QED
          BY <2>1, <5>1
      <4>2. Stray(k, tree, data, contested)
        BY <2>2, <4>1 DEF Stray
      <4> QED
        BY <1>2, <2>2, <4>2
    <3> QED
      BY <3>2, <3>3
  <2> QED
    BY <1>1, <2>1, <2>2
<1>6. ASSUME NEW j \in Job, Rename(j) PROVE StrayTemporary'
  <2>1. /\ pc[j] = "open" /\ UNCHANGED <<names, data, contested, events>>
        /\ \/ /\ Temp(j) \in DOMAIN tree /\ pc' = [pc EXCEPT ![j] = "stamp"]
              /\ DOMAIN tree' = (DOMAIN tree \ {Temp(j)}) \cup {Target(j)}
              /\ tree'[Target(j)] = tree[Temp(j)]
              /\ \A p \in DOMAIN tree' \ {Target(j)} :
                   p \in DOMAIN tree /\ p # Temp(j) /\ tree'[p] = tree[p]
           \/ /\ Temp(j) \notin DOMAIN tree \/ Target(j) \in dirs
              /\ tree' = tree /\ pc' = [pc EXCEPT ![j] = "failed"]
    BY <1>0, <1>6, RenameEffect
  <2>2. \A k \in Job : k # j => pc'[k] = pc[k]
    BY <1>0, <2>1, OneName
  <2>3. ASSUME NEW k \in Job, Stray(k, tree', data, contested) PROVE Excused(k, pc', events)
    <3>1. CASE Temp(k) = Temp(j) /\ tree' = tree
      <4>1. Temp(j) \in DOMAIN tree
        BY <2>3, <3>1 DEF Stray
      <4>2. CASE Target(j) \in dirs
        <5>1. Target(j) # PathError /\ Target(k) # PathError
          BY <1>0, <2>1, <2>3 DEF Ready, Stray
        <5>2. Target(k) = Target(j)
          BY <1>0, <3>1, <5>1, TempOfOne
        <5> QED
          BY <4>2, <5>2 DEF Excused
      <4>3. CASE Target(j) \notin dirs
        <5>1. pc' = [pc EXCEPT ![j] = "stamp"]
          BY <2>1, <4>1, <4>3
        <5>2. pc'[j] = "stamp"
          BY <1>0, <5>1, OneName
        <5> QED
          BY <3>1, <5>2 DEF Excused
      <4> QED
        BY <4>2, <4>3
    <3>2. CASE Temp(k) = Temp(j) /\ tree' # tree
      <4>1. pc' = [pc EXCEPT ![j] = "stamp"]
        BY <2>1, <3>2
      <4>2. pc'[j] = "stamp"
        BY <1>0, <4>1, OneName
      <4> QED
        BY <3>2, <4>2 DEF Excused
    <3>3. CASE Temp(k) # Temp(j)
      <4>1. Temp(k) # Target(j) /\ Temp(k) \in DOMAIN tree'
        BY <2>3 DEF Stray, Targets
      <4>2. Temp(k) \in DOMAIN tree /\ tree'[Temp(k)] = tree[Temp(k)]
        BY <2>1, <4>1
      <4>3. Stray(k, tree, data, contested)
        BY <2>3, <4>2 DEF Stray
      <4>4. Excused(k, pc, events)
        BY <1>2, <2>3, <4>3
      <4> QED
        BY <2>2, <3>3, <4>4 DEF Excused
    <3> QED
      BY <3>1, <3>2, <3>3
  <2> QED
    BY <1>1, <2>1, <2>3
<1>7. ASSUME NEW j \in Job, Stamp(j) PROVE StrayTemporary'
  <2>1. /\ pc[j] = "stamp" /\ pc' = [pc EXCEPT ![j] = "done"]
        /\ UNCHANGED <<names, tree, data, fd, contested, events>>
    BY <1>7 DEF Stamp, Goto
  <2>2. \A k \in Job : k # j => pc'[k] = pc[k]
    BY <1>0, <2>1, OneName
  <2>3. ASSUME NEW k \in Job, Stray(k, tree, data, contested) PROVE Excused(k, pc', events)
    <3>1. Excused(k, pc, events)
      BY <1>2, <2>3
    <3>2. Temp(k) # Temp(j)
      <4> SUFFICES ASSUME Temp(k) = Temp(j) PROVE FALSE
        OBVIOUS
      <4>1. Temp(j) \in DOMAIN tree /\ Temp(j) \notin contested /\ Temp(j) \notin Targets
        BY <2>3 DEF Stray
      <4>2. Live(j)
        BY <2>1 DEF Live
      <4>3. Free(j)
        BY <1>0, <4>1, <4>2, OwnNames
      <4>4. \E i \in Job : Temp(j) = Target(i)
        BY <1>0, <2>1, <4>1, <4>3 DEF Alone, AtTarget
      <4> QED
        BY <4>1, <4>4 DEF Targets
    <3> QED
      BY <2>2, <3>1, <3>2 DEF Excused
  <2> QED
    BY <1>1, <2>1, <2>3
<1> QED
  BY <1>0, <1>3, <1>4, <1>5, <1>6, <1>7, NextSteps

\* A temporary file that no writer is at work on, at a name no two writers shared,
\* is left by a kill, an error of the writer or a directory in the file's place
\* only (writer.rs:36-78, state.rs:156-173).
THEOREM StraysExplained == Spec => []StrayTemporary
<1>1. Init => Settled /\ StrayTemporary
  BY SettledInit, StrayInit
<1>2. Settled /\ StrayTemporary /\ [Next]_vars => Settled' /\ StrayTemporary'
  BY SettledNext, StrayNext
<1> QED
  BY <1>1, <1>2, PTL DEF Spec
=============================================================================
