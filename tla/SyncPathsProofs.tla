--------------------------- MODULE SyncPathsProofs ---------------------------
(* Proofs about path cleaning, for paths of every length: what a cleaned    *)
(* path looks like, and that a path below a root stays below it.            *)
EXTENDS SyncPaths, SequenceTheorems, WellFoundedInduction, TLAPS

\* Induction, over a set of numbers.
LEMMA NatInduct ==
  ASSUME NEW T \in SUBSET Nat, 0 \in T, \A n \in T : n + 1 \in T
  PROVE  Nat \subseteq T
<1> DEFINE R == {ss \in Nat \X Nat : ss[1] < ss[2]}
<1>0. IsWellFoundedOn(R, Nat)
  BY NatLessThanWellFounded, Zenon DEF OpToRel
<1> SUFFICES ASSUME Nat \ T # {} PROVE FALSE
  OBVIOUS
<1> HIDE DEF R
<1>1. \E x \in Nat \ T : \A y \in Nat \ T : ~ (<<y, x>> \in R)
  BY <1>0, WFMin, Zenon
<1>2. PICK x \in Nat \ T : \A y \in Nat \ T : ~ (y < x)
  BY <1>1 DEF R
<1>3. x # 0 /\ x - 1 \in Nat
  OBVIOUS
<1>4. x - 1 \in T
  BY <1>2, <1>3
<1> QED
  BY <1>3, <1>4

\* The steps of Resolved.
Steps(path, n, f) ==
  /\ f \in [0..n -> Seq(Component)] /\ f[0] = <<>>
  /\ \A i \in 1..n : f[i] = Resolve(f[i - 1], path[i])

LEMMA SeqEnds ==
  ASSUME NEW S, NEW s \in Seq(S), NEW c \in S
  PROVE  /\ Append(s, c) \in Seq(S) /\ Len(Append(s, c)) = Len(s) + 1
         /\ Append(s, c)[Len(s) + 1] = c /\ \A i \in 1..Len(s) : Append(s, c)[i] = s[i]
         /\ s # <<>> => /\ Front(s) \in Seq(S) /\ Len(Front(s)) = Len(s) - 1
                        /\ \A i \in 1..(Len(s) - 1) : Front(s)[i] = s[i]
                        /\ Last(s) \in S
<1>1. /\ Append(s, c) \in Seq(S) /\ Len(Append(s, c)) = Len(s) + 1
      /\ Append(s, c)[Len(s) + 1] = c /\ \A i \in 1..Len(s) : Append(s, c)[i] = s[i]
  OBVIOUS
<1>2. ASSUME s # <<>>
      PROVE  /\ Front(s) \in Seq(S) /\ Len(Front(s)) = Len(s) - 1
             /\ \A i \in 1..(Len(s) - 1) : Front(s)[i] = s[i]
             /\ Last(s) \in S
  <2>1. Len(s) \in Nat /\ Len(s) > 0
    BY <1>2
  <2>2. Front(s) \in Seq(S) /\ Len(Front(s)) = Len(s) - 1
    <3>1. Front(s) = [i \in 1..(Len(s) - 1) |-> s[i]]
      BY <2>1 DEF Front
    <3>2. \A i \in 1..(Len(s) - 1) : s[i] \in S
      BY <2>1
    <3> QED
      BY <2>1, <3>1, <3>2
  <2>3. \A i \in 1..(Len(s) - 1) : Front(s)[i] = s[i]
    BY <2>1 DEF Front
  <2>4. Last(s) \in S
    BY <2>1 DEF Last
  <2> QED
    BY <2>2, <2>3, <2>4
<1> QED
  BY <1>1, <1>2

LEMMA CatAppend ==
  ASSUME NEW S, NEW s \in Seq(S), NEW t \in Seq(S), NEW c \in S
  PROVE  s \o Append(t, c) = Append(s \o t, c)
<1>1. /\ Append(t, c) \in Seq(S) /\ Len(Append(t, c)) = Len(t) + 1
      /\ Append(t, c)[Len(t) + 1] = c /\ \A i \in 1..Len(t) : Append(t, c)[i] = t[i]
  BY SeqEnds
<1>2. /\ s \o t \in Seq(S) /\ Len(s \o t) = Len(s) + Len(t)
      /\ \A i \in 1..Len(s \o t) : (s \o t)[i] = IF i <= Len(s) THEN s[i] ELSE t[i - Len(s)]
  BY ConcatProperties
<1>3. Len(s) \in Nat /\ Len(t) \in Nat
  OBVIOUS
<1> DEFINE l == s \o Append(t, c)
           r == Append(s \o t, c)
<1>4. /\ l \in Seq(S) /\ Len(l) = Len(s) + Len(t) + 1
      /\ \A i \in 1..Len(l) : l[i] = IF i <= Len(s) THEN s[i] ELSE Append(t, c)[i - Len(s)]
  BY <1>1, <1>3, ConcatProperties
<1>5. /\ r \in Seq(S) /\ Len(r) = Len(s) + Len(t) + 1 /\ r[Len(s) + Len(t) + 1] = c
      /\ \A i \in 1..(Len(s) + Len(t)) : r[i] = (s \o t)[i]
  BY <1>2, SeqEnds
<1> HIDE DEF l, r
<1>6. ASSUME NEW i \in 1..Len(l) PROVE l[i] = r[i]
  <2>0. i \in Nat /\ i >= 1 /\ i <= Len(s) + Len(t) + 1
    BY <1>3, <1>4
  <2>1. CASE i = Len(s) + Len(t) + 1
    BY <1>1, <1>3, <1>4, <1>5, <2>1
  <2>2. CASE i # Len(s) + Len(t) + 1 /\ i <= Len(s)
    <3>1. i \in 1..(Len(s) + Len(t))
      BY <1>3, <2>0, <2>2
    <3> QED
      BY <1>2, <1>4, <1>5, <2>2, <3>1
  <2>3. CASE i # Len(s) + Len(t) + 1 /\ ~(i <= Len(s))
    <3>1. i - Len(s) \in 1..Len(t) /\ i \in 1..(Len(s) + Len(t))
      BY <1>3, <2>0, <2>3
    <3> QED
      BY <1>1, <1>2, <1>4, <1>5, <2>3, <3>1
  <2> QED
    BY <2>1, <2>2, <2>3
<1>7. l = r
  BY <1>4, <1>5, <1>6, SeqEqual
<1> QED
  BY <1>7 DEF l, r

LEMMA ResolveType ==
  ASSUME NEW done \in Seq(Component), NEW c \in Component
  PROVE  Resolve(done, c) \in Seq(Component)
BY SeqEnds DEF Resolve

LEMMA StepsExist ==
  ASSUME NEW path \in Seq(Component)
  PROVE  \E f \in [0..Len(path) -> Seq(Component)] : Steps(path, Len(path), f)
<1> DEFINE P(n) == \E f \in [0..n -> Seq(Component)] : Steps(path, n, f)
           T == {n \in Nat : n <= Len(path) => P(n)}
<1>1. 0 \in T
  <2> DEFINE f == [i \in 0..0 |-> <<>>]
  <2>0. <<>> \in Seq(Component)
    OBVIOUS
  <2>1. f \in [0..0 -> Seq(Component)] /\ f[0] = <<>>
    BY <2>0
  <2> HIDE DEF f
  <2> QED
    BY <2>1 DEF Steps
<1>2. ASSUME NEW n \in T PROVE n + 1 \in T
  <2> SUFFICES ASSUME n + 1 <= Len(path) PROVE P(n + 1)
    OBVIOUS
  <2>1. n \in Nat /\ n <= Len(path) /\ P(n)
    OBVIOUS
  <2>2. PICK f \in [0..n -> Seq(Component)] : Steps(path, n, f)
    BY <2>1
  <2> DEFINE g == [i \in 0..(n + 1) |-> IF i <= n THEN f[i] ELSE Resolve(f[n], path[n + 1])]
  <2>3. path[n + 1] \in Component /\ f[n] \in Seq(Component)
    BY <2>1
  <2>4. Resolve(f[n], path[n + 1]) \in Seq(Component)
    BY <2>3, ResolveType
  <2>5. g \in [0..(n + 1) -> Seq(Component)]
    BY <2>1, <2>4
  <2>6. g[0] = <<>> /\ \A i \in 1..(n + 1) : g[i] = Resolve(g[i - 1], path[i])
    <3>1. g[0] = <<>>
      BY <2>1, <2>2 DEF Steps
    <3>2. ASSUME NEW i \in 1..(n + 1), i <= n PROVE g[i] = Resolve(g[i - 1], path[i])
      <4>1. i \in 1..n /\ i - 1 \in 0..n /\ g[i] = f[i] /\ g[i - 1] = f[i - 1]
        BY <2>1, <3>2
      <4> HIDE DEF g
      <4> QED
        BY <2>2, <4>1 DEF Steps
    <3>3. ASSUME NEW i \in 1..(n + 1), ~ (i <= n) PROVE g[i] = Resolve(g[i - 1], path[i])
      <4>1. i = n + 1 /\ i - 1 = n /\ n \in 0..(n + 1) /\ n + 1 \in 0..(n + 1) /\ n <= n /\ ~(n + 1 <= n)
        BY <2>1, <3>3
      <4>2. g[n] = f[n] /\ g[n + 1] = Resolve(f[n], path[n + 1])
        BY <4>1
      <4> HIDE DEF g
      <4> QED
        BY <4>1, <4>2
    <3> QED
      BY <3>1, <3>2, <3>3
  <2> HIDE DEF g
  <2> QED
    BY <2>5, <2>6 DEF Steps
<1> HIDE DEF P
<1>3. Nat \subseteq T
  <2> HIDE DEF T
  <2>1. T \in SUBSET Nat
    BY DEF T
  <2> QED
    BY <1>1, <1>2, <2>1, NatInduct
<1>4. P(Len(path))
  BY <1>3
<1> QED
  BY <1>4 DEF P

LEMMA ResolvedSteps ==
  ASSUME NEW path \in Seq(Component)
  PROVE  \E f \in [0..Len(path) -> Seq(Component)] :
           Steps(path, Len(path), f) /\ Resolved(path) = f[Len(path)]
<1>1. PICK f \in [0..Len(path) -> Seq(Component)] : Steps(path, Len(path), f)
  BY StepsExist
<1> DEFINE Fits(g) ==
             g = [i \in 0..Len(path) |-> IF i = 0 THEN <<>> ELSE Resolve(g[i - 1], path[i])]
           h == CHOOSE g : Fits(g)
<1>2. Fits(f)
  <2>1. \A i \in 0..Len(path) : i # 0 => i \in 1..Len(path)
    OBVIOUS
  <2> QED
    BY <1>1, <2>1 DEF Steps
<1>3. Fits(h)
  BY <1>2
<1>4. Resolved(path) = h[Len(path)]
  BY DEF Resolved
<1> DEFINE T == {n \in Nat : n <= Len(path) => h[n] = f[n]}
<1> HIDE DEF h
<1>5. Nat \subseteq T
  <2>1. 0 \in T
    BY <1>1, <1>3 DEF Steps
  <2>2. ASSUME NEW n \in T PROVE n + 1 \in T
    <3> SUFFICES ASSUME n + 1 <= Len(path) PROVE h[n + 1] = f[n + 1]
      OBVIOUS
    <3>1. n + 1 \in 1..Len(path) /\ n + 1 \in 0..Len(path) /\ n + 1 # 0 /\ (n + 1) - 1 = n
      OBVIOUS
    <3>2. h[n] = f[n]
      BY <3>1
    <3>3. h[n + 1] = Resolve(h[n], path[n + 1])
      BY <1>3, <3>1
    <3> QED
      BY <1>1, <3>1, <3>2, <3>3 DEF Steps
  <2>3. T \in SUBSET Nat
    OBVIOUS
  <2> HIDE DEF T
  <2> QED
    BY <2>1, <2>2, <2>3, NatInduct
<1>6. h[Len(path)] = f[Len(path)]
  BY <1>5
<1> QED
  BY <1>1, <1>4, <1>6

\* Induction over the steps: S is what every step keeps.
LEMMA StepsInduct ==
  ASSUME NEW path \in Seq(Component), NEW f, Steps(path, Len(path), f),
         NEW S, <<>> \in S, \A i \in 1..Len(path) : \A d \in S : Resolve(d, path[i]) \in S
  PROVE  \A n \in 0..Len(path) : f[n] \in S
<1> DEFINE T == {n \in Nat : n <= Len(path) => f[n] \in S}
<1>1. 0 \in T
  BY DEF Steps
<1>2. ASSUME NEW n \in T PROVE n + 1 \in T
  <2> SUFFICES ASSUME n + 1 <= Len(path) PROVE f[n + 1] \in S
    OBVIOUS
  <2>1. n + 1 \in 1..Len(path) /\ (n + 1) - 1 = n /\ f[n] \in S
    OBVIOUS
  <2>2. f[n + 1] = Resolve(f[n], path[n + 1])
    BY <2>1 DEF Steps
  <2> QED
    BY <2>1, <2>2
<1>3. T \in SUBSET Nat
  OBVIOUS
<1> HIDE DEF T
<1>4. Nat \subseteq T
  BY <1>1, <1>2, <1>3, NatInduct
<1> QED
  BY <1>4 DEF T

LEMMA ResolvedInduct ==
  ASSUME NEW path \in Seq(Component),
         NEW S, <<>> \in S, \A i \in 1..Len(path) : \A d \in S : Resolve(d, path[i]) \in S
  PROVE  Resolved(path) \in S
<1>1. PICK f \in [0..Len(path) -> Seq(Component)] :
        Steps(path, Len(path), f) /\ Resolved(path) = f[Len(path)]
  BY ResolvedSteps
<1>2. Len(path) \in 0..Len(path)
  OBVIOUS
<1> QED
  BY <1>1, <1>2, StepsInduct

LEMMA ResolvedType ==
  ASSUME NEW path \in Seq(Component)
  PROVE  Resolved(path) \in Seq(Component)
<1>1. \A i \in 1..Len(path) : path[i] \in Component
  OBVIOUS
<1>2. <<>> \in Seq(Component)
  OBVIOUS
<1> QED
  BY <1>1, <1>2, ResolveType, ResolvedInduct

LEMMA ResolvedEmpty == Resolved(<<>>) = <<>>
<1>1. <<>> \in Seq(Component)
  OBVIOUS
<1> QED
  BY <1>1, ResolvedSteps DEF Steps

\* One component more is one step more.
LEMMA ResolvedAppend ==
  ASSUME NEW path \in Seq(Component), NEW c \in Component
  PROVE  Resolved(Append(path, c)) = Resolve(Resolved(path), c)
<1> DEFINE long == Append(path, c)
           n == Len(path)
<1>0. n \in Nat
  OBVIOUS
<1>1. /\ long \in Seq(Component) /\ Len(long) = n + 1 /\ long[n + 1] = c /\ n \in Nat
      /\ \A i \in 1..n : long[i] = path[i]
  <2>1. /\ Append(path, c) \in Seq(Component) /\ Len(Append(path, c)) = Len(path) + 1
        /\ Append(path, c)[Len(path) + 1] = c
        /\ \A i \in 1..Len(path) : Append(path, c)[i] = path[i]
    <3>1. path \in Seq(Component) /\ c \in Component
      OBVIOUS
    <3> QED
      BY <3>1
  <2> QED
    BY <1>0, <2>1
<1>2. PICK f \in [0..n -> Seq(Component)] : Steps(path, n, f) /\ Resolved(path) = f[n]
  BY ResolvedSteps
<1> HIDE DEF long
<1>3. PICK g \in [0..(n + 1) -> Seq(Component)] :
        Steps(long, n + 1, g) /\ Resolved(long) = g[n + 1]
  BY <1>1, ResolvedSteps
<1> DEFINE T == {k \in Nat : k <= n => g[k] = f[k]}
<1>4. Nat \subseteq T
  <2>1. 0 \in T
    BY <1>2, <1>3 DEF Steps
  <2>2. ASSUME NEW k \in T PROVE k + 1 \in T
    <3> SUFFICES ASSUME k + 1 <= n PROVE g[k + 1] = f[k + 1]
      OBVIOUS
    <3>1. k + 1 \in 1..n /\ k + 1 \in 1..(n + 1) /\ (k + 1) - 1 = k /\ g[k] = f[k]
      BY <1>1
    <3>2. f[k + 1] = Resolve(f[k], path[k + 1])
      BY <1>2, <3>1 DEF Steps
    <3>3. g[k + 1] = Resolve(g[k], long[k + 1])
      BY <1>3, <3>1 DEF Steps
    <3> QED
      BY <1>1, <3>1, <3>2, <3>3
  <2>3. T \in SUBSET Nat
    OBVIOUS
  <2> HIDE DEF T
  <2> QED
    BY <2>1, <2>2, <2>3, NatInduct
<1>5. g[n] = f[n]
  BY <1>1, <1>4
<1>6. g[n + 1] = Resolve(g[n], c)
  <2>1. n + 1 \in 1..(n + 1) /\ (n + 1) - 1 = n
    BY <1>1
  <2> QED
    BY <1>1, <1>3, <2>1 DEF Steps
<1> QED
  BY <1>2, <1>3, <1>5, <1>6 DEF long

-----------------------------------------------------------------------------
(* What a path is resolved to.                                              *)

\* No "." is left, and ".." only in front.
Tidy(N) ==
  {d \in Seq(Component) :
     /\ \A i \in 1..Len(d) : d[i] \in N \cup {".."}
     /\ \A i \in 1..Len(d) : d[i] = ".." => \A k \in 1..i : d[k] = ".."}

LEMMA ResolveTidy ==
  ASSUME NEW N, N \subseteq Name, NEW d \in Tidy(N), NEW c \in N \cup {".", ".."}
  PROVE  Resolve(d, c) \in Tidy(N)
<1>0. d \in Seq(Component) /\ c \in Component
  <2>1. d \in Seq(Component)
    BY DEF Tidy
  <2>2. c \in Component
    BY DEF Component, Special
  <2> QED
    BY <2>1, <2>2
<1>1. d \in Seq(Component) /\ c \in Component /\ Len(d) \in Nat
  BY <1>0
<1>2. CASE Resolve(d, c) = d
  BY <1>2
<1>3. CASE d # <<>> /\ Resolve(d, c) = Front(d)
  <2>1. /\ Front(d) \in Seq(Component) /\ Len(Front(d)) = Len(d) - 1
        /\ \A i \in 1..(Len(d) - 1) : Front(d)[i] = d[i]
    BY <1>1, <1>3, SeqEnds
  <2>2. \A i \in 1..Len(Front(d)) : i \in 1..Len(d) /\ Front(d)[i] = d[i]
    BY <1>1, <2>1
  <2>3. \A i \in 1..Len(Front(d)) : \A k \in 1..i : k \in 1..Len(Front(d))
    BY <1>1, <2>1
  <2> HIDE DEF Front
  <2> QED
    BY <1>3, <2>1, <2>2, <2>3 DEF Tidy
<1>4. CASE /\ Resolve(d, c) = Append(d, c) /\ c # "."
           /\ c = ".." => d = <<>> \/ Last(d) = ".."
  <2> DEFINE e == Append(d, c)
  <2>1. /\ e \in Seq(Component) /\ Len(e) = Len(d) + 1 /\ e[Len(d) + 1] = c
        /\ \A i \in 1..Len(d) : e[i] = d[i]
    BY <1>1, SeqEnds
  <2> HIDE DEF e
  <2>2. \A i \in 1..Len(e) : i \in 1..Len(d) \/ i = Len(d) + 1
    BY <1>1, <2>1
  <2>3. \A i \in 1..Len(e) : e[i] \in N \cup {".."}
    BY <1>4, <2>1, <2>2 DEF Tidy
  <2>4. ASSUME NEW i \in 1..Len(e), e[i] = "..", NEW k \in 1..i
        PROVE  e[k] = ".."
    <3>1. CASE i \in 1..Len(d)
      <4>1. k \in 1..Len(d) /\ d[i] = ".."
        BY <1>1, <2>1, <2>4, <3>1
      <4> QED
        BY <2>1, <3>1, <4>1 DEF Tidy
    <3>2. CASE i = Len(d) + 1
      <4>1. CASE k = i
        BY <2>4, <4>1
      <4>2. CASE k # i
        <5>1. c = ".." /\ k \in 1..Len(d)
          BY <1>1, <2>1, <2>4, <3>2, <4>2
        <5>2. d # <<>> /\ Len(d) \in 1..Len(d)
          BY <1>1, <5>1
        <5>3. d[Len(d)] = ".."
          BY <1>4, <5>1, <5>2 DEF Last
        <5> QED
          BY <2>1, <5>1, <5>2, <5>3 DEF Tidy
      <4> QED
        BY <4>1, <4>2
    <3> QED
      BY <2>2, <3>1, <3>2
  <2> QED
    BY <1>4, <2>1, <2>3, <2>4 DEF Tidy, e
<1>5. \/ Resolve(d, c) = d
      \/ d # <<>> /\ Resolve(d, c) = Front(d)
      \/ Resolve(d, c) = Append(d, c) /\ c # "." /\ (c = ".." => d = <<>> \/ Last(d) = "..")
  BY DEF Resolve
<1> QED
  BY <1>2, <1>3, <1>4, <1>5

\* A relative path that does not begin with ".." is resolved to names alone.
LEMMA RelativeNames ==
  ASSUME NEW N, N \subseteq Name, NEW w \in Seq(Component),
         \A i \in 1..Len(w) : w[i] \in N \cup {".", ".."},
         Clean(w) # <<".">>, ~ StartsWith(Clean(w), <<"..">>)
  PROVE  Clean(w) = Resolved(w) /\ Clean(w) \in Seq(N) \ {<<>>}
<1> DEFINE d == Resolved(w)
<1>1. d \in Tidy(N)
  <2>1. <<>> \in Tidy(N)
    <3>1. <<>> \in Seq(Component) /\ 1..Len(<<>>) = {}
      OBVIOUS
    <3> QED
      BY <3>1 DEF Tidy
  <2> QED
    BY <2>1, ResolveTidy, ResolvedInduct
<1>2. Clean(w) = d /\ d # <<>>
  BY DEF Clean
<1> HIDE DEF d
<1>3. d \in Seq(Component) /\ Len(d) \in Nat /\ Len(d) > 0
  BY <1>1, <1>2 DEF Tidy
<1>4. d[1] # ".."
  <2> SUFFICES ASSUME d[1] = ".." PROVE StartsWith(d, <<"..">>)
    BY <1>2
  <2>1. SubSeq(d, 1, 1) = [i \in 1..1 |-> d[i]]
    BY <1>3
  <2>2. SubSeq(<<"..">>, 1, 1) = [i \in 1..1 |-> ".."] /\ Len(<<"..">>) = 1
    OBVIOUS
  <2> QED
    BY <1>3, <2>1, <2>2 DEF StartsWith, IsPrefix
<1>5. \A i \in 1..Len(d) : d[i] \in N
  <2>1. \A i \in 1..Len(d) : 1 \in 1..i
    OBVIOUS
  <2> QED
    BY <1>1, <1>4, <2>1 DEF Tidy
<1>6. d \in Seq(N)
  BY <1>3, <1>5
<1> QED
  BY <1>2, <1>6 DEF d

\* Names below a root stay below what the root is resolved to.
LEMMA ResolvedBelow ==
  ASSUME NEW root \in Seq(Component), NEW b \in Seq(Name)
  PROVE  Resolved(root \o b) = Resolved(root) \o b
<1> DEFINE P(k) == SubSeq(b, 1, k)
           T == {k \in Nat : k <= Len(b) => Resolved(root \o P(k)) = Resolved(root) \o P(k)}
<1>0. Resolved(root) \in Seq(Component) /\ b \in Seq(Component)
  BY ResolvedType DEF Component
<1>1. 0 \in T
  <2>1. P(0) = <<>>
    BY <1>0
  <2>2. root \o <<>> = root /\ Resolved(root) \o <<>> = Resolved(root)
    BY <1>0
  <2> QED
    BY <2>1, <2>2
<1>2. ASSUME NEW k \in T PROVE k + 1 \in T
  <2> SUFFICES ASSUME k + 1 <= Len(b)
               PROVE  Resolved(root \o P(k + 1)) = Resolved(root) \o P(k + 1)
    OBVIOUS
  <2>1. k \in Nat /\ k <= Len(b) /\ b[k + 1] \in Name /\ P(k) \in Seq(Component) /\ Len(P(k)) = k
    BY <1>0
  <2>2. P(k + 1) = Append(P(k), b[k + 1])
    BY <1>0, <2>1
  <2> HIDE DEF P
  <2>3. b[k + 1] \in Component /\ b[k + 1] \notin Special
    BY <2>1, NameAssumption DEF Component
  <2>4. root \o P(k) \in Seq(Component) /\ Resolved(root) \o P(k) \in Seq(Component)
    BY <1>0, <2>1
  <2>5. /\ root \o P(k + 1) = Append(root \o P(k), b[k + 1])
        /\ Resolved(root) \o P(k + 1) = Append(Resolved(root) \o P(k), b[k + 1])
    <3>1. root \o Append(P(k), b[k + 1]) = Append(root \o P(k), b[k + 1])
      BY <2>1, <2>3, CatAppend
    <3>2. Resolved(root) \o Append(P(k), b[k + 1]) = Append(Resolved(root) \o P(k), b[k + 1])
      BY <1>0, <2>1, <2>3, CatAppend
    <3> QED
      BY <2>2, <3>1, <3>2
  <2>6. Resolved(root \o P(k + 1)) = Resolve(Resolved(root \o P(k)), b[k + 1])
    BY <2>3, <2>4, <2>5, ResolvedAppend
  <2>7. \A d : Resolve(d, b[k + 1]) = Append(d, b[k + 1])
    BY <2>3 DEF Resolve, Special
  <2> QED
    BY <2>1, <2>5, <2>6, <2>7
<1>3. Len(b) \in T
  <2>1. T \in SUBSET Nat /\ Len(b) \in Nat
    OBVIOUS
  <2> HIDE DEF T
  <2> QED
    BY <1>1, <1>2, <2>1, NatInduct
<1>4. P(Len(b)) = b /\ Len(b) \in Nat
  BY <1>0
<1>5. Resolved(root \o P(Len(b))) = Resolved(root) \o P(Len(b))
  BY <1>3, <1>4
<1> QED
  BY <1>4, <1>5
=============================================================================
