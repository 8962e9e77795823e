--------------------------- MODULE FileHandle_proofs ---------------------------
(* Proofs about FileHandle, for every finite set of handles and any names. *)
EXTENDS FileHandle, SequenceTheorems, WellFoundedInduction, FiniteSetTheorems, TLAPS

(* The first elements of a concatenation are those of its first part. *)
LEMMA JoinedElements ==
  ASSUME NEW S, NEW a \in Seq(S), NEW b \in Seq(S)
  PROVE  /\ a \o b \in Seq(S)
         /\ Len(a \o b) = Len(a) + Len(b)
         /\ \A k \in 1 .. Len(a) : (a \o b)[k] = a[k]
         /\ \A k \in 1 .. Len(b) : (a \o b)[Len(a) + k] = b[k]
  OBVIOUS

(* The elements and the length of a slice. *)
LEMMA SliceElements ==
  ASSUME NEW S, NEW s \in Seq(S), NEW m \in Nat, NEW n \in Nat,
         1 <= m, m <= n + 1, n <= Len(s)
  PROVE  /\ SubSeq(s, m, n) \in Seq(S)
         /\ Len(SubSeq(s, m, n)) = n - m + 1
         /\ \A k \in 1 .. n - m + 1 : SubSeq(s, m, n)[k] = s[m + k - 1]
  OBVIOUS

(* A vector without its last element. *)
LEMMA FrontElements ==
  ASSUME NEW S, NEW s \in Seq(S), Len(s) > 0
  PROVE  /\ Front(s) \in Seq(S)
         /\ Len(Front(s)) = Len(s) - 1
         /\ \A k \in 1 .. Len(s) - 1 : Front(s)[k] = s[k]
  <1>1. PICK n \in Nat : n = Len(s) - 1
    OBVIOUS
  <1> QED BY <1>1 DEF Front

(* The smallest of some numbers. *)
LEMMA Smallest ==
  ASSUME NEW D, D \subseteq Nat, D # {}
  PROVE  \E x \in D : \A y \in D : x <= y
  <1> DEFINE R == {p \in Nat \X Nat : p[1] < p[2]}
  <1>1. IsWellFoundedOn(R, Nat)
    BY NatLessThanWellFounded DEF OpToRel
  <1>2. \A x, y \in Nat : ~(<<y, x>> \in R) => x <= y
    OBVIOUS
  <1> HIDE DEF R
  <1>3. \E x \in D : \A y \in D : ~(<<y, x>> \in R)
    BY <1>1, WFMin
  <1> QED BY <1>2, <1>3

(* A vector, and the same after a push. *)
LEMMA AppendFront ==
  ASSUME NEW S, NEW s \in Seq(S), NEW x \in S
  PROVE  /\ Append(s, x) \in Seq(S) /\ Append(s, x) # << >>
         /\ Front(Append(s, x)) = s /\ Last(Append(s, x)) = x
  BY DEF Front, Last

(* A vector is its front and its last element. *)
LEMMA FrontAppend ==
  ASSUME NEW S, NEW s \in Seq(S), s # << >>
  PROVE  /\ Front(s) \in Seq(S) /\ Last(s) \in S
         /\ Append(Front(s), Last(s)) = s
         /\ Len(s) > 0 /\ Len(Front(s)) = Len(s) - 1
  <1>1. Len(s) \in Nat /\ Len(s) > 0 /\ Last(s) = s[Len(s)] /\ Last(s) \in S
    BY DEF Last
  <1>2. PICK f \in Seq(S) : /\ f = Front(s) /\ Len(f) = Len(s) - 1
                            /\ \A k \in 1 .. Len(s) - 1 : f[k] = s[k]
    BY <1>1, FrontElements
  <1> QED BY <1>1, <1>2

(* What begins a sequence begins it with one more element, too. *)
LEMMA PrefixAppend ==
  ASSUME NEW S, NEW s \in Seq(S), NEW t \in Seq(S), NEW x \in S
  PROVE  /\ IsPrefix(s, s)
         /\ IsPrefix(s, t) => IsPrefix(s, Append(t, x))
  BY DEF IsPrefix

(* What begins the beginning begins the whole. *)
LEMMA PrefixTransitive ==
  ASSUME NEW S, NEW s \in Seq(S), NEW t \in Seq(S), NEW u \in Seq(S),
         IsPrefix(s, t), IsPrefix(t, u)
  PROVE  IsPrefix(s, u)
  BY DEF IsPrefix

-----------------------------------------------------------------------------
(* Sums over a function on a finite set.  SumFunction folds by a recursive  *)
(* function on the subsets of the domain; what is needed of it follows from *)
(* a smallest subset for which it would be wrong.                           *)

Picked(s) == CHOOSE x \in s : TRUE

(* g is that recursive function, for f on S. *)
Totals(g, f, S) ==
  g = [s \in SUBSET S |-> IF s = {} THEN 0 ELSE f[Picked(s)] + g[s \ {Picked(s)}]]

(* A smallest of some subsets. *)
LEMMA SmallestSubset ==
  ASSUME NEW S, IsFiniteSet(S), NEW T, T \subseteq SUBSET S, T # {}
  PROVE  \E x \in T : \A y \in T : Cardinality(x) <= Cardinality(y)
  <1> DEFINE N == {Cardinality(x) : x \in T}
  <1>1. \A x \in T : IsFiniteSet(x) /\ Cardinality(x) \in Nat
    BY FS_Subset, FS_CardinalityType
  <1>2. N \subseteq Nat /\ N # {}
    BY <1>1
  <1>3. PICK n \in N : \A k \in N : n <= k
    <2> HIDE DEF N
    <2> QED BY <1>2, Smallest
  <1> QED BY <1>3

(* A set without one of its elements. *)
LEMMA WithoutAny ==
  ASSUME NEW S, IsFiniteSet(S), NEW s \in SUBSET S, s # {}
  PROVE  /\ Picked(s) \in s /\ s \ {Picked(s)} \in SUBSET S
         /\ IsFiniteSet(s) /\ Cardinality(s) \in Nat
         /\ Cardinality(s \ {Picked(s)}) \in Nat
         /\ Cardinality(s \ {Picked(s)}) = Cardinality(s) - 1
  <1>1. Picked(s) \in s
    BY DEF Picked
  <1>2. IsFiniteSet(s) /\ Cardinality(s) \in Nat
    BY FS_Subset, FS_CardinalityType
  <1>3. /\ IsFiniteSet(s \ {Picked(s)})
        /\ Cardinality(s \ {Picked(s)}) = Cardinality(s) - 1
    BY <1>1, <1>2, FS_RemoveElement
  <1>4. Cardinality(s \ {Picked(s)}) \in Nat
    BY <1>3, FS_CardinalityType
  <1> QED BY <1>1, <1>2, <1>3, <1>4

(* The recursive function is defined. *)
LEMMA TotalsExist ==
  ASSUME NEW S, IsFiniteSet(S), NEW f \in [S -> Nat]
  PROVE  \E g : Totals(g, f, S)
  <1> DEFINE Sub(n) == {s \in SUBSET S : Cardinality(s) <= n}
             Part(g, n) == \A s \in Sub(n) :
               g[s] = IF s = {} THEN 0 ELSE f[Picked(s)] + g[s \ {Picked(s)}]
             Q(n) == \E g : g = [s \in Sub(n) |-> g[s]] /\ Part(g, n)
             T == {n \in Nat : ~Q(n)}
  <1>1. T = {}
    <2> SUFFICES ASSUME T # {} PROVE FALSE
      OBVIOUS
    <2>1. PICK m \in T : \A k \in T : m <= k
      <3>1. T \subseteq Nat
        OBVIOUS
      <3> HIDE DEF T
      <3> QED BY <3>1, Smallest
    <2>2. CASE m = 0
      <3> DEFINE g == [s \in Sub(0) |-> 0]
      <3>1. \A s \in Sub(0) : s = {}
        <4> SUFFICES ASSUME NEW s \in SUBSET S, Cardinality(s) <= 0 PROVE s = {}
          OBVIOUS
        <4>1. IsFiniteSet(s) /\ Cardinality(s) \in Nat
          BY FS_Subset, FS_CardinalityType
        <4> QED BY <4>1, FS_EmptySet
      <3>2. g = [s \in Sub(0) |-> g[s]] /\ Part(g, 0)
        BY <3>1
      <3> QED BY <2>1, <2>2, <3>2
    <2>3. CASE m # 0
      <3> DEFINE n == m - 1
      <3>1. n \in Nat /\ n + 1 = m /\ n \notin T
        <4>1. m \in Nat /\ n \in Nat /\ n + 1 = m /\ ~(m <= n)
          BY <2>3
        <4> HIDE DEF T, n
        <4> QED BY <2>1, <4>1
      <3>2. PICK g : g = [s \in Sub(n) |-> g[s]] /\ Part(g, n)
        BY <3>1
      <3> DEFINE h == [s \in Sub(m) |->
                         IF s = {} THEN 0 ELSE f[Picked(s)] + g[s \ {Picked(s)}]]
      <3>3. \A s \in Sub(n) : s \in Sub(m) /\ h[s] = g[s]
        <4> SUFFICES ASSUME NEW s \in Sub(n) PROVE s \in Sub(m) /\ h[s] = g[s]
          OBVIOUS
        <4>1. Cardinality(s) \in Nat
          BY FS_Subset, FS_CardinalityType
        <4>2. s \in Sub(m)
          BY <3>1, <4>1
        <4> QED BY <3>2, <4>2
      <3>4. \A s \in Sub(m) : s # {} => s \ {Picked(s)} \in Sub(n)
        BY <3>1, WithoutAny
      <3>5. \A s \in Sub(m) : s # {} => h[s \ {Picked(s)}] = g[s \ {Picked(s)}]
        BY <3>3, <3>4
      <3>6. h = [s \in Sub(m) |-> h[s]] /\ Part(h, m)
        BY <3>5
      <3> QED BY <2>1, <3>6
    <2> QED BY <2>2, <2>3
  <1>2. Cardinality(S) \in Nat /\ Sub(Cardinality(S)) = SUBSET S
    BY FS_Subset, FS_CardinalityType
  <1>3. PICK g : /\ g = [s \in Sub(Cardinality(S)) |-> g[s]]
                 /\ Part(g, Cardinality(S))
    BY <1>1, <1>2
  <1>4. Totals(g, f, S)
    BY <1>2, <1>3 DEF Totals
  <1> QED BY <1>4

(* SumFunction is that function, taken at the whole domain. *)
LEMMA SumIsTotal ==
  ASSUME NEW S, IsFiniteSet(S), NEW f \in [S -> Nat]
  PROVE  \E g : Totals(g, f, S) /\ SumFunction(f) = g[S]
  <1> DEFINE g == CHOOSE h : Totals(h, f, S)
  <1>1. Totals(g, f, S)
    BY TotalsExist
  <1>2. SumFunction(f) = g[S]
    BY DEF SumFunction, SumFunctionOnSet, FoldFunctionOnSet, MapThenFoldSet,
       Totals, Picked
  <1> QED BY <1>1, <1>2

(* What the recursion gives at every subset. *)
LEMMA TotalsAt ==
  ASSUME NEW S, IsFiniteSet(S), NEW f \in [S -> Nat], NEW g, Totals(g, f, S)
  PROVE  /\ g[{}] = 0
         /\ \A s \in SUBSET S : s # {} => g[s] = f[Picked(s)] + g[s \ {Picked(s)}]
         /\ \A s \in SUBSET S : g[s] \in Nat
         /\ (\A x \in S : f[x] = 0) => \A s \in SUBSET S : g[s] = 0
  <1>1. /\ g[{}] = 0
        /\ \A s \in SUBSET S : s # {} => g[s] = f[Picked(s)] + g[s \ {Picked(s)}]
    BY DEF Totals
  <1>2. ASSUME NEW T, T = {s \in SUBSET S : g[s] \notin Nat}
        PROVE  T = {}
    <2> SUFFICES ASSUME T # {} PROVE FALSE
      OBVIOUS
    <2>1. PICK s \in T : \A y \in T : Cardinality(s) <= Cardinality(y)
      BY <1>2, SmallestSubset
    <2>2. s \in SUBSET S /\ s # {} /\ g[s] \notin Nat
      BY <1>1, <1>2
    <2>3. /\ Picked(s) \in s /\ s \ {Picked(s)} \in SUBSET S
          /\ Cardinality(s) \in Nat
          /\ Cardinality(s \ {Picked(s)}) = Cardinality(s) - 1
      BY <2>2, WithoutAny
    <2>4. s \ {Picked(s)} \notin T
      BY <2>1, <2>3
    <2>5. g[s \ {Picked(s)}] \in Nat
      BY <1>2, <2>3, <2>4
    <2>6. f[Picked(s)] \in Nat
      BY <2>2, <2>3
    <2>7. g[s] = f[Picked(s)] + g[s \ {Picked(s)}]
      BY <1>1, <2>2
    <2> QED BY <2>2, <2>5, <2>6, <2>7
  <1>3. ASSUME \A x \in S : f[x] = 0,
               NEW T, T = {s \in SUBSET S : g[s] # 0}
        PROVE  T = {}
    <2> SUFFICES ASSUME T # {} PROVE FALSE
      OBVIOUS
    <2>1. PICK s \in T : \A y \in T : Cardinality(s) <= Cardinality(y)
      BY <1>3, SmallestSubset
    <2>2. s \in SUBSET S /\ s # {} /\ g[s] # 0
      BY <1>1, <1>3
    <2>3. /\ Picked(s) \in s /\ s \ {Picked(s)} \in SUBSET S
          /\ Cardinality(s) \in Nat
          /\ Cardinality(s \ {Picked(s)}) = Cardinality(s) - 1
      BY <2>2, WithoutAny
    <2>4. g[s \ {Picked(s)}] = 0
      <3>1. s \ {Picked(s)} \notin T
        BY <2>1, <2>3
      <3> QED BY <1>3, <2>3, <3>1
    <2>5. f[Picked(s)] = 0
      BY <1>3, <2>2, <2>3
    <2>6. g[s] = f[Picked(s)] + g[s \ {Picked(s)}]
      BY <1>1, <2>2
    <2>7. g[s] = 0 + 0
      BY <2>4, <2>5, <2>6
    <2> QED BY <2>2, <2>7
  <1>4. \A s \in SUBSET S : g[s] \in Nat
    <2>1. {s \in SUBSET S : g[s] \notin Nat} = {}
      BY <1>2
    <2> QED BY <2>1
  <1>5. ASSUME \A x \in S : f[x] = 0
        PROVE  \A s \in SUBSET S : g[s] = 0
    <2>1. {s \in SUBSET S : g[s] # 0} = {}
      BY <1>3, <1>5
    <2> QED BY <2>1
  <1> QED BY <1>1, <1>4, <1>5

(* A changed value changes the sums it is part of, and by as much. *)
LEMMA TotalsChange ==
  ASSUME NEW S, IsFiniteSet(S), NEW f \in [S -> Nat], NEW h \in [S -> Nat],
         NEW x \in S, \A y \in S : y # x => h[y] = f[y],
         NEW g, Totals(g, f, S), NEW k, Totals(k, h, S)
  PROVE  \A s \in SUBSET S :
           k[s] = IF x \in s THEN g[s] - f[x] + h[x] ELSE g[s]
  <1> DEFINE Right(s) == k[s] = IF x \in s THEN g[s] - f[x] + h[x] ELSE g[s]
             T == {s \in SUBSET S : ~Right(s)}
  <1> SUFFICES ASSUME T # {} PROVE FALSE
    OBVIOUS
  <1>1. /\ g[{}] = 0 /\ k[{}] = 0
        /\ \A s \in SUBSET S : s # {} => /\ g[s] = f[Picked(s)] + g[s \ {Picked(s)}]
                                         /\ k[s] = h[Picked(s)] + k[s \ {Picked(s)}]
        /\ \A s \in SUBSET S : g[s] \in Nat /\ k[s] \in Nat
    BY TotalsAt
  <1>2. PICK s \in T : \A y \in T : Cardinality(s) <= Cardinality(y)
    <2>1. T \subseteq SUBSET S
      OBVIOUS
    <2> HIDE DEF T
    <2> QED BY <2>1, SmallestSubset
  <1>3. s \in SUBSET S /\ s # {} /\ ~Right(s)
    BY <1>1
  <1> DEFINE a == Picked(s)
             t == s \ {a}
  <1>4. /\ a \in s /\ a \in S /\ t \in SUBSET S /\ Cardinality(s) \in Nat
        /\ Cardinality(t) = Cardinality(s) - 1
        /\ g[s] = f[a] + g[t] /\ k[s] = h[a] + k[t]
    BY <1>1, <1>3, WithoutAny
  <1>5. t \notin T
    <2> HIDE DEF T, t
    <2> QED BY <1>2, <1>4
  <1>6. Right(t)
    BY <1>4, <1>5
  <1>7. /\ f[a] \in Nat /\ h[a] \in Nat /\ f[x] \in Nat /\ h[x] \in Nat
        /\ g[t] \in Nat /\ k[t] \in Nat
    BY <1>1, <1>4
  <1>8. CASE a = x
    <2>1. x \notin t /\ x \in s
      BY <1>4, <1>8
    <2>2. k[t] = g[t]
      BY <1>6, <2>1
    <2>3. k[s] = g[s] - f[x] + h[x]
      <3> HIDE DEF a, t
      <3> QED BY <1>4, <1>7, <1>8, <2>2
    <2> QED BY <1>3, <2>1, <2>3
  <1>9. CASE a # x
    <2>1. h[a] = f[a] /\ (x \in t <=> x \in s)
      BY <1>4, <1>9
    <2>2. CASE x \in s
      <3>1. k[t] = g[t] - f[x] + h[x]
        BY <1>6, <2>1, <2>2
      <3>2. k[s] = g[s] - f[x] + h[x]
        <4> HIDE DEF a, t
        <4> QED BY <1>4, <1>7, <2>1, <3>1
      <3> QED BY <1>3, <2>2, <3>2
    <2>3. CASE x \notin s
      <3>1. k[t] = g[t]
        BY <1>6, <2>1, <2>3
      <3>2. k[s] = g[s]
        <4> HIDE DEF a, t
        <4> QED BY <1>4, <1>7, <2>1, <3>1
      <3> QED BY <1>3, <2>3, <3>2
    <2> QED BY <2>2, <2>3
  <1> QED BY <1>8, <1>9

(* A sum, its parts, and its change. *)
LEMMA Sums ==
  ASSUME NEW S, IsFiniteSet(S), NEW f \in [S -> Nat]
  PROVE  /\ SumFunction(f) \in Nat
         /\ (\A x \in S : f[x] = 0) => SumFunction(f) = 0
         /\ \A x \in S : f[x] <= SumFunction(f)
         /\ \A x \in S, h \in [S -> Nat] :
              (\A y \in S : y # x => h[y] = f[y])
                => SumFunction(h) = SumFunction(f) - f[x] + h[x]
  <1>1. PICK g : Totals(g, f, S) /\ SumFunction(f) = g[S]
    BY SumIsTotal
  <1>2. /\ SumFunction(f) \in Nat
        /\ (\A x \in S : f[x] = 0) => SumFunction(f) = 0
    BY <1>1, TotalsAt
  <1>3. ASSUME NEW x \in S, NEW h \in [S -> Nat],
               \A y \in S : y # x => h[y] = f[y]
        PROVE  SumFunction(h) = SumFunction(f) - f[x] + h[x]
    <2>1. PICK k : Totals(k, h, S) /\ SumFunction(h) = k[S]
      BY SumIsTotal
    <2>2. k[S] = g[S] - f[x] + h[x]
      BY <1>1, <1>3, <2>1, TotalsChange
    <2> QED BY <1>1, <2>1, <2>2
  <1>4. ASSUME NEW x \in S
        PROVE  f[x] <= SumFunction(f)
    <2> DEFINE h == [f EXCEPT ![x] = 0]
    <2>1. h \in [S -> Nat] /\ h[x] = 0 /\ \A y \in S : y # x => h[y] = f[y]
      OBVIOUS
    <2> HIDE DEF h
    <2>2. SumFunction(h) = SumFunction(f) - f[x] + 0
      BY <1>3, <2>1
    <2>3. PICK k : Totals(k, h, S) /\ SumFunction(h) = k[S]
      BY <2>1, SumIsTotal
    <2>4. SumFunction(h) \in Nat
      BY <2>1, <2>3, TotalsAt
    <2>5. f[x] \in Nat
      OBVIOUS
    <2> QED BY <1>2, <2>2, <2>4, <2>5
  <1> QED BY <1>2, <1>3, <1>4

-----------------------------------------------------------------------------
(* The tree and the calls.  TypeOK is not inductive: that made has its range *)
(* rests on the accounting, and what a call does to the tree on the          *)
(* directories of the calls that have begun.                                *)

Path == Seq(Seq(STRING))
CallRecord == [dir : Path, files : SUBSET Seq(STRING),
               directories : SUBSET (Seq(STRING) \cup {Dot, DotDot})]

(* Every entry lies in a directory that is there; directories have names    *)
(* that clients use, none of them "." or "..".                              *)
TreeSound ==
  /\ files \cap dirs = {} /\ << >> \notin Entries
  /\ \A p \in Entries : p \in Path /\ IsDir(Front(p))
  /\ \A p \in dirs : Last(p) \in Name

StateTypes ==
  /\ alive \in BOOLEAN
  /\ path \in [Handle -> Seq(Name)]
  /\ deletedFiles \in [Handle -> Nat] /\ deletedDirectories \in [Handle -> Nat]
  /\ cancel \in [Handle -> BOOLEAN] /\ touched \in [Handle -> BOOLEAN]
  /\ stack \in [Handle -> Seq(CallRecord)]

(* A handle's calls work below the directory it was told to delete; between *)
(* two deletions no error is kept.                                          *)
CallsSound ==
  \A h \in Handle :
    /\ \A i \in 1 .. Len(stack[h]) : IsPrefix(Target(h), stack[h][i].dir)
    /\ ~Deleting(h) => ~cancel[h]

TreeInv == StateTypes /\ TreeSound /\ CallsSound

(* The names that clients use are names. *)
LEMMA Paths ==
  ASSUME NEW d \in Seq(Name), NEW n \in Name
  PROVE  d \in Path /\ n \in Seq(STRING) /\ Append(d, n) \in Path
         /\ Append(d, n) \in Seq(Name)
         /\ Append(d, n) # << >> /\ Front(Append(d, n)) = d
         /\ Last(Append(d, n)) = n
  <1>1. \A x \in Name : x \in Seq(STRING)
    BY NameAssumption
  <1>2. d \in Path
    BY <1>1 DEF Path
  <1> QED BY <1>1, <1>2, AppendFront DEF Path

(* What is listed in a directory. *)
LEMMA ChildPaths ==
  ASSUME TreeSound, NEW d \in Path, NEW p \in Children(d)
  PROVE  p \in Path /\ p # << >> /\ Front(p) = d /\ p = Append(d, Last(p))
         /\ Last(p) \in Seq(STRING)
  <1>1. p \in Entries /\ p # << >> /\ Front(p) = d /\ p \in Path
    BY DEF Children, TreeSound
  <1> QED BY <1>1, FrontAppend DEF Path

(* A new file has a directory to lie in. *)
LEMMA MadeFile ==
  ASSUME TreeSound, NEW h \in Handle, NEW p \in Path, p # << >>, MakeFile(h, p)
  PROVE  TreeSound'
  BY DEF TreeSound, MakeFile, Free, Entries, IsDir

LEMMA MadeDir ==
  ASSUME TreeSound, NEW h \in Handle, NEW p \in Path, p # << >>,
         Last(p) \in Name, MakeDir(h, p)
  PROVE  TreeSound'
  BY DEF TreeSound, MakeDir, Free, Entries, IsDir

(* What is removed is a file or a directory in which nothing lies. *)
LEMMA Unlinked ==
  ASSUME TreeSound, NEW h \in Handle, NEW p, Removable(p), Unlink(h, p)
  PROVE  TreeSound'
  <1>1. files' = files \ {p} /\ dirs' = dirs \ {p}
    BY DEF Unlink
  <1>2. ASSUME NEW q \in Entries, q # p
        PROVE  q \in Path /\ (IsDir(Front(q)))'
    <2>1. q \in Path /\ IsDir(Front(q)) /\ q # << >>
      BY DEF TreeSound
    <2>2. Front(q) # p
      BY <2>1 DEF Removable, Empty, Children, TreeSound, IsDir, Entries
    <2> QED BY <1>1, <2>1, <2>2 DEF IsDir
  <1>3. \A q \in Entries' : q \in Entries /\ q # p
    BY <1>1 DEF Entries
  <1> QED BY <1>1, <1>2, <1>3 DEF TreeSound, Entries

(* What a call sees of its directory. *)
LEMMA CallTypes ==
  ASSUME TreeSound, NEW h \in Handle, NEW d \in Path
  PROVE  Call(h, d) \in CallRecord /\ Call(h, d).dir = d
  <1>1. \A p \in Children(d) : Last(p) \in Seq(STRING)
    BY ChildPaths
  <1>2. /\ Browse(h, d).files \subseteq Seq(STRING)
        /\ Browse(h, d).directories \subseteq Seq(STRING) \cup {Dot, DotDot}
    BY <1>1 DEF Browse
  <1> QED BY <1>2 DEF Call, CallRecord

(* The call on top of a stack, after something was struck off its list. *)
LEMMA TopTypes ==
  ASSUME TreeInv, NEW h \in Handle, Deleting(h)
  PROVE  /\ stack[h] \in Seq(CallRecord) /\ Len(stack[h]) \in Nat
         /\ Len(stack[h]) > 0 /\ Len(stack[h]) \in 1 .. Len(stack[h])
         /\ Top(h) = stack[h][Len(stack[h])] /\ Top(h) \in CallRecord
         /\ Target(h) = stack[h][1].dir /\ Target(h) \in Path
         /\ Top(h).dir \in Path /\ IsPrefix(Target(h), Top(h).dir)
         /\ Front(stack[h]) \in Seq(CallRecord)
         /\ Len(Front(stack[h])) = Len(stack[h]) - 1
         /\ \A i \in 1 .. Len(stack[h]) - 1 : Front(stack[h])[i] = stack[h][i]
  <1> DEFINE s == stack[h]
  <1>1. s \in Seq(CallRecord) /\ s # << >>
    BY DEF TreeInv, StateTypes, Deleting
  <1> HIDE DEF s
  <1>2. Len(s) \in Nat /\ Len(s) > 0 /\ Len(s) \in 1 .. Len(s)
    BY <1>1
  <1>3. Last(s) = s[Len(s)] /\ Head(s) = s[1] /\ s[1] \in CallRecord
        /\ s[Len(s)] \in CallRecord
    BY <1>1, <1>2 DEF Last
  <1>4. \A r \in CallRecord : r.dir \in Path
    BY DEF CallRecord
  <1>5. /\ Front(s) \in Seq(CallRecord) /\ Len(Front(s)) = Len(s) - 1
        /\ \A i \in 1 .. Len(s) - 1 : Front(s)[i] = s[i]
    BY <1>1, <1>2, FrontElements
  <1>6. IsPrefix(Target(h), s[Len(s)].dir)
    BY <1>2 DEF s, TreeInv, CallsSound
  <1> QED BY <1>1, <1>2, <1>3, <1>4, <1>5, <1>6 DEF s, Top, Target

(* A stack whose top call is replaced by calls below the same directory. *)
LEMMA Replaced ==
  ASSUME TreeInv, NEW h \in Handle, Deleting(h),
         NEW new \in Seq(CallRecord),
         \A i \in 1 .. Len(new) : IsPrefix(Top(h).dir, new[i].dir),
         new # << >> => new[1].dir = Top(h).dir,
         stack' = [stack EXCEPT ![h] = Front(stack[h]) \o new]
  PROVE  /\ stack' \in [Handle -> Seq(CallRecord)]
         /\ \A g \in Handle : g # h => stack'[g] = stack[g]
         /\ Len(stack'[h]) = Len(stack[h]) - 1 + Len(new)
         /\ \A i \in 1 .. Len(stack[h]) - 1 : stack'[h][i] = stack[h][i]
         /\ \A i \in 1 .. Len(new) : stack'[h][Len(stack[h]) - 1 + i] = new[i]
         /\ stack'[h] # << >> => Target(h)' = Target(h)
         /\ \A i \in 1 .. Len(stack'[h]) :
              IsPrefix(Target(h), stack'[h][i].dir)
  <1> DEFINE f == Front(stack[h])
             s == f \o new
             n == Len(stack[h])
  <1>1. /\ f \in Seq(CallRecord) /\ n \in Nat /\ n > 0 /\ Len(f) = n - 1
        /\ \A i \in 1 .. n - 1 : f[i] = stack[h][i]
        /\ Top(h) = stack[h][n] /\ Target(h) = stack[h][1].dir
        /\ Target(h) \in Path /\ Top(h).dir \in Path
        /\ IsPrefix(Target(h), Top(h).dir)
    BY TopTypes
  <1>2. /\ s \in Seq(CallRecord) /\ Len(s) = n - 1 + Len(new)
        /\ \A i \in 1 .. n - 1 : s[i] = f[i]
        /\ \A i \in 1 .. Len(new) : s[n - 1 + i] = new[i]
    <2>1. /\ f \o new \in Seq(CallRecord) /\ Len(f \o new) = Len(f) + Len(new)
          /\ \A k \in 1 .. Len(f) : (f \o new)[k] = f[k]
          /\ \A k \in 1 .. Len(new) : (f \o new)[Len(f) + k] = new[k]
      <3>1. f \in Seq(CallRecord) /\ new \in Seq(CallRecord)
        BY <1>1
      <3> HIDE DEF f
      <3>2. \A a, b \in Seq(CallRecord) :
              /\ a \o b \in Seq(CallRecord) /\ Len(a \o b) = Len(a) + Len(b)
              /\ \A k \in 1 .. Len(a) : (a \o b)[k] = a[k]
              /\ \A k \in 1 .. Len(b) : (a \o b)[Len(a) + k] = b[k]
        BY JoinedElements
      <3> QED BY <3>1, <3>2
    <2> HIDE DEF f, n
    <2> QED BY <1>1, <2>1
  <1>3. stack \in [Handle -> Seq(CallRecord)]
    BY DEF TreeInv, StateTypes
  <1>4. \A i \in 1 .. n - 1 : IsPrefix(Target(h), stack[h][i].dir)
    BY <1>1 DEF TreeInv, CallsSound
  <1>5. stack' = [stack EXCEPT ![h] = s]
    OBVIOUS
  <1> HIDE DEF f, n, s
  <1>6. /\ stack' \in [Handle -> Seq(CallRecord)] /\ stack'[h] = s
        /\ \A g \in Handle : g # h => stack'[g] = stack[g]
    BY <1>2, <1>3, <1>5
  <1>7. ASSUME s # << >>
        PROVE  Head(s).dir = Target(h)
    <2>0. Head(s) = s[1] /\ Len(s) > 0
      BY <1>2, <1>7
    <2>1. CASE n > 1
      <3>1. 1 \in 1 .. n - 1
        BY <1>1, <2>1
      <3> QED BY <1>1, <1>2, <2>0, <3>1
    <2>2. CASE n = 1
      <3>1. Len(new) > 0 /\ Len(new) \in Nat
        BY <1>2, <2>0, <2>2
      <3>2. 1 \in 1 .. Len(new) /\ n - 1 + 1 = 1 /\ new # << >>
        BY <2>2, <3>1
      <3>3. s[1] = new[1]
        BY <1>2, <3>2
      <3> QED BY <1>1, <2>0, <2>2, <3>2, <3>3
    <2> QED BY <1>1, <2>1, <2>2
  <1>8. ASSUME NEW i \in 1 .. Len(s)
        PROVE  IsPrefix(Target(h), s[i].dir)
    <2>1. CASE i <= n - 1
      <3>1. i \in 1 .. n - 1
        BY <1>1, <2>1
      <3> QED BY <1>1, <1>2, <1>4, <3>1
    <2>2. CASE i > n - 1
      <3> DEFINE j == i - (n - 1)
      <3>1. j \in 1 .. Len(new) /\ n - 1 + j = i
        BY <1>1, <1>2, <2>2
      <3> HIDE DEF j
      <3>2. s[i] = new[j] /\ new[j].dir \in Path
        <4>1. s[i] = new[j]
          BY <1>2, <3>1
        <4>2. new[j] \in CallRecord
          BY <3>1
        <4> QED BY <4>1, <4>2 DEF CallRecord
      <3>3. IsPrefix(Top(h).dir, s[i].dir) /\ s[i].dir \in Path
        BY <3>1, <3>2
      <3> QED BY <1>1, <3>3, PrefixTransitive DEF Path
    <2> QED BY <1>1, <1>2, <2>1, <2>2
  <1> QED BY <1>1, <1>2, <1>6, <1>7, <1>8 DEF Target, n

(* A call with one name struck off. *)
Struck(r, field, n) == [r EXCEPT ![field] = @ \ {n}]

LEMMA StruckOff ==
  ASSUME NEW r \in CallRecord, NEW n
  PROVE  /\ Struck(r, "files", n) \in CallRecord
         /\ Struck(r, "files", n).dir = r.dir
         /\ Struck(r, "files", n).files = r.files \ {n}
         /\ Struck(r, "files", n).directories = r.directories
         /\ Struck(r, "directories", n) \in CallRecord
         /\ Struck(r, "directories", n).dir = r.dir
         /\ Struck(r, "directories", n).files = r.files
         /\ Struck(r, "directories", n).directories = r.directories \ {n}
  BY DEF CallRecord, Struck

(* Steps that are no part of a deletion leave the calls alone. *)
LEMMA CallsKept ==
  ASSUME TreeInv, UNCHANGED callVars
  PROVE  CallsSound' /\ stack' \in [Handle -> Seq(CallRecord)]
         /\ cancel' \in [Handle -> BOOLEAN]
  BY DEF TreeInv, StateTypes, CallsSound, callVars, Target, Deleting

(* Steps of a deletion leave a sound stack. *)
LEMMA CallsReplaced ==
  ASSUME TreeInv, NEW h \in Handle, Deleting(h),
         NEW new \in Seq(CallRecord),
         \A i \in 1 .. Len(new) : IsPrefix(Top(h).dir, new[i].dir),
         new # << >> => new[1].dir = Top(h).dir,
         stack' = [stack EXCEPT ![h] = Front(stack[h]) \o new],
         \A g \in Handle : g # h => cancel'[g] = cancel[g],
         stack'[h] = << >> => ~cancel'[h]
  PROVE  CallsSound' /\ stack' \in [Handle -> Seq(CallRecord)]
  <1>1. /\ stack' \in [Handle -> Seq(CallRecord)]
        /\ \A g \in Handle : g # h => stack'[g] = stack[g]
        /\ stack'[h] # << >> => Target(h)' = Target(h)
        /\ \A i \in 1 .. Len(stack'[h]) :
              IsPrefix(Target(h), stack'[h][i].dir)
    BY Replaced
  <1>2. ASSUME NEW i \in 1 .. Len(stack'[h])
        PROVE  IsPrefix(Target(h)', stack'[h][i].dir)
    <2>1. stack'[h] # << >>
      BY <1>2
    <2> QED BY <1>1, <1>2, <2>1
  <1>3. ASSUME NEW g \in Handle, g # h
        PROVE  /\ \A i \in 1 .. Len(stack'[g]) :
                    IsPrefix(Target(g)', stack'[g][i].dir)
               /\ stack'[g] = << >> => ~cancel'[g]
    <2>1. stack'[g] = stack[g] /\ cancel'[g] = cancel[g]
      BY <1>1, <1>3
    <2>2. /\ \A i \in 1 .. Len(stack[g]) : IsPrefix(Target(g), stack[g][i].dir)
          /\ stack[g] = << >> => ~cancel[g]
      BY DEF TreeInv, CallsSound, Deleting
    <2> QED BY <2>1, <2>2 DEF Target
  <1> QED BY <1>1, <1>2, <1>3 DEF CallsSound, Deleting

(* A path is below itself and above what is in it. *)
LEMMA Below ==
  ASSUME NEW d \in Path, NEW n \in Seq(STRING)
  PROVE  IsPrefix(d, d) /\ Append(d, n) \in Path /\ IsPrefix(d, Append(d, n))
         /\ Append(d, n) # << >> /\ Front(Append(d, n)) = d
         /\ Last(Append(d, n)) = n
  BY PrefixAppend, AppendFront DEF Path

(* What striking a name off does to the stack: one call is changed. *)
LEMMA Forgotten ==
  ASSUME TreeInv, NEW h \in Handle, Deleting(h),
         NEW field \in {"files", "directories"}, NEW n, Forget(h, field, n)
  PROVE  /\ Struck(Top(h), field, n) \in CallRecord
         /\ Struck(Top(h), field, n).dir = Top(h).dir
         /\ stack' = [stack EXCEPT ![h] =
                        Front(stack[h]) \o << Struck(Top(h), field, n) >>]
         /\ stack'[h] # << >>
  <1> DEFINE r == Struck(Top(h), field, n)
  <1>1. r \in CallRecord /\ r.dir = Top(h).dir
    <2>1. Top(h) \in CallRecord
      BY TopTypes
    <2>2. CASE field = "files"
      BY <2>1, <2>2, StruckOff
    <2>3. CASE field = "directories"
      BY <2>1, <2>3, StruckOff
    <2> QED BY <2>2, <2>3
  <1>2. stack \in [Handle -> Seq(CallRecord)]
    BY DEF TreeInv, StateTypes
  <1>3. stack' = [stack EXCEPT ![h] = Front(stack[h]) \o << r >>]
    BY <1>2 DEF Forget, Struck
  <1>4. Front(stack[h]) \in Seq(CallRecord)
    BY TopTypes
  <1> HIDE DEF r
  <1>5. Front(stack[h]) \o << r >> # << >>
    <2>1. << r >> \in Seq(CallRecord) /\ Len(<< r >>) = 1
      BY <1>1
    <2>2. \A a, b \in Seq(CallRecord) :
            Len(a \o b) = Len(a) + Len(b) /\ Len(a) \in Nat
      BY JoinedElements
    <2>3. Len(Front(stack[h]) \o << r >>) > 0
      BY <1>4, <2>1, <2>2
    <2> QED BY <2>3
  <1>6. stack'[h] # << >>
    BY <1>2, <1>3, <1>5
  <1> QED BY <1>1, <1>3, <1>6 DEF r

(* A call that goes on to its next name. *)
LEMMA CallsForget ==
  ASSUME TreeInv, NEW h \in Handle, Deleting(h),
         NEW field \in {"files", "directories"}, NEW n, Forget(h, field, n),
         \A g \in Handle : g # h => cancel'[g] = cancel[g]
  PROVE  CallsSound' /\ stack' \in [Handle -> Seq(CallRecord)]
  <1> DEFINE r == Struck(Top(h), field, n)
             new == << r >>
  <1>1. /\ r \in CallRecord /\ r.dir = Top(h).dir
        /\ stack' = [stack EXCEPT ![h] = Front(stack[h]) \o << r >>]
        /\ stack'[h] # << >>
    BY Forgotten
  <1>2. IsPrefix(Top(h).dir, Top(h).dir)
    <2>1. Top(h).dir \in Path /\ << >> \in Seq(STRING)
      BY TopTypes
    <2> QED BY <2>1, Below
  <1> HIDE DEF r
  <1>3. /\ new \in Seq(CallRecord)
        /\ \A i \in 1 .. Len(new) : IsPrefix(Top(h).dir, new[i].dir)
        /\ new # << >> => new[1].dir = Top(h).dir
        /\ stack' = [stack EXCEPT ![h] = Front(stack[h]) \o new]
    BY <1>1, <1>2
  <1> HIDE DEF new
  <1> QED BY <1>1, <1>3, CallsReplaced

-----------------------------------------------------------------------------
(* The invariant, action by action. *)

LEMMA StepWalk ==
  ASSUME TreeInv, NEW h \in Handle, NEW n \in Name,
         ChangeUp(h) \/ ChangeDir(h, n)
  PROVE  TreeInv'
  <1>1. path \in [Handle -> Seq(Name)]
    BY DEF TreeInv, StateTypes
  <1>2. path' \in [Handle -> Seq(Name)]
    <2>1. CASE ChangeUp(h)
      <3>1. Front(path[h]) \in Seq(Name)
        BY <1>1, <2>1, FrontAppend DEF ChangeUp
      <3> QED BY <1>1, <2>1, <3>1 DEF ChangeUp
    <2>2. CASE ChangeDir(h, n)
      BY <1>1, <2>2 DEF ChangeDir
    <2> QED BY <2>1, <2>2
  <1>3. UNCHANGED <<alive, treeVars, listVars, callVars, touched, made>>
    BY DEF ChangeUp, ChangeDir
  <1>4. CallsSound' /\ stack' \in [Handle -> Seq(CallRecord)]
        /\ cancel' \in [Handle -> BOOLEAN]
    BY <1>3, CallsKept
  <1> QED BY <1>2, <1>3, <1>4
          DEF TreeInv, StateTypes, TreeSound, treeVars, listVars, Entries, IsDir

(* Nothing but the tree and the history is changed when an entry is made. *)
LEMMA StepMake ==
  ASSUME TreeInv, NEW h \in Handle, TreeSound', \E p : Touch(h, p),
         UNCHANGED <<alive, path, listVars, callVars>>
  PROVE  TreeInv'
  <1>1. touched' \in [Handle -> BOOLEAN]
    BY DEF Touch
  <1>2. CallsSound' /\ stack' \in [Handle -> Seq(CallRecord)]
        /\ cancel' \in [Handle -> BOOLEAN]
    BY CallsKept
  <1> QED BY <1>1, <1>2 DEF TreeInv, StateTypes, listVars

(* The file opened for writing has a name, and lies in the root. *)
LEMMA StrippedName ==
  ASSUME NEW n \in Name, ~TooShort(n), Stripped(n) # << >>
  PROVE  Stripped(n) \in Seq(STRING)
  <1>1. n \in Seq(STRING) /\ RootString \in Seq(STRING)
    BY NameAssumption
  <1>2. CASE ~Strips(n)
    BY <1>1, <1>2 DEF Stripped
  <1>3. CASE Strips(n)
    <2> DEFINE m == Len(RootString) + 1
               k == Len(n)
    <2>1. m \in Nat /\ k \in Nat /\ 1 <= m /\ m <= k + 1 /\ k <= Len(n)
      BY <1>1, <1>3 DEF TooShort
    <2>2. Stripped(n) = SubSeq(n, m, k)
      BY <1>3 DEF Stripped
    <2> HIDE DEF m, k
    <2> QED BY <1>1, <2>1, <2>2, SliceElements
  <1> QED BY <1>2, <1>3

LEMMA StepCreate ==
  ASSUME TreeInv, NEW h \in Handle, NEW n \in Name,
         CreateDirectory(h, n) \/ CreateFile(h, n) \/ OpenToWrite(h, n)
  PROVE  TreeInv'
  <1> DEFINE p == Append(path[h], n)
             q == << Stripped(n) >>
  <1>1. TreeSound /\ path[h] \in Seq(Name)
    BY DEF TreeInv, StateTypes
  <1>2. p \in Path /\ p # << >> /\ Last(p) = n
    BY <1>1, Paths
  <1>3. CASE CreateDirectory(h, n)
    <2>1. MakeDir(h, p) /\ UNCHANGED <<alive, path, listVars, callVars>>
      BY <1>3 DEF CreateDirectory
    <2> HIDE DEF p
    <2>2. TreeSound' /\ Touch(h, p)
      BY <1>1, <1>2, <2>1, MadeDir DEF MakeDir
    <2> QED BY <2>1, <2>2, StepMake
  <1>4. CASE CreateFile(h, n)
    <2>1. MakeFile(h, p) /\ UNCHANGED <<alive, path, listVars, callVars>>
      BY <1>4 DEF CreateFile
    <2> HIDE DEF p
    <2>2. TreeSound' /\ Touch(h, p)
      BY <1>1, <1>2, <2>1, MadeFile DEF MakeFile
    <2> QED BY <2>1, <2>2, StepMake
  <1>5. CASE OpenToWrite(h, n)
    <2>1. /\ MakeFile(h, q) /\ UNCHANGED <<alive, path, listVars, callVars>>
          /\ Stripped(n) \in Seq(STRING)
      BY <1>5, StrippedName DEF OpenToWrite
    <2>2. q \in Path /\ q # << >>
      BY <2>1 DEF Path
    <2> HIDE DEF q
    <2>3. TreeSound' /\ Touch(h, q)
      BY <1>1, <2>1, <2>2, MadeFile DEF MakeFile
    <2> QED BY <2>1, <2>3, StepMake
  <1> QED BY <1>3, <1>4, <1>5

(* What is left when the process ends. *)
LEMMA StepShort ==
  ASSUME TreeInv, NEW h \in Handle, NEW n \in Name, OpenShort(h, n)
  PROVE  TreeInv'
  <1>1. /\ alive' = FALSE /\ UNCHANGED treeVars
        /\ path' = [g \in Handle |-> << >>] /\ stack' = path'
        /\ deletedFiles' = [g \in Handle |-> 0]
        /\ deletedDirectories' = deletedFiles'
        /\ cancel' = [g \in Handle |-> FALSE] /\ touched' = cancel'
    BY DEF OpenShort, Fresh
  <1>2. << >> \in Seq(Name) /\ << >> \in Seq(CallRecord)
    OBVIOUS
  <1>3. StateTypes'
    BY <1>1, <1>2 DEF StateTypes
  <1>4. TreeSound'
    BY <1>1 DEF TreeInv, TreeSound, treeVars, Entries, IsDir
  <1>5. CallsSound'
    <2>1. \A g \in Handle : stack'[g] = << >> /\ ~cancel'[g]
      BY <1>1
    <2>2. Len(<< >>) = 0
      OBVIOUS
    <2> QED BY <2>1, <2>2 DEF CallsSound
  <1> QED BY <1>3, <1>4, <1>5 DEF TreeInv

LEMMA StepFile ==
  ASSUME TreeInv, NEW h \in Handle, NEW n \in Name, DeleteFile(h, n)
  PROVE  TreeInv'
  <1> DEFINE p == Append(path[h], n)
  <1>1. /\ Removable(p) /\ Unlink(h, p) /\ Listed(deletedFiles, h)
        /\ UNCHANGED <<alive, path, deletedDirectories, callVars, made>>
    BY DEF DeleteFile
  <1> HIDE DEF p
  <1>2. TreeSound'
    BY <1>1, Unlinked DEF TreeInv
  <1>3. touched' \in [Handle -> BOOLEAN]
    BY <1>1 DEF Unlink, Touch
  <1>4. deletedFiles' \in [Handle -> Nat]
    BY <1>1 DEF Listed, TreeInv, StateTypes
  <1>5. CallsSound' /\ stack' \in [Handle -> Seq(CallRecord)]
        /\ cancel' \in [Handle -> BOOLEAN]
    BY <1>1, CallsKept
  <1> QED BY <1>1, <1>2, <1>3, <1>4, <1>5 DEF TreeInv, StateTypes

LEMMA StepClear ==
  ASSUME TreeInv, NEW h \in Handle, ClearLists(h)
  PROVE  TreeInv'
  <1>1. CallsSound' /\ stack' \in [Handle -> Seq(CallRecord)]
        /\ cancel' \in [Handle -> BOOLEAN]
    BY CallsKept DEF ClearLists
  <1>2. StateTypes'
    BY <1>1 DEF ClearLists, TreeInv, StateTypes
  <1>3. TreeSound'
    BY DEF ClearLists, TreeInv, TreeSound, treeVars, Entries, IsDir
  <1> QED BY <1>1, <1>2, <1>3 DEF TreeInv

(* A new call of deleteDirectory, with its listing. *)
LEMMA StepBegin ==
  ASSUME TreeInv, NEW h \in Handle, NEW n \in Name, DeleteDirectory(h, n)
  PROVE  TreeInv'
  <1> DEFINE d == Append(path[h], n)
             c == Call(h, d)
             s == << c >>
  <1>1. /\ stack' = [stack EXCEPT ![h] = << Call(h, d) >>]
        /\ touched' = [touched EXCEPT ![h] = FALSE]
        /\ UNCHANGED <<alive, treeVars, path, listVars, cancel, made>>
        /\ ~Deleting(h)
    BY DEF DeleteDirectory, Idle
  <1>2. path[h] \in Seq(Name) /\ TreeSound
    BY DEF TreeInv, StateTypes
  <1>3. d \in Path
    BY <1>2, Paths
  <1> HIDE DEF d
  <1>4. c \in CallRecord /\ c.dir = d
    BY <1>2, <1>3, CallTypes
  <1>5. IsPrefix(d, d)
    <2>1. << >> \in Seq(STRING)
      OBVIOUS
    <2> QED BY <1>3, <2>1, Below
  <1>6. stack' = [stack EXCEPT ![h] = s]
    BY <1>1
  <1> HIDE DEF c
  <1>7. s \in Seq(CallRecord) /\ Head(s) = c /\ \A i \in 1 .. Len(s) : s[i] = c
    BY <1>4
  <1> HIDE DEF s
  <1>8. /\ stack \in [Handle -> Seq(CallRecord)] /\ ~cancel[h]
        /\ \A g \in Handle :
             /\ \A i \in 1 .. Len(stack[g]) : IsPrefix(Target(g), stack[g][i].dir)
             /\ stack[g] = << >> => ~cancel[g]
    BY <1>1 DEF TreeInv, StateTypes, CallsSound, Deleting
  <1>9. /\ stack' \in [Handle -> Seq(CallRecord)] /\ stack'[h] = s
        /\ \A g \in Handle : g # h => stack'[g] = stack[g]
    BY <1>6, <1>7, <1>8
  <1>10. CallsSound'
    <2> SUFFICES ASSUME NEW g \in Handle
                 PROVE  /\ \A i \in 1 .. Len(stack'[g]) :
                             IsPrefix(Head(stack'[g]).dir, stack'[g][i].dir)
                        /\ stack'[g] = << >> => ~cancel'[g]
      BY DEF CallsSound, Target, Deleting
    <2>1. CASE g = h
      BY <1>1, <1>4, <1>5, <1>7, <1>8, <1>9, <2>1
    <2>2. CASE g # h
      BY <1>1, <1>8, <1>9, <2>2 DEF Target
    <2> QED BY <2>1, <2>2
  <1>11. StateTypes'
    BY <1>1, <1>9 DEF TreeInv, StateTypes, listVars
  <1>12. TreeSound'
    BY <1>1 DEF TreeInv, TreeSound, treeVars, Entries, IsDir
  <1> QED BY <1>10, <1>11, <1>12 DEF TreeInv

(* An entry that deleteDirectory removes, or fails to remove. *)
LEMMA StepEntry ==
  ASSUME TreeInv, NEW h \in Handle, DeleteEntry(h)
  PROVE  TreeInv'
  <1>1. Deleting(h) /\ UNCHANGED <<alive, path, deletedDirectories, made>>
    BY DEF DeleteEntry, Step
  <1>2. PICK n \in Top(h).files :
          /\ Forget(h, "files", n)
          /\ \/ /\ Deleted(h, Append(Top(h).dir, n))
                /\ Unlink(h, Append(Top(h).dir, n)) /\ Listed(deletedFiles, h)
                /\ UNCHANGED cancel
             \/ /\ ~Deleted(h, Append(Top(h).dir, n))
                /\ cancel' = [cancel EXCEPT ![h] = TRUE]
                /\ UNCHANGED <<treeVars, deletedFiles, touched>>
    BY DEF DeleteEntry
  <1>3. cancel' \in [Handle -> BOOLEAN]
        /\ \A g \in Handle : g # h => cancel'[g] = cancel[g]
    BY <1>2 DEF TreeInv, StateTypes
  <1>4. CallsSound' /\ stack' \in [Handle -> Seq(CallRecord)]
    BY <1>1, <1>2, <1>3, CallsForget
  <1>5. deletedFiles' \in [Handle -> Nat] /\ touched' \in [Handle -> BOOLEAN]
    <2>1. deletedFiles \in [Handle -> Nat] /\ touched \in [Handle -> BOOLEAN]
      BY DEF TreeInv, StateTypes
    <2>2. CASE Unlink(h, Append(Top(h).dir, n)) /\ Listed(deletedFiles, h)
      BY <2>1, <2>2 DEF Listed, Unlink, Touch
    <2>3. CASE UNCHANGED <<deletedFiles, touched>>
      BY <2>1, <2>3
    <2> QED BY <1>2, <2>2, <2>3
  <1>6. TreeSound'
    <2>1. CASE Removable(Append(Top(h).dir, n)) /\ Unlink(h, Append(Top(h).dir, n))
      BY <2>1, Unlinked DEF TreeInv
    <2>2. CASE UNCHANGED treeVars
      BY <2>2 DEF TreeInv, TreeSound, treeVars, Entries, IsDir
    <2> QED BY <1>2, <2>1, <2>2 DEF Deleted
  <1> QED BY <1>1, <1>3, <1>4, <1>5, <1>6 DEF TreeInv, StateTypes

LEMMA StepSkip ==
  ASSUME TreeInv, NEW h \in Handle, Skip(h)
  PROVE  TreeInv'
  <1>1. PICK n : Forget(h, "directories", n)
    BY DEF Skip
  <1>2. /\ UNCHANGED <<alive, treeVars, path, listVars, cancel, touched, made>>
        /\ Deleting(h)
    BY DEF Skip, Step
  <1>3. CallsSound' /\ stack' \in [Handle -> Seq(CallRecord)]
    BY <1>1, <1>2, CallsForget
  <1>4. StateTypes'
    BY <1>2, <1>3 DEF TreeInv, StateTypes, listVars
  <1>5. TreeSound'
    BY <1>2 DEF TreeInv, TreeSound, treeVars, Entries, IsDir
  <1> QED BY <1>3, <1>4, <1>5 DEF TreeInv

(* What Recurse puts in the place of the call on top: the call, with the     *)
(* subdirectory struck off, and the call for it.                            *)
LEMMA Entered ==
  ASSUME TreeInv, NEW h \in Handle, Recurse(h)
  PROVE  \E n \in Top(h).directories :
           /\ n \in Seq(STRING) /\ ~cancel[h]
           /\ Struck(Top(h), "directories", n) \in CallRecord
           /\ Struck(Top(h), "directories", n).dir = Top(h).dir
           /\ Call(h, Append(Top(h).dir, n)) \in CallRecord
           /\ Call(h, Append(Top(h).dir, n)).dir = Append(Top(h).dir, n)
           /\ Append(Top(h).dir, n) \in Path
           /\ stack' = [stack EXCEPT ![h] = Front(stack[h]) \o
                << Struck(Top(h), "directories", n),
                   Call(h, Append(Top(h).dir, n)) >>]
  <1>1. Deleting(h) /\ TreeSound /\ stack \in [Handle -> Seq(CallRecord)]
    BY DEF Recurse, Step, TreeInv, StateTypes
  <1>2. PICK n \in Top(h).directories :
          /\ ~Skipped(h, n)
          /\ stack' = [stack EXCEPT ![h] = Front(@) \o
                << [Top(h) EXCEPT !.directories = @ \ {n}],
                   Call(h, Resolved(Top(h).dir, n)) >>]
    BY DEF Recurse
  <1>3. Top(h) \in CallRecord /\ Top(h).dir \in Path
    BY <1>1, TopTypes
  <1>4. n \in Seq(STRING) /\ n # Dot /\ n # DotDot /\ ~cancel[h]
    BY <1>2, <1>3 DEF CallRecord, Skipped
  <1>5. Resolved(Top(h).dir, n) = Append(Top(h).dir, n)
    BY <1>4 DEF Resolved
  <1>6. Append(Top(h).dir, n) \in Path
    BY <1>3, <1>4, Below
  <1>7. /\ Call(h, Append(Top(h).dir, n)) \in CallRecord
        /\ Call(h, Append(Top(h).dir, n)).dir = Append(Top(h).dir, n)
    BY <1>1, <1>6, CallTypes
  <1>8. /\ Struck(Top(h), "directories", n) \in CallRecord
        /\ Struck(Top(h), "directories", n).dir = Top(h).dir
    BY <1>3, StruckOff
  <1>9. stack' = [stack EXCEPT ![h] = Front(stack[h]) \o
                << Struck(Top(h), "directories", n),
                   Call(h, Append(Top(h).dir, n)) >>]
    BY <1>1, <1>2, <1>5 DEF Struck
  <1> QED BY <1>4, <1>6, <1>7, <1>8, <1>9

LEMMA StepRecurse ==
  ASSUME TreeInv, NEW h \in Handle, Recurse(h)
  PROVE  TreeInv'
  <1>1. /\ UNCHANGED <<alive, treeVars, path, listVars, cancel, touched, made>>
        /\ Deleting(h)
    BY DEF Recurse, Step
  <1>2. PICK n \in Top(h).directories :
           /\ n \in Seq(STRING)
           /\ Struck(Top(h), "directories", n) \in CallRecord
           /\ Struck(Top(h), "directories", n).dir = Top(h).dir
           /\ Call(h, Append(Top(h).dir, n)) \in CallRecord
           /\ Call(h, Append(Top(h).dir, n)).dir = Append(Top(h).dir, n)
           /\ stack' = [stack EXCEPT ![h] = Front(stack[h]) \o
                << Struck(Top(h), "directories", n),
                   Call(h, Append(Top(h).dir, n)) >>]
    BY Entered
  <1> DEFINE a == Struck(Top(h), "directories", n)
             b == Call(h, Append(Top(h).dir, n))
             new == << a, b >>
             t == Top(h).dir
  <1>3. /\ a \in CallRecord /\ a.dir = t /\ b \in CallRecord
        /\ b.dir = Append(t, n) /\ n \in Seq(STRING) /\ t \in Path
        /\ stack' = [stack EXCEPT ![h] = Front(stack[h]) \o new]
    BY <1>1, <1>2, TopTypes
  <1> HIDE DEF a, b, t
  <1>4. IsPrefix(t, t) /\ IsPrefix(t, Append(t, n))
    BY <1>3, Below
  <1>5. /\ new \in Seq(CallRecord) /\ new[1].dir = t
        /\ \A i \in 1 .. Len(new) : IsPrefix(t, new[i].dir)
    <2>1. new \in Seq(CallRecord) /\ Len(new) = 2 /\ new[1] = a /\ new[2] = b
      BY <1>3
    <2>2. \A i \in 1 .. 2 : i = 1 \/ i = 2
      OBVIOUS
    <2> HIDE DEF new
    <2> QED BY <1>3, <1>4, <2>1, <2>2
  <1>6. \A f \in Seq(CallRecord) : f \o new # << >>
    <2>1. \A f, g \in Seq(CallRecord) :
            Len(f \o g) = Len(f) + Len(g) /\ Len(f) \in Nat
      BY JoinedElements
    <2>2. new \in Seq(CallRecord) /\ Len(new) = 2
      BY <1>3
    <2> HIDE DEF new
    <2>3. \A f \in Seq(CallRecord) : Len(f \o new) > 0
      BY <2>1, <2>2
    <2> QED BY <2>3
  <1> HIDE DEF new
  <1>7. stack'[h] # << >>
    <2>1. Front(stack[h]) \in Seq(CallRecord) /\ stack \in [Handle -> Seq(CallRecord)]
      BY <1>1, TopTypes DEF TreeInv, StateTypes
    <2> QED BY <1>3, <1>6, <2>1
  <1>8. CallsSound' /\ stack' \in [Handle -> Seq(CallRecord)]
    BY <1>1, <1>3, <1>5, <1>7, CallsReplaced DEF t
  <1>9. StateTypes'
    BY <1>1, <1>8 DEF TreeInv, StateTypes, listVars
  <1>10. TreeSound'
    BY <1>1 DEF TreeInv, TreeSound, treeVars, Entries, IsDir
  <1> QED BY <1>8, <1>9, <1>10 DEF TreeInv

(* A call that returns; the outermost leaves no error behind. *)
LEMMA StepReturn ==
  ASSUME TreeInv, NEW h \in Handle, Return(h)
  PROVE  TreeInv'
  <1>1. /\ Deleting(h)
        /\ stack' = [stack EXCEPT ![h] = Front(@)]
        /\ cancel' = [cancel EXCEPT ![h] = @ /\ Len(stack[h]) > 1]
        /\ \/ /\ Gone(Top(h).dir) /\ Unlink(h, Top(h).dir)
              /\ Listed(deletedDirectories, h)
           \/ UNCHANGED <<treeVars, deletedDirectories, touched>>
        /\ UNCHANGED <<alive, path, deletedFiles, made>>
    BY DEF Return, Step
  <1>2. /\ stack \in [Handle -> Seq(CallRecord)]
        /\ Front(stack[h]) \in Seq(CallRecord)
        /\ Len(Front(stack[h])) = Len(stack[h]) - 1 /\ Len(stack[h]) \in Nat
    BY <1>1, TopTypes DEF TreeInv, StateTypes
  <1>3. stack' = [stack EXCEPT ![h] = Front(stack[h]) \o << >>]
    BY <1>1, <1>2
  <1>4. /\ cancel' \in [Handle -> BOOLEAN]
        /\ \A g \in Handle : g # h => cancel'[g] = cancel[g]
        /\ cancel'[h] => Len(stack[h]) > 1
    BY <1>1, <1>2 DEF TreeInv, StateTypes
  <1>5. stack'[h] = << >> => ~cancel'[h]
    <2>1. stack'[h] = Front(stack[h])
      BY <1>1, <1>2
    <2>2. Len(stack[h]) > 1 => Len(Front(stack[h])) > 0
      BY <1>2
    <2> QED BY <1>4, <2>1, <2>2
  <1>6. CallsSound' /\ stack' \in [Handle -> Seq(CallRecord)]
    <2> DEFINE new == << >>
    <2>1. /\ new \in Seq(CallRecord) /\ Len(new) = 0 /\ ~(new # << >>)
          /\ stack' = [stack EXCEPT ![h] = Front(stack[h]) \o new]
      BY <1>3
    <2> HIDE DEF new
    <2>2. \A i \in 1 .. Len(new) : IsPrefix(Top(h).dir, new[i].dir)
      BY <2>1
    <2> QED BY <1>1, <1>4, <1>5, <2>1, <2>2, CallsReplaced
  <1>7. deletedDirectories' \in [Handle -> Nat] /\ touched' \in [Handle -> BOOLEAN]
    <2>1. /\ deletedDirectories \in [Handle -> Nat]
          /\ touched \in [Handle -> BOOLEAN]
      BY DEF TreeInv, StateTypes
    <2>2. CASE Unlink(h, Top(h).dir) /\ Listed(deletedDirectories, h)
      BY <2>1, <2>2 DEF Listed, Unlink, Touch
    <2>3. CASE UNCHANGED <<deletedDirectories, touched>>
      BY <2>1, <2>3
    <2> QED BY <1>1, <2>2, <2>3
  <1>8. TreeSound'
    <2>1. CASE Removable(Top(h).dir) /\ Unlink(h, Top(h).dir)
      BY <2>1, Unlinked DEF TreeInv
    <2>2. CASE UNCHANGED treeVars
      BY <2>2 DEF TreeInv, TreeSound, treeVars, Entries, IsDir
    <2> QED BY <1>1, <2>1, <2>2 DEF Gone, Removable
  <1> QED BY <1>1, <1>4, <1>6, <1>7, <1>8 DEF TreeInv, StateTypes

LEMMA TreeInit == Init => TreeInv
  <1> SUFFICES ASSUME Init PROVE TreeInv
    OBVIOUS
  <1>1. /\ alive = TRUE /\ files = {} /\ dirs = {} /\ made = 0
        /\ path = [g \in Handle |-> << >>] /\ stack = path
        /\ deletedFiles = [g \in Handle |-> 0]
        /\ deletedDirectories = deletedFiles
        /\ cancel = [g \in Handle |-> FALSE] /\ touched = cancel
    BY DEF Init, Fresh
  <1>2. << >> \in Seq(Name) /\ << >> \in Seq(CallRecord) /\ Len(<< >>) = 0
    OBVIOUS
  <1>3. StateTypes /\ TreeSound
    BY <1>1, <1>2 DEF StateTypes, TreeSound, Entries
  <1>4. CallsSound
    <2>1. \A g \in Handle : stack[g] = << >> /\ ~cancel[g]
      BY <1>1
    <2> QED BY <1>2, <2>1 DEF CallsSound
  <1> QED BY <1>3, <1>4 DEF TreeInv

LEMMA TreeStep == TreeInv /\ [Next]_vars => TreeInv'
  <1> SUFFICES ASSUME TreeInv, [Next]_vars PROVE TreeInv'
    OBVIOUS
  <1>1. CASE UNCHANGED vars
    <2>1. StateTypes' /\ TreeSound'
      BY <1>1 DEF vars, treeVars, listVars, callVars, TreeInv, StateTypes,
                  TreeSound, Entries, IsDir
    <2>2. CallsSound'
      BY <1>1, CallsKept DEF vars
    <2> QED BY <2>1, <2>2 DEF TreeInv
  <1>2. ASSUME NEW h \in Handle, ClearLists(h) \/ Delete(h)
        PROVE  TreeInv'
    BY <1>2, StepClear, StepEntry, StepSkip, StepRecurse, StepReturn DEF Delete
  <1>3. ASSUME NEW h \in Handle, ChangeUp(h)
        PROVE  TreeInv'
    <2>1. path \in [Handle -> Seq(Name)] /\ path[h] # << >>
      BY <1>3 DEF TreeInv, StateTypes, ChangeUp
    <2>2. \E n : n \in Name
      BY <2>1, FrontAppend
    <2> QED BY <1>3, <2>2, StepWalk
  <1>4. ASSUME NEW h \in Handle, NEW n \in Name,
               \/ ChangeDir(h, n) \/ CreateDirectory(h, n)
               \/ CreateFile(h, n) \/ OpenToWrite(h, n) \/ OpenShort(h, n)
               \/ DeleteFile(h, n) \/ DeleteDirectory(h, n)
        PROVE  TreeInv'
    BY <1>4, StepWalk, StepCreate, StepShort, StepFile, StepBegin
  <1> QED BY <1>1, <1>2, <1>3, <1>4 DEF Next

LEMMA Tree == Spec => []TreeInv
  BY TreeInit, TreeStep, PTL DEF Spec

-----------------------------------------------------------------------------
(* What a recursive delete removes. *)

(* A handle's calls are changed by that handle alone, until the process ends. *)
LEMMA OthersCalls ==
  ASSUME TreeInv, NEW g \in Handle, NEW n, NEW h \in Handle, h # g,
         \/ ChangeUp(g) \/ ClearLists(g) \/ Delete(g)
         \/ ChangeDir(g, n) \/ CreateDirectory(g, n) \/ CreateFile(g, n)
         \/ OpenToWrite(g, n) \/ DeleteFile(g, n) \/ DeleteDirectory(g, n)
  PROVE  stack'[h] = stack[h] /\ cancel'[h] = cancel[h]
  <1>1. stack \in [Handle -> Seq(CallRecord)] /\ cancel \in [Handle -> BOOLEAN]
    BY DEF TreeInv, StateTypes
  <1>2. CASE UNCHANGED callVars
    BY <1>2 DEF callVars
  <1>3. CASE DeleteDirectory(g, n)
    BY <1>1, <1>3 DEF DeleteDirectory
  <1>4. CASE DeleteEntry(g)
    BY <1>1, <1>4 DEF DeleteEntry, Forget
  <1>5. CASE Skip(g)
    BY <1>1, <1>5 DEF Skip, Forget
  <1>6. CASE Recurse(g)
    BY <1>1, <1>6 DEF Recurse
  <1>7. CASE Return(g)
    BY <1>1, <1>7 DEF Return
  <1>8. CASE ChangeUp(g) \/ ClearLists(g) \/ ChangeDir(g, n)
             \/ CreateDirectory(g, n) \/ CreateFile(g, n)
             \/ OpenToWrite(g, n) \/ DeleteFile(g, n)
    BY <1>2, <1>8 DEF ChangeUp, ClearLists, ChangeDir, CreateDirectory,
                      CreateFile, OpenToWrite, DeleteFile
  <1> QED BY <1>3, <1>4, <1>5, <1>6, <1>7, <1>8 DEF Delete

(* What a step of a deletion takes out of the tree. *)
LEMMA RemovedByDelete ==
  ASSUME TreeInv, NEW h \in Handle, Delete(h),
         NEW p \in Entries \ (files' \cup dirs')
  PROVE  p \in Path /\ IsPrefix(Target(h), p)
  <1>1. Deleting(h)
    BY DEF Delete, DeleteEntry, Skip, Recurse, Return, Step
  <1>2. /\ Target(h) \in Path /\ Top(h) \in CallRecord /\ Top(h).dir \in Path
        /\ IsPrefix(Target(h), Top(h).dir)
    BY <1>1, TopTypes
  <1>3. CASE DeleteEntry(h)
    <2>1. PICK n \in Top(h).files :
            \/ Unlink(h, Append(Top(h).dir, n)) \/ UNCHANGED treeVars
      BY <1>3 DEF DeleteEntry, treeVars
    <2>2. p = Append(Top(h).dir, n)
      BY <2>1 DEF Unlink, treeVars, Entries
    <2>3. n \in Seq(STRING)
      BY <1>2 DEF CallRecord
    <2>4. IsPrefix(Top(h).dir, p) /\ p \in Path
      BY <1>2, <2>2, <2>3, Below
    <2> QED BY <1>2, <2>4, PrefixTransitive DEF Path
  <1>4. CASE Return(h)
    <2>1. Unlink(h, Top(h).dir) \/ UNCHANGED treeVars
      BY <1>4 DEF Return, treeVars
    <2>2. p = Top(h).dir
      BY <2>1 DEF Unlink, treeVars, Entries
    <2> QED BY <1>2, <2>2
  <1>5. CASE Skip(h) \/ Recurse(h)
    <2>1. UNCHANGED treeVars
      BY <1>5 DEF Skip, Recurse
    <2> QED BY <2>1 DEF treeVars, Entries
  <1> QED BY <1>3, <1>4, <1>5 DEF Delete

(* deleteDirectory removes nothing but the directory that it was given and  *)
(* what is below it, whatever other handles do to the tree meanwhile.       *)
THEOREM RemovesBelow == Spec => DeletesBelow
  <1> DEFINE Below1(h) == stack'[h] # stack[h] /\ Deleting(h) =>
               \A p \in Entries \ (files' \cup dirs') : IsPrefix(Target(h), p)
  <1>1. ASSUME TreeInv, [Next]_vars
        PROVE  [\A h \in Handle : Below1(h)]_vars
    <2> SUFFICES ASSUME ~UNCHANGED vars, NEW h \in Handle,
                        stack'[h] # stack[h], Deleting(h),
                        NEW p \in Entries \ (files' \cup dirs')
                 PROVE  IsPrefix(Target(h), p)
      OBVIOUS
    <2>1. ASSUME NEW g \in Handle, NEW n \in Name, OpenShort(g, n)
          PROVE  FALSE
      BY <2>1 DEF OpenShort, treeVars, Entries
    <2>2. ASSUME NEW g \in Handle, NEW n,
                 \/ ChangeUp(g) \/ ClearLists(g) \/ Delete(g)
                 \/ ChangeDir(g, n) \/ CreateDirectory(g, n) \/ CreateFile(g, n)
                 \/ OpenToWrite(g, n) \/ DeleteFile(g, n) \/ DeleteDirectory(g, n)
          PROVE  Delete(h)
      <3>1. g = h
        BY <1>1, <2>2, OthersCalls
      <3>2. ~Idle(h)
        BY DEF Idle
      <3> QED BY <2>2, <3>1, <3>2
              DEF ChangeUp, ClearLists, ChangeDir, CreateDirectory, CreateFile,
                  OpenToWrite, DeleteFile, DeleteDirectory
    <2>3. Delete(h)
      BY <1>1, <2>1, <2>2 DEF Next
    <2> QED BY <1>1, <2>3, RemovedByDelete
  <1>2. TreeInv /\ [Next]_vars => [\A h \in Handle : Below1(h)]_vars
    BY <1>1
  <1> QED BY <1>2, Tree, PTL DEF Spec, DeletesBelow

-----------------------------------------------------------------------------
(* The accounting: what was made is there or on one list. *)

Lists == [h \in Handle |-> ListedBy(h)]

AccountInv ==
  /\ IsFiniteSet(Entries) /\ Accounted
  /\ made \in 0 .. MaxMade

(* The lengths of the lists, and their sum. *)
LEMMA ListTypes ==
  ASSUME TreeInv
  PROVE  /\ Lists \in [Handle -> Nat] /\ SumFunction(Lists) \in Nat
         /\ \A h \in Handle : ListedBy(h) <= SumFunction(Lists)
  <1>1. Lists \in [Handle -> Nat]
    BY DEF Lists, ListedBy, TreeInv, StateTypes
  <1>2. \A h \in Handle : Lists[h] = ListedBy(h)
    BY DEF Lists
  <1> HIDE DEF Lists
  <1> QED BY <1>1, <1>2, Sums, HandleAssumption

LEMMA NextListTypes ==
  ASSUME TreeInv'
  PROVE  Lists' \in [Handle -> Nat] /\ SumFunction(Lists)' \in Nat
  <1> DEFINE f == Lists'
  <1>1. f \in [Handle -> Nat]
    BY DEF Lists, ListedBy, TreeInv, StateTypes
  <1>2. SumFunction(Lists)' = SumFunction(f)
    OBVIOUS
  <1>3. SumFunction(f) \in Nat
    <2> HIDE DEF f
    <2> QED BY <1>1, Sums, HandleAssumption
  <1> QED BY <1>1, <1>2, <1>3

(* One handle's list changes the sum by as much. *)
LEMMA ListChanged ==
  ASSUME TreeInv, TreeInv', NEW h \in Handle,
         \A g \in Handle : g # h => ListedBy(g)' = ListedBy(g)
  PROVE  SumFunction(Lists)' = SumFunction(Lists) - ListedBy(h) + ListedBy(h)'
  <1>1. /\ Lists \in [Handle -> Nat] /\ Lists[h] = ListedBy(h)
        /\ Lists' \in [Handle -> Nat] /\ Lists'[h] = ListedBy(h)'
        /\ \A g \in Handle : g # h => Lists'[g] = Lists[g]
    <2>1. /\ \A g \in Handle : Lists[g] = ListedBy(g)
          /\ \A g \in Handle : Lists'[g] = ListedBy(g)'
      BY DEF Lists
    <2>2. Lists \in [Handle -> Nat]
      BY ListTypes
    <2>3. Lists' \in [Handle -> Nat]
      BY NextListTypes
    <2> HIDE DEF Lists
    <2> QED BY <2>1, <2>2, <2>3
  <1>2. SumFunction(Lists') = SumFunction(Lists) - Lists[h] + Lists'[h]
    <2> HIDE DEF Lists
    <2> DEFINE a == Lists
               b == Lists'
    <2>1. /\ a \in [Handle -> Nat] /\ b \in [Handle -> Nat]
          /\ \A g \in Handle : g # h => b[g] = a[g]
      BY <1>1
    <2> HIDE DEF a, b
    <2>2. SumFunction(b) = SumFunction(a) - a[h] + b[h]
      BY <2>1, Sums, HandleAssumption
    <2> QED BY <2>2 DEF a, b
  <1>3. SumFunction(Lists)' = SumFunction(Lists')
    OBVIOUS
  <1> QED BY <1>1, <1>2, <1>3

LEMMA ListKept ==
  ASSUME UNCHANGED listVars
  PROVE  SumFunction(Lists)' = SumFunction(Lists)
  BY DEF listVars, Lists, ListedBy

(* A new entry is one more, ... *)
LEMMA MadeCount ==
  ASSUME IsFiniteSet(Entries), NEW h \in Handle, NEW p,
         MakeFile(h, p) \/ MakeDir(h, p)
  PROVE  /\ IsFiniteSet(Entries') /\ Cardinality(Entries)' = Cardinality(Entries) + 1
         /\ made < MaxMade /\ made' = made + 1
  <1>1. Entries' = Entries \cup {p} /\ p \notin Entries
    BY DEF MakeFile, MakeDir, Free, Entries
  <1>2. made < MaxMade /\ made' = made + 1
    BY DEF MakeFile, MakeDir, Free
  <1>3. IsFiniteSet(Entries \cup {p})
        /\ Cardinality(Entries \cup {p}) = Cardinality(Entries) + 1
    BY <1>1, FS_AddElement
  <1> QED BY <1>1, <1>2, <1>3

(* ... and one that is removed one less. *)
LEMMA UnlinkCount ==
  ASSUME IsFiniteSet(Entries), NEW h \in Handle, NEW p, Removable(p), Unlink(h, p)
  PROVE  IsFiniteSet(Entries') /\ Cardinality(Entries)' = Cardinality(Entries) - 1
  <1>1. Entries' = Entries \ {p} /\ p \in Entries
    BY DEF Unlink, Removable, Empty, Entries
  <1>2. IsFiniteSet(Entries \ {p})
        /\ Cardinality(Entries \ {p}) = Cardinality(Entries) - 1
    BY <1>1, FS_RemoveElement
  <1> QED BY <1>1, <1>2

(* A step that adds k entries and lists l, and counts them as made. *)
LEMMA Balanced ==
  ASSUME TreeInv, TreeInv', AccountInv, IsFiniteSet(Entries'),
         NEW k \in Int, NEW l \in Int,
         Cardinality(Entries)' = Cardinality(Entries) + k,
         SumFunction(Lists)' = SumFunction(Lists) + l,
         made' = made + k + l, made' <= MaxMade
  PROVE  AccountInv'
  <1> DEFINE c == Cardinality(Entries)
             s == SumFunction(Lists)
  <1>1. c \in Nat /\ c' \in Nat /\ s \in Nat /\ s' \in Nat
    BY FS_CardinalityType, ListTypes, NextListTypes DEF AccountInv
  <1>2. c + s = made /\ made \in Int
    BY DEF AccountInv, Accounted, Lists
  <1>3. c' = c + k /\ s' = s + l /\ made' = made + k + l
    OBVIOUS
  <1>4. c' + s' = made'
    <2> HIDE DEF c, s
    <2>1. \A a, b, d \in Int : a + b = d => (a + k) + (b + l) = d + k + l
      OBVIOUS
    <2>2. (c + k) + (s + l) = made + k + l
      BY <1>1, <1>2, <2>1
    <2> QED BY <1>3, <2>2
  <1>5. made' \in 0 .. MaxMade
    <2>1. c + k \in Nat /\ s + l \in Nat
      BY <1>1, <1>3
    <2>2. made' = (c + k) + (s + l)
      BY <1>3, <1>4
    <2> HIDE DEF c, s
    <2>3. (c + k) + (s + l) \in Nat
      BY <2>1
    <2> QED BY <2>2, <2>3, NameAssumption
  <1> QED BY <1>4, <1>5 DEF AccountInv, Accounted, Lists

(* Steps that leave the tree and the lists alone, ... *)
LEMMA AccountKept ==
  ASSUME TreeInv, TreeInv', AccountInv, UNCHANGED <<treeVars, listVars, made>>
  PROVE  AccountInv'
  BY ListKept DEF AccountInv, Accounted, treeVars, Entries, Lists

(* ... that make an entry, ... *)
LEMMA AccountMade ==
  ASSUME TreeInv, TreeInv', AccountInv, NEW h \in Handle, NEW p,
         MakeFile(h, p) \/ MakeDir(h, p), UNCHANGED listVars
  PROVE  AccountInv'
  <1>1. /\ IsFiniteSet(Entries)' /\ Cardinality(Entries)' = Cardinality(Entries) + 1
        /\ made < MaxMade /\ made' = made + 1
    BY MadeCount DEF AccountInv
  <1>2. SumFunction(Lists)' = SumFunction(Lists) + 0
    BY ListKept, ListTypes
  <1>3. made' = made + 1 + 0 /\ made' <= MaxMade
    BY <1>1, NameAssumption DEF AccountInv
  <1> QED BY <1>1, <1>2, <1>3, Balanced

(* ... that remove one and list it, ... *)
LEMMA AccountUnlinked ==
  ASSUME TreeInv, TreeInv', AccountInv, NEW h \in Handle, NEW p,
         Removable(p), Unlink(h, p), UNCHANGED made,
         \/ Listed(deletedFiles, h) /\ UNCHANGED deletedDirectories
         \/ Listed(deletedDirectories, h) /\ UNCHANGED deletedFiles
  PROVE  AccountInv'
  <1>1. IsFiniteSet(Entries)' /\ Cardinality(Entries)' = Cardinality(Entries) + (-1)
    <2>1. IsFiniteSet(Entries') /\ Cardinality(Entries)' = Cardinality(Entries) - 1
      BY UnlinkCount DEF AccountInv
    <2>2. Cardinality(Entries) \in Nat
      BY FS_CardinalityType DEF AccountInv
    <2> QED BY <2>1, <2>2
  <1>2. /\ \A g \in Handle : g # h => ListedBy(g)' = ListedBy(g)
        /\ ListedBy(h)' = ListedBy(h) + 1 /\ ListedBy(h) \in Nat
    <2>1. /\ deletedFiles \in [Handle -> Nat]
          /\ deletedDirectories \in [Handle -> Nat]
      BY DEF TreeInv, StateTypes
    <2>2. CASE Listed(deletedFiles, h) /\ UNCHANGED deletedDirectories
      BY <2>1, <2>2 DEF ListedBy, Listed
    <2>3. CASE Listed(deletedDirectories, h) /\ UNCHANGED deletedFiles
      BY <2>1, <2>3 DEF ListedBy, Listed
    <2> QED BY <2>2, <2>3
  <1>3. SumFunction(Lists)' = SumFunction(Lists) - ListedBy(h) + ListedBy(h)'
    BY <1>2, ListChanged
  <1>4. SumFunction(Lists)' = SumFunction(Lists) + 1
    <2>1. SumFunction(Lists) \in Nat
      BY ListTypes
    <2>2. \A s, x \in Nat : s - x + (x + 1) = s + 1
      OBVIOUS
    <2> QED BY <1>2, <1>3, <2>1, <2>2
  <1>5. made' = made + (-1) + 1 /\ made' <= MaxMade
    BY NameAssumption DEF AccountInv
  <1> QED BY <1>1, <1>4, <1>5, Balanced

(* ... and that forget a list. *)
LEMMA AccountCleared ==
  ASSUME TreeInv, TreeInv', AccountInv, NEW h \in Handle, ClearLists(h)
  PROVE  AccountInv'
  <1>1. UNCHANGED treeVars
    BY DEF ClearLists
  <1>2. PICK x \in Nat : /\ ListedBy(h)' = ListedBy(h) - x /\ made' = made - x
                         /\ ListedBy(h) \in Nat
                         /\ \A g \in Handle : g # h => ListedBy(g)' = ListedBy(g)
    <2>1. /\ deletedFiles \in [Handle -> Nat]
          /\ deletedDirectories \in [Handle -> Nat]
      BY DEF TreeInv, StateTypes
    <2>2. CASE /\ deletedFiles' = [deletedFiles EXCEPT ![h] = 0]
               /\ made' = made - deletedFiles[h] /\ UNCHANGED deletedDirectories
      <3>1. deletedFiles[h] \in Nat
        BY <2>1
      <3> WITNESS deletedFiles[h] \in Nat
      <3> QED BY <2>1, <2>2 DEF ListedBy
    <2>3. CASE /\ deletedDirectories' = [deletedDirectories EXCEPT ![h] = 0]
               /\ made' = made - deletedDirectories[h] /\ UNCHANGED deletedFiles
      <3>1. deletedDirectories[h] \in Nat
        BY <2>1
      <3> WITNESS deletedDirectories[h] \in Nat
      <3> QED BY <2>1, <2>3 DEF ListedBy
    <2> QED BY <2>2, <2>3 DEF ClearLists
  <1>3. SumFunction(Lists)' = SumFunction(Lists) + (-x)
    <2>1. SumFunction(Lists) \in Nat
      BY ListTypes
    <2>2. SumFunction(Lists)' = SumFunction(Lists) - ListedBy(h) + ListedBy(h)'
      BY <1>2, ListChanged
    <2>3. \A s, y \in Nat : s - y + (y - x) = s + (-x)
      OBVIOUS
    <2> QED BY <1>2, <2>1, <2>2, <2>3
  <1>4. /\ IsFiniteSet(Entries)' /\ Cardinality(Entries)' = Cardinality(Entries) + 0
    BY <1>1, FS_CardinalityType DEF AccountInv, Entries, treeVars
  <1>5. made' = made + 0 + (-x) /\ made' <= MaxMade
    BY <1>2, NameAssumption DEF AccountInv
  <1>6. -x \in Int
    OBVIOUS
  <1> QED BY <1>3, <1>4, <1>5, <1>6, Balanced

(* When the process ends its lists are gone: what is left is what counts. *)
LEMMA AccountShort ==
  ASSUME TreeInv, TreeInv', AccountInv, NEW h \in Handle, NEW n,
         OpenShort(h, n)
  PROVE  AccountInv'
  <1>1. /\ UNCHANGED treeVars /\ made' = Cardinality(Entries)
        /\ deletedFiles' = [g \in Handle |-> 0]
        /\ deletedDirectories' = [g \in Handle |-> 0]
    BY DEF OpenShort, Fresh
  <1>2. SumFunction(Lists)' = 0
    <2> DEFINE f == Lists'
    <2>1. f \in [Handle -> Nat] /\ \A g \in Handle : f[g] = 0
      BY <1>1 DEF Lists, ListedBy
    <2>2. SumFunction(f) = 0
      <3> HIDE DEF f
      <3> QED BY <2>1, Sums, HandleAssumption
    <2> QED BY <2>2
  <1>3. IsFiniteSet(Entries)' /\ Cardinality(Entries)' = Cardinality(Entries)
    BY <1>1 DEF AccountInv, treeVars, Entries
  <1>4. /\ Cardinality(Entries) \in Nat /\ SumFunction(Lists) \in Nat
        /\ Cardinality(Entries) + SumFunction(Lists) = made /\ made <= MaxMade
    BY ListTypes, FS_CardinalityType, NameAssumption
       DEF AccountInv, Accounted, Lists
  <1>5. made' \in 0 .. MaxMade
    BY <1>1, <1>4, NameAssumption
  <1>6. Cardinality(Entries)' + SumFunction(Lists)' = made'
    BY <1>1, <1>2, <1>3, <1>4
  <1> QED BY <1>3, <1>5, <1>6 DEF AccountInv, Accounted, Lists

LEMMA AccountInit == Init => AccountInv
  <1> SUFFICES ASSUME Init PROVE AccountInv
    OBVIOUS
  <1>1. /\ Entries = {} /\ made = 0
        /\ deletedFiles = [g \in Handle |-> 0]
        /\ deletedDirectories = [g \in Handle |-> 0]
    BY DEF Init, Fresh, Entries
  <1>2. SumFunction(Lists) = 0
    <2>1. Lists \in [Handle -> Nat] /\ \A g \in Handle : Lists[g] = 0
      BY <1>1 DEF Lists, ListedBy
    <2> HIDE DEF Lists
    <2> QED BY <2>1, Sums, HandleAssumption
  <1>3. IsFiniteSet({}) /\ Cardinality({}) = 0
    BY FS_EmptySet
  <1> QED BY <1>1, <1>2, <1>3, NameAssumption DEF AccountInv, Accounted, Lists

LEMMA AccountStep == TreeInv /\ TreeInv' /\ AccountInv /\ [Next]_vars => AccountInv'
  <1> SUFFICES ASSUME TreeInv, TreeInv', AccountInv, [Next]_vars PROVE AccountInv'
    OBVIOUS
  <1>1. CASE UNCHANGED vars
    BY <1>1, AccountKept DEF vars
  <1>2. ASSUME NEW h \in Handle, NEW n, ChangeUp(h) \/ ChangeDir(h, n)
               \/ DeleteDirectory(h, n) \/ Skip(h) \/ Recurse(h)
        PROVE  AccountInv'
    BY <1>2, AccountKept DEF ChangeUp, ChangeDir, DeleteDirectory, Skip, Recurse
  <1>3. ASSUME NEW h \in Handle, NEW n, CreateDirectory(h, n)
               \/ CreateFile(h, n) \/ OpenToWrite(h, n)
        PROVE  AccountInv'
    BY <1>3, AccountMade DEF CreateDirectory, CreateFile, OpenToWrite
  <1>4. ASSUME NEW h \in Handle, NEW n, DeleteFile(h, n)
        PROVE  AccountInv'
    <2>1. PICK p : /\ Removable(p) /\ Unlink(h, p) /\ Listed(deletedFiles, h)
                   /\ UNCHANGED <<deletedDirectories, made>>
      BY <1>4 DEF DeleteFile
    <2> QED BY <2>1, AccountUnlinked
  <1>5. ASSUME NEW h \in Handle, DeleteEntry(h)
        PROVE  AccountInv'
    <2>1. PICK p : \/ /\ Removable(p) /\ Unlink(h, p) /\ Listed(deletedFiles, h)
                      /\ UNCHANGED <<deletedDirectories, made>>
                   \/ UNCHANGED <<treeVars, deletedFiles, deletedDirectories, made>>
      BY <1>5 DEF DeleteEntry, Deleted
    <2>2. CASE UNCHANGED <<treeVars, deletedFiles, deletedDirectories, made>>
      BY <2>2, AccountKept DEF listVars
    <2> QED BY <2>1, <2>2, AccountUnlinked
  <1>6. ASSUME NEW h \in Handle, Return(h)
        PROVE  AccountInv'
    <2>1. PICK p : \/ /\ Removable(p) /\ Unlink(h, p)
                      /\ Listed(deletedDirectories, h)
                      /\ UNCHANGED <<deletedFiles, made>>
                   \/ UNCHANGED <<treeVars, deletedFiles, deletedDirectories, made>>
      BY <1>6 DEF Return, Gone, Removable
    <2>2. CASE UNCHANGED <<treeVars, deletedFiles, deletedDirectories, made>>
      BY <2>2, AccountKept DEF listVars
    <2> QED BY <2>1, <2>2, AccountUnlinked
  <1>7. ASSUME NEW h \in Handle, NEW n, OpenShort(h, n)
        PROVE  AccountInv'
    BY <1>7, AccountShort
  <1>8. ASSUME NEW h \in Handle, ClearLists(h)
        PROVE  AccountInv'
    BY <1>8, AccountCleared
  <1> QED BY <1>1, <1>2, <1>3, <1>4, <1>5, <1>6, <1>7, <1>8 DEF Next, Delete

LEMMA Account == Spec => [](TreeInv /\ AccountInv)
  <1>1. Init => TreeInv /\ AccountInv
    BY TreeInit, AccountInit
  <1>2. TreeInv /\ AccountInv /\ [Next]_vars => (TreeInv /\ AccountInv)'
    BY TreeStep, AccountStep
  <1> QED BY <1>1, <1>2, PTL DEF Spec

(* Every entry that was made is in the tree or on the list of the one handle *)
(* that removed it: deleteFile and deleteDirectory list a path only when     *)
(* remove or rmdir succeeded, and of two handles it succeeds for one.        *)
THEOREM EntriesAccounted == Spec => []Accounted
  BY Account, PTL DEF AccountInv

(* The shared tree stays one: what is in it lies in a directory that is in it. *)
THEOREM TreeTypes == Spec => []TypeOK
  <1>1. TreeInv /\ AccountInv => TypeOK
    BY DEF TreeInv, StateTypes, TreeSound, AccountInv, TypeOK, Path
  <1> QED BY <1>1, Account, PTL

-----------------------------------------------------------------------------
(* A deletion that nobody interferes with.  Its calls know what is in their  *)
(* directories: the listing that each works on is still what is there, but   *)
(* for the subdirectory that the next call is in.  The tree is a parameter,  *)
(* fs its files and ds its directories: they are those before or after.      *)

In(s, d) == {p \in s : p # << >> /\ Front(p) = d}

(* What of c's directory is a file is on c's list, and no more. *)
FilesKnown(fs, c) ==
  /\ \A p \in In(fs, c.dir) : Last(p) \in c.files
  /\ \A x \in c.files : Append(c.dir, x) \in fs

(* What of it is a directory is on the list as well, or in D. *)
DirsKnown(ds, c, D) ==
  \A p \in In(ds, c.dir) : Last(p) \in c.directories \/ p \in D

StackKnown(fs, ds, s) ==
  /\ \A i \in 1 .. Len(s) : FilesKnown(fs, s[i])
  /\ \A i \in 1 .. Len(s) - 1 :
       s[i].files = {} /\ DirsKnown(ds, s[i], {s[i + 1].dir})
  /\ s # << >> => DirsKnown(ds, s[Len(s)], {})

Undisturbed(h) ==
  ~touched[h] => ~cancel[h] /\ StackKnown(files, dirs, stack[h])

WholeInv == \A h \in Handle : Undisturbed(h)

(* A call begins with what is there. *)
LEMMA ListedCall ==
  ASSUME TreeSound, NEW h \in Handle, NEW d \in Path
  PROVE  FilesKnown(files, Call(h, d)) /\ DirsKnown(dirs, Call(h, d), {})
  <1>1. /\ \A p \in Children(d) : p = Append(d, Last(p))
        /\ In(files, d) = Children(d) \cap files
        /\ In(dirs, d) = Children(d) \cap dirs
    BY ChildPaths DEF In, Children, Entries
  <1>2. CASE IsDir(d)
    <2>1. /\ Call(h, d).files = {Last(p) : p \in Children(d) \cap files}
          /\ {Last(p) : p \in Children(d) \cap dirs} \subseteq Call(h, d).directories
          /\ Call(h, d).dir = d
      BY <1>2 DEF Call, Browse
    <2> QED BY <1>1, <2>1 DEF FilesKnown, DirsKnown
  <1>3. CASE ~IsDir(d)
    <2>1. Children(d) = {}
      BY <1>3 DEF Children, TreeSound
    <2>2. Call(h, d).files = {} /\ Call(h, d).dir = d
      BY <1>3 DEF Call, Browse
    <2> QED BY <1>1, <2>1, <2>2 DEF FilesKnown, DirsKnown
  <1> QED BY <1>2, <1>3

(* A change outside T is no change to a call below T. *)
SameBut(p, a, b) == \A q : q # p => (q \in a <=> q \in b)

LEMMA KnownElsewhere ==
  ASSUME NEW a \in SUBSET Path, NEW b \in SUBSET Path, NEW p, SameBut(p, a, b),
         NEW T \in Path, ~IsPrefix(T, p), NEW c \in CallRecord, IsPrefix(T, c.dir),
         NEW D
  PROVE  /\ FilesKnown(a, c) => FilesKnown(b, c)
         /\ DirsKnown(a, c, D) => DirsKnown(b, c, D)
  <1>1. c.dir \in Path /\ \A x \in c.files : x \in Seq(STRING)
    BY DEF CallRecord
  <1>2. \A x \in Seq(STRING) : Append(c.dir, x) # p
    <2> SUFFICES ASSUME NEW x \in Seq(STRING) PROVE IsPrefix(T, Append(c.dir, x))
      OBVIOUS
    <2>1. IsPrefix(c.dir, Append(c.dir, x)) /\ Append(c.dir, x) \in Path
      BY <1>1, Below
    <2> QED BY <1>1, <2>1, PrefixTransitive DEF Path
  <1>3. \A q \in Path : q # << >> /\ Front(q) = c.dir => q # p
    <2> SUFFICES ASSUME NEW q \in Path, q # << >>, Front(q) = c.dir PROVE q # p
      OBVIOUS
    <2>1. q = Append(c.dir, Last(q)) /\ Last(q) \in Seq(STRING)
      BY FrontAppend DEF Path
    <2> QED BY <1>2, <2>1
  <1>4. In(b, c.dir) \subseteq In(a, c.dir)
    BY <1>3 DEF In, SameBut
  <1>5. \A x \in c.files : Append(c.dir, x) \in a => Append(c.dir, x) \in b
    BY <1>1, <1>2 DEF SameBut
  <1> QED BY <1>4, <1>5 DEF FilesKnown, DirsKnown

(* When something is removed the lists still have all that is left. *)
LEMMA KnownAfter ==
  ASSUME NEW fs, NEW ds, NEW gs \in SUBSET fs, NEW es \in SUBSET ds, NEW c
  PROVE  /\ FilesKnown(fs, c) /\ c.files = {} => FilesKnown(gs, c)
         /\ \A D : DirsKnown(ds, c, D) => DirsKnown(es, c, D)
  BY DEF FilesKnown, DirsKnown, In

(* What a deletion knows after a step of its own: of the calls that the step *)
(* leaves alone, what it knew, of the others what is shown of them.          *)
LEMMA StackStaysKnown ==
  ASSUME NEW fs, NEW ds, NEW gs \in SUBSET fs, NEW es \in SUBSET ds,
         NEW s \in Seq(CallRecord), NEW t, NEW new \in Seq(CallRecord),
         Len(s) > 0, Len(new) > 0, StackKnown(fs, ds, s),
         new[1].dir = s[Len(s)].dir,
         Len(t) = Len(s) - 1 + Len(new),
         \A i \in 1 .. Len(s) - 1 : t[i] = s[i],
         \A i \in 1 .. Len(new) : t[Len(s) - 1 + i] = new[i],
         \A i \in 1 .. Len(new) : FilesKnown(gs, new[i]),
         \A i \in 1 .. Len(new) - 1 :
           new[i].files = {} /\ DirsKnown(es, new[i], {new[i + 1].dir}),
         DirsKnown(es, new[Len(new)], {})
  PROVE  StackKnown(gs, es, t)
  <1> DEFINE n == Len(s)
             m == Len(new)
  <1>1. /\ n \in Nat /\ n > 0 /\ m \in Nat /\ m > 0
    OBVIOUS
  <1>2. /\ Len(t) = n - 1 + m
        /\ \A i \in 1 .. n - 1 : t[i] = s[i]
        /\ \A i \in 1 .. m : t[n - 1 + i] = new[i]
    OBVIOUS
  <1>3. /\ \A i \in 1 .. n - 1 : FilesKnown(fs, s[i]) /\ s[i].files = {}
                                 /\ DirsKnown(ds, s[i], {s[i + 1].dir})
    <2>1. \A i \in 1 .. n - 1 : i \in 1 .. n
      BY <1>1
    <2>2. /\ \A i \in 1 .. n : FilesKnown(fs, s[i])
          /\ \A i \in 1 .. n - 1 :
               s[i].files = {} /\ DirsKnown(ds, s[i], {s[i + 1].dir})
      BY DEF StackKnown
    <2> HIDE DEF n
    <2> QED BY <2>1, <2>2
  <1>4. new[1].dir = s[n].dir
    OBVIOUS
  <1> HIDE DEF n, m
  <1>5. ASSUME NEW i \in 1 .. n - 1
        PROVE  t[i] = s[i] /\ t[i + 1].dir = s[i + 1].dir
    <2>1. CASE i + 1 \in 1 .. n - 1
      BY <1>2, <2>1
    <2>2. CASE i + 1 = n
      <3>1. t[n - 1 + 1] = new[1] /\ n - 1 + 1 = n
        BY <1>1, <1>2
      <3> QED BY <1>2, <1>4, <2>2, <3>1
    <2> QED BY <1>1, <1>2, <2>1, <2>2
  <1>6. ASSUME NEW i \in 1 .. Len(t), ~(i \in 1 .. n - 1)
        PROVE  /\ i - (n - 1) \in 1 .. m /\ t[i] = new[i - (n - 1)]
               /\ i + 1 \in 1 .. Len(t) => /\ i - (n - 1) \in 1 .. m - 1
                                           /\ t[i + 1] = new[i - (n - 1) + 1]
    <2>1. i - (n - 1) \in 1 .. m /\ n - 1 + (i - (n - 1)) = i
      BY <1>1, <1>2, <1>6
    <2>2. t[i] = new[i - (n - 1)]
      BY <1>2, <2>1
    <2>3. ASSUME i + 1 \in 1 .. Len(t)
          PROVE  /\ i - (n - 1) \in 1 .. m - 1
                 /\ i - (n - 1) + 1 \in 1 .. m
                 /\ n - 1 + (i - (n - 1) + 1) = i + 1
      BY <1>1, <1>2, <1>6, <2>3
    <2> QED BY <1>2, <2>1, <2>2, <2>3, SMTT(30)
  <1>7. ASSUME NEW i \in 1 .. Len(t)
        PROVE  FilesKnown(gs, t[i])
    <2>1. CASE i \in 1 .. n - 1
      <3>1. FilesKnown(gs, s[i])
        BY <1>3, <2>1, KnownAfter
      <3> QED BY <1>5, <2>1, <3>1
    <2>2. CASE ~(i \in 1 .. n - 1)
      BY <1>6, <2>2 DEF m
    <2> QED BY <2>1, <2>2
  <1>8. ASSUME NEW i \in 1 .. Len(t) - 1
        PROVE  t[i].files = {} /\ DirsKnown(es, t[i], {t[i + 1].dir})
    <2>0. i \in 1 .. Len(t) /\ i + 1 \in 1 .. Len(t)
      BY <1>1, <1>2
    <2>1. CASE i \in 1 .. n - 1
      <3>1. DirsKnown(es, s[i], {s[i + 1].dir})
        BY <1>3, <2>1, KnownAfter, ZenonT(60)
      <3> QED BY <1>3, <1>5, <2>1, <3>1
    <2>2. CASE ~(i \in 1 .. n - 1)
      <3> DEFINE j == i - (n - 1)
      <3>1. j \in 1 .. Len(new) - 1 /\ t[i] = new[j] /\ t[i + 1] = new[j + 1]
        BY <1>6, <2>0, <2>2 DEF m
      <3> HIDE DEF j
      <3> QED BY <3>1
    <2> QED BY <2>1, <2>2
  <1>9. DirsKnown(es, t[Len(t)], {})
    <2>1. m \in 1 .. m /\ Len(t) = n - 1 + m
      BY <1>1, <1>2
    <2>2. t[Len(t)] = new[m]
      BY <1>2, <2>1
    <2> QED BY <2>2 DEF m
  <1> QED BY <1>7, <1>8, <1>9 DEF StackKnown

(* Between deletions there is nothing to know, and no error. *)
LEMMA UndisturbedIdle ==
  ASSUME TreeInv', NEW h \in Handle, stack'[h] = << >>
  PROVE  Undisturbed(h)'
  <1>1. ~cancel'[h]
    BY DEF TreeInv, CallsSound, Deleting
  <1>2. Len(<< >>) = 0
    OBVIOUS
  <1>3. StackKnown(files', dirs', << >>)
    BY <1>2 DEF StackKnown
  <1> QED BY <1>1, <1>3 DEF Undisturbed

(* What another handle does below the target marks the deletion; what it    *)
(* does elsewhere is nothing to it.                                         *)
LEMMA UndisturbedByOthers ==
  ASSUME TreeInv, TreeInv', NEW h \in Handle, Undisturbed(h),
         stack'[h] = stack[h], cancel'[h] = cancel[h],
         NEW p,
         SameBut(p, files, files'), SameBut(p, dirs, dirs'),
         touched[h] => touched'[h],
         Deleting(h) /\ IsPrefix(Target(h), p) => touched'[h]
  PROVE  Undisturbed(h)'
  <1>1. CASE stack[h] = << >>
    BY <1>1, UndisturbedIdle
  <1>2. CASE touched'[h]
    BY <1>2 DEF Undisturbed
  <1>3. CASE stack[h] # << >> /\ ~touched'[h]
    <2> DEFINE s == stack[h]
    <2>1. /\ StackKnown(files, dirs, s) /\ ~cancel[h] /\ s # << >>
          /\ Deleting(h) /\ ~IsPrefix(Target(h), p)
      BY <1>3 DEF Undisturbed, Deleting
    <2>2. /\ files \in SUBSET Path /\ dirs \in SUBSET Path
          /\ files' \in SUBSET Path /\ dirs' \in SUBSET Path
      BY DEF TreeInv, TreeSound, Entries
    <2>3. /\ s \in Seq(CallRecord) /\ Len(s) \in 1 .. Len(s) /\ Len(s) \in Nat
          /\ Target(h) \in Path
          /\ \A i \in 1 .. Len(s) : IsPrefix(Target(h), s[i].dir)
      BY <2>1, TopTypes DEF TreeInv, CallsSound
    <2> HIDE DEF s
    <2>4. ASSUME NEW i \in 1 .. Len(s)
          PROVE  /\ FilesKnown(files, s[i]) => FilesKnown(files', s[i])
                 /\ \A D : DirsKnown(dirs, s[i], D) => DirsKnown(dirs', s[i], D)
      <3>1. s[i] \in CallRecord /\ IsPrefix(Target(h), s[i].dir)
        BY <2>3
      <3>2. \A D : \A a, b \in SUBSET Path, T \in Path :
              SameBut(p, a, b) /\ ~IsPrefix(T, p) /\ IsPrefix(T, s[i].dir)
              => /\ FilesKnown(a, s[i]) => FilesKnown(b, s[i])
                 /\ DirsKnown(a, s[i], D) => DirsKnown(b, s[i], D)
        BY <3>1, KnownElsewhere
      <3> QED BY <2>1, <2>2, <2>3, <3>1, <3>2
    <2>5. \A i \in 1 .. Len(s) : FilesKnown(files', s[i])
      BY <2>1, <2>4 DEF StackKnown
    <2>6. ASSUME NEW i \in 1 .. Len(s) - 1
          PROVE  s[i].files = {} /\ DirsKnown(dirs', s[i], {s[i + 1].dir})
      <3>1. i \in 1 .. Len(s)
        BY <2>3
      <3>2. s[i].files = {} /\ DirsKnown(dirs, s[i], {s[i + 1].dir})
        BY <2>1 DEF StackKnown
      <3> QED BY <2>4, <3>1, <3>2
    <2>7. DirsKnown(dirs', s[Len(s)], {})
      BY <2>1, <2>3, <2>4 DEF StackKnown
    <2>8. StackKnown(files', dirs', s)
      BY <2>5, <2>6, <2>7 DEF StackKnown
    <2> QED BY <2>1, <2>8 DEF s, Undisturbed
  <1> QED BY <1>1, <1>2, <1>3

(* A deletion begins with the call for its target. *)
LEMMA UndisturbedBegin ==
  ASSUME TreeInv, NEW h \in Handle, NEW n \in Name, DeleteDirectory(h, n)
  PROVE  Undisturbed(h)'
  <1> DEFINE d == Append(path[h], n)
             c == Call(h, d)
  <1>1. /\ stack' = [stack EXCEPT ![h] = << c >>] /\ stack \in [Handle -> Seq(CallRecord)]
        /\ UNCHANGED <<treeVars, cancel>>
        /\ ~cancel[h] /\ path[h] \in Seq(Name) /\ TreeSound
    BY DEF DeleteDirectory, Idle, TreeInv, CallsSound, StateTypes
  <1>2. d \in Path
    BY <1>1, Paths
  <1> HIDE DEF d
  <1>3. c \in CallRecord /\ FilesKnown(files, c) /\ DirsKnown(dirs, c, {})
    BY <1>1, <1>2, CallTypes, ListedCall
  <1> HIDE DEF c
  <1>4. StackKnown(files, dirs, << c >>)
    BY <1>3 DEF StackKnown
  <1>5. stack'[h] = << c >> /\ cancel'[h] = cancel[h]
    BY <1>1
  <1> QED BY <1>1, <1>4, <1>5 DEF Undisturbed, treeVars

(* A step of the deletion itself, from what Replaced says of its stack. *)
LEMMA UndisturbedStep ==
  ASSUME TreeInv, NEW h \in Handle, Deleting(h), Undisturbed(h),
         touched'[h] = touched[h], ~touched[h] => ~cancel'[h],
         files' \subseteq files, dirs' \subseteq dirs,
         NEW new \in Seq(CallRecord), new # << >>,
         \A i \in 1 .. Len(new) : IsPrefix(Top(h).dir, new[i].dir),
         new[1].dir = Top(h).dir,
         stack' = [stack EXCEPT ![h] = Front(stack[h]) \o new],
         ~touched[h] =>
           /\ \A i \in 1 .. Len(new) : FilesKnown(files', new[i])
           /\ \A i \in 1 .. Len(new) - 1 :
                new[i].files = {} /\ DirsKnown(dirs', new[i], {new[i + 1].dir})
           /\ DirsKnown(dirs', new[Len(new)], {})
  PROVE  Undisturbed(h)'
  <1> SUFFICES ASSUME ~touched[h] PROVE StackKnown(files', dirs', stack'[h])
    BY DEF Undisturbed
  <1> DEFINE s == stack[h]
             t == stack'[h]
  <1>1. /\ s \in Seq(CallRecord) /\ Len(s) > 0 /\ Top(h) = s[Len(s)]
        /\ StackKnown(files, dirs, s)
    BY TopTypes DEF Undisturbed
  <1>2. Len(new) > 0
    BY EmptySeq
  <1>3. /\ Len(t) = Len(s) - 1 + Len(new)
        /\ \A i \in 1 .. Len(s) - 1 : t[i] = s[i]
        /\ \A i \in 1 .. Len(new) : t[Len(s) - 1 + i] = new[i]
    BY Replaced
  <1>4. new[1].dir = s[Len(s)].dir
    BY <1>1
  <1> HIDE DEF s, t
  <1>5. StackKnown(files', dirs', t)
    BY <1>1, <1>2, <1>3, <1>4, StackStaysKnown
  <1> QED BY <1>5 DEF t

(* What an undisturbed deletion knows of the call on top. *)
LEMMA TopKnown ==
  ASSUME TreeInv, NEW h \in Handle, Deleting(h), Undisturbed(h), ~touched[h]
  PROVE  ~cancel[h] /\ FilesKnown(files, Top(h)) /\ DirsKnown(dirs, Top(h), {})
  <1>1. /\ Top(h) = stack[h][Len(stack[h])] /\ Len(stack[h]) \in 1 .. Len(stack[h])
    BY TopTypes
  <1> QED BY <1>1 DEF Undisturbed, StackKnown, Deleting

(* What it has listed as a file is one, and is removed. *)
LEMMA UndisturbedEntry ==
  ASSUME TreeInv, NEW h \in Handle, Undisturbed(h), DeleteEntry(h)
  PROVE  Undisturbed(h)'
  <1>1. PICK n \in Top(h).files :
          /\ Forget(h, "files", n)
          /\ \/ /\ Unlink(h, Append(Top(h).dir, n)) /\ UNCHANGED cancel
             \/ /\ ~Removable(Append(Top(h).dir, n))
                /\ cancel' = [cancel EXCEPT ![h] = TRUE]
                /\ UNCHANGED <<treeVars, touched>>
    BY DEF DeleteEntry, Deleted
  <1>2. Deleting(h)
    BY DEF DeleteEntry, Step
  <1> DEFINE p == Append(Top(h).dir, n)
             r == Struck(Top(h), "files", n)
             new == << r >>
             t == Top(h)
  <1>3. /\ t \in CallRecord /\ t.dir \in Path /\ n \in Seq(STRING) /\ n \in t.files
        /\ IsPrefix(t.dir, t.dir)
    BY <1>1, <1>2, TopTypes, Below DEF CallRecord
  <1>4. /\ r \in CallRecord /\ r.dir = t.dir /\ r.files = t.files \ {n}
        /\ r.directories = t.directories
    BY <1>3, StruckOff
  <1>5. stack' = [stack EXCEPT ![h] = Front(stack[h]) \o new]
    BY <1>1, <1>2, Forgotten
  <1>6. touched'[h] = touched[h] /\ files' \subseteq files /\ dirs' \subseteq dirs
    BY <1>1 DEF Unlink, Touch, treeVars, TreeInv, StateTypes
  <1>7. ASSUME ~touched[h]
        PROVE  /\ ~cancel'[h] /\ FilesKnown(files', r) /\ DirsKnown(dirs', r, {})
    <2>1. ~cancel[h] /\ FilesKnown(files, t) /\ DirsKnown(dirs, t, {})
      BY <1>2, <1>7, TopKnown
    <2>2. p \in files
      BY <1>3, <2>1 DEF FilesKnown
    <2>3. UNCHANGED cancel /\ files' = files \ {p} /\ dirs' = dirs \ {p}
      BY <1>1, <2>2 DEF Removable, Unlink
    <2> HIDE DEF r, t
    <2>4. ASSUME NEW q \in In(files', r.dir)
          PROVE  Last(q) \in r.files
      <3>1. q \in files /\ q # p /\ q # << >> /\ Front(q) = t.dir
        BY <1>4, <2>3, <2>4 DEF In
      <3>2. q \in Path
        BY <3>1 DEF TreeInv, TreeSound, Entries
      <3>3. q = Append(t.dir, Last(q))
        BY <3>1, <3>2, FrontAppend DEF Path
      <3>4. Last(q) # n
        BY <3>1, <3>3 DEF t
      <3>5. Last(q) \in t.files
        BY <2>1, <3>1 DEF FilesKnown, In
      <3> QED BY <1>4, <3>4, <3>5
    <2>5. ASSUME NEW x \in r.files
          PROVE  Append(r.dir, x) \in files'
      <3>1. x \in t.files /\ x # n /\ x \in Seq(STRING)
        BY <1>3, <1>4, <2>5 DEF CallRecord
      <3>2. Append(t.dir, x) \in files
        BY <2>1, <3>1 DEF FilesKnown
      <3>3. Last(Append(t.dir, x)) = x /\ Last(Append(t.dir, n)) = n
        BY <1>3, <3>1, Below
      <3>4. Append(t.dir, x) # p
        BY <3>1, <3>3 DEF t
      <3> QED BY <1>4, <2>3, <3>2, <3>4
    <2>6. DirsKnown(dirs', r, {})
      BY <1>4, <2>1, <2>3 DEF DirsKnown, In
    <2> QED BY <2>1, <2>3, <2>4, <2>5, <2>6 DEF FilesKnown
  <1> HIDE DEF r, p
  <1>8. /\ new \in Seq(CallRecord) /\ new # << >> /\ new[1] = r /\ Len(new) = 1
        /\ \A i \in 1 .. Len(new) : new[i] = r
    BY <1>4
  <1> HIDE DEF new, t
  <1>9. /\ \A i \in 1 .. Len(new) : IsPrefix(t.dir, new[i].dir)
        /\ new[1].dir = t.dir
    BY <1>3, <1>4, <1>8
  <1>10. ~touched[h] =>
           /\ \A i \in 1 .. Len(new) : FilesKnown(files', new[i])
           /\ \A i \in 1 .. Len(new) - 1 :
                new[i].files = {} /\ DirsKnown(dirs', new[i], {new[i + 1].dir})
           /\ DirsKnown(dirs', new[Len(new)], {})
    BY <1>7, <1>8
  <1> QED BY <1>2, <1>5, <1>6, <1>7, <1>8, <1>9, <1>10, UndisturbedStep DEF t

(* "." and ".." are no directories in it. *)
LEMMA UndisturbedSkip ==
  ASSUME TreeInv, NEW h \in Handle, Undisturbed(h), Skip(h)
  PROVE  Undisturbed(h)'
  <1>1. PICK n : (n \in {Dot, DotDot} \/ cancel[h]) /\ Forget(h, "directories", n)
    BY DEF Skip, Skipped
  <1>2. Deleting(h) /\ UNCHANGED <<treeVars, cancel, touched>>
    BY DEF Skip, Step
  <1> DEFINE r == Struck(Top(h), "directories", n)
             new == << r >>
             t == Top(h)
  <1>3. t \in CallRecord /\ t.dir \in Path /\ IsPrefix(t.dir, t.dir)
    <2>1. t \in CallRecord /\ t.dir \in Path /\ << >> \in Seq(STRING)
      BY <1>2, TopTypes
    <2> QED BY <2>1, Below
  <1>4. /\ r \in CallRecord /\ r.dir = t.dir /\ r.files = t.files
        /\ r.directories = t.directories \ {n}
    BY <1>3, StruckOff
  <1>5. stack' = [stack EXCEPT ![h] = Front(stack[h]) \o new]
    BY <1>1, <1>2, Forgotten
  <1>6. touched'[h] = touched[h] /\ files' = files /\ dirs' = dirs
        /\ cancel'[h] = cancel[h]
    BY <1>2 DEF treeVars
  <1>7. ASSUME ~touched[h]
        PROVE  /\ ~cancel[h] /\ FilesKnown(files, r) /\ DirsKnown(dirs, r, {})
    <2>1. ~cancel[h] /\ FilesKnown(files, t) /\ DirsKnown(dirs, t, {})
      BY <1>2, <1>7, TopKnown
    <2>2. n \in {Dot, DotDot}
      BY <1>1, <2>1
    <2>3. \A p \in dirs : Last(p) # n
      BY <2>2, NameAssumption DEF TreeInv, TreeSound
    <2> HIDE DEF r, t
    <2> QED BY <1>4, <2>1, <2>3 DEF FilesKnown, DirsKnown, In
  <1> HIDE DEF r
  <1>8. /\ new \in Seq(CallRecord) /\ new # << >> /\ new[1] = r /\ Len(new) = 1
        /\ \A i \in 1 .. Len(new) : new[i] = r
    BY <1>4
  <1> HIDE DEF new, t
  <1>9. /\ \A i \in 1 .. Len(new) : IsPrefix(t.dir, new[i].dir)
        /\ new[1].dir = t.dir
    BY <1>3, <1>4, <1>8
  <1>10. ~touched[h] =>
           /\ \A i \in 1 .. Len(new) : FilesKnown(files', new[i])
           /\ \A i \in 1 .. Len(new) - 1 :
                new[i].files = {} /\ DirsKnown(dirs', new[i], {new[i + 1].dir})
           /\ DirsKnown(dirs', new[Len(new)], {})
    BY <1>6, <1>7, <1>8
  <1> QED BY <1>2, <1>5, <1>6, <1>7, <1>8, <1>9, <1>10, UndisturbedStep DEF t

(* A subdirectory that is entered is in the next call's hands. *)
LEMMA UndisturbedRecurse ==
  ASSUME TreeInv, NEW h \in Handle, Undisturbed(h), Recurse(h)
  PROVE  Undisturbed(h)'
  <1>1. Deleting(h) /\ Top(h).files = {} /\ UNCHANGED <<treeVars, cancel, touched>>
    BY DEF Recurse, Step
  <1>2. PICK n \in Top(h).directories :
           /\ n \in Seq(STRING)
           /\ Struck(Top(h), "directories", n) \in CallRecord
           /\ Call(h, Append(Top(h).dir, n)) \in CallRecord
           /\ Call(h, Append(Top(h).dir, n)).dir = Append(Top(h).dir, n)
           /\ Append(Top(h).dir, n) \in Path
           /\ stack' = [stack EXCEPT ![h] = Front(stack[h]) \o
                << Struck(Top(h), "directories", n),
                   Call(h, Append(Top(h).dir, n)) >>]
    BY Entered
  <1> DEFINE t == Top(h)
             d == Append(t.dir, n)
             a == Struck(t, "directories", n)
             b == Call(h, d)
             new == << a, b >>
  <1>3. /\ t \in CallRecord /\ t.dir \in Path /\ n \in Seq(STRING)
        /\ a \in CallRecord /\ b \in CallRecord /\ b.dir = d /\ d \in Path
        /\ stack' = [stack EXCEPT ![h] = Front(stack[h]) \o new]
    BY <1>1, <1>2, TopTypes
  <1>4. /\ a.dir = t.dir /\ a.files = {} /\ a.directories = t.directories \ {n}
    BY <1>1, <1>3, StruckOff
  <1>5. IsPrefix(t.dir, t.dir) /\ IsPrefix(t.dir, d)
    BY <1>3, Below
  <1>6. touched'[h] = touched[h] /\ files' = files /\ dirs' = dirs
        /\ cancel'[h] = cancel[h]
    BY <1>1 DEF treeVars
  <1>7. ASSUME ~touched[h]
        PROVE  /\ ~cancel[h]
               /\ FilesKnown(files, a) /\ DirsKnown(dirs, a, {d})
               /\ FilesKnown(files, b) /\ DirsKnown(dirs, b, {})
    <2>1. ~cancel[h] /\ FilesKnown(files, t) /\ DirsKnown(dirs, t, {})
      BY <1>1, <1>7, TopKnown
    <2>2. FilesKnown(files, b) /\ DirsKnown(dirs, b, {})
      <3> HIDE DEF d
      <3> QED BY <1>3, ListedCall DEF TreeInv
    <2>3. t.files = {}
      BY <1>1
    <2> HIDE DEF a, b, t
    <2>4. FilesKnown(files, a)
      BY <1>4, <2>1, <2>3 DEF FilesKnown
    <2>5. ASSUME NEW p \in In(dirs, a.dir)
          PROVE  Last(p) \in a.directories \/ p \in {d}
      <3>1. p \in dirs /\ p # << >> /\ Front(p) = t.dir
        BY <1>4, <2>5 DEF In
      <3>2. p \in Path
        BY <3>1 DEF TreeInv, TreeSound, Entries
      <3>3. p = Append(t.dir, Last(p))
        BY <3>1, <3>2, FrontAppend DEF Path
      <3>4. Last(p) \in t.directories
        BY <2>1, <3>1 DEF DirsKnown, In
      <3>5. CASE Last(p) = n
        BY <3>3, <3>5
      <3>6. CASE Last(p) # n
        BY <1>4, <3>4, <3>6
      <3> QED BY <3>5, <3>6
    <2>6. DirsKnown(dirs, a, {d})
      BY <2>5 DEF DirsKnown
    <2> QED BY <2>1, <2>2, <2>4, <2>6
  <1> HIDE DEF a, b, d
  <1>8. /\ new \in Seq(CallRecord) /\ new # << >> /\ Len(new) = 2
        /\ new[1] = a /\ new[2] = b
    BY <1>3
  <1> HIDE DEF new, t
  <1>9. /\ \A i \in 1 .. Len(new) : i = 1 \/ i = 2
        /\ \A i \in 1 .. Len(new) - 1 : i = 1 /\ i + 1 = 2
    BY <1>8
  <1>10. /\ \A i \in 1 .. Len(new) : IsPrefix(t.dir, new[i].dir)
         /\ new[1].dir = t.dir
    BY <1>3, <1>4, <1>5, <1>8, <1>9
  <1>11. ~touched[h] => \A i \in 1 .. Len(new) : FilesKnown(files', new[i])
    BY <1>6, <1>7, <1>8, <1>9
  <1>12. ~touched[h] =>
           \A i \in 1 .. Len(new) - 1 :
             new[i].files = {} /\ DirsKnown(dirs', new[i], {new[i + 1].dir})
    BY <1>3, <1>4, <1>6, <1>7, <1>8, <1>9
  <1>13. ~touched[h] => DirsKnown(dirs', new[Len(new)], {})
    BY <1>6, <1>7, <1>8
  <1> QED BY <1>1, <1>3, <1>6, <1>7, <1>8, <1>10, <1>11, <1>12, <1>13,
             UndisturbedStep DEF t

(* A call that returns left its directory empty, and rmdir removed it. *)
LEMMA ReturnsEmpty ==
  ASSUME TreeInv, NEW h \in Handle, Undisturbed(h), Return(h), ~touched[h]
  PROVE  Top(h).dir \notin dirs'
  <1>1. /\ Deleting(h) /\ Top(h).files = {} /\ Top(h).directories = {}
        /\ \/ Unlink(h, Top(h).dir)
           \/ ~Gone(Top(h).dir) /\ UNCHANGED treeVars
    BY DEF Return, Step, treeVars
  <1>2. FilesKnown(files, Top(h)) /\ DirsKnown(dirs, Top(h), {})
    BY <1>1, TopKnown
  <1>3. In(files, Top(h).dir) = {} /\ In(dirs, Top(h).dir) = {}
    BY <1>1, <1>2 DEF FilesKnown, DirsKnown
  <1>4. Children(Top(h).dir) = {}
    BY <1>3 DEF In, Children, Entries
  <1>5. CASE Unlink(h, Top(h).dir)
    BY <1>5 DEF Unlink
  <1>6. CASE ~Gone(Top(h).dir) /\ UNCHANGED treeVars
    BY <1>4, <1>6 DEF Gone, Empty, treeVars
  <1> QED BY <1>1, <1>5, <1>6

LEMMA UndisturbedReturn ==
  ASSUME TreeInv, TreeInv', NEW h \in Handle, Undisturbed(h), Return(h)
  PROVE  Undisturbed(h)'
  <1> DEFINE s == stack[h]
             n == Len(s)
             t == stack'[h]
             d == Top(h).dir
  <1>1. /\ Deleting(h)
        /\ stack' = [stack EXCEPT ![h] = Front(@)]
        /\ cancel' = [cancel EXCEPT ![h] = @ /\ Len(stack[h]) > 1]
        /\ Unlink(h, d) \/ UNCHANGED <<treeVars, touched>>
    BY DEF Return, Step
  <1>2. /\ stack \in [Handle -> Seq(CallRecord)] /\ cancel \in [Handle -> BOOLEAN]
        /\ touched \in [Handle -> BOOLEAN]
    BY DEF TreeInv, StateTypes
  <1>3. /\ touched'[h] = touched[h] /\ files' \subseteq files /\ dirs' \subseteq dirs
        /\ cancel'[h] => cancel[h]
    BY <1>1, <1>2 DEF Unlink, Touch, treeVars
  <1>4. /\ t = Front(s) /\ n \in Nat /\ n > 0 /\ Len(t) = n - 1
        /\ \A i \in 1 .. n - 1 : t[i] = s[i]
        /\ Top(h) = s[n]
    BY <1>1, <1>2, TopTypes
  <1>5. CASE t = << >>
    BY <1>5, UndisturbedIdle
  <1>6. CASE t # << >> /\ ~touched[h]
    <2>1. StackKnown(files, dirs, s) /\ ~cancel[h]
      BY <1>6 DEF Undisturbed
    <2>2. d \notin dirs'
      BY <1>6, ReturnsEmpty
    <2> DEFINE m == n - 1
    <2>3. m \in Nat /\ m > 0 /\ m + 1 = n /\ Len(t) = m
      <3>1. Len(t) # 0
        BY <1>2, <1>4, <1>6, EmptySeq, FrontElements
      <3> HIDE DEF t, n
      <3> QED BY <1>4, <3>1
    <2>4. s[m + 1].dir = d
      BY <1>4, <2>3
    <2> HIDE DEF d, m, t
    <2>5. /\ \A i \in 1 .. m : FilesKnown(files, s[i]) /\ s[i].files = {}
                               /\ DirsKnown(dirs, s[i], {s[i + 1].dir})
      <3>1. \A i \in 1 .. m : i \in 1 .. n
        BY <1>4, <2>3
      <3> QED BY <2>1, <3>1 DEF StackKnown, m
    <2>6. ASSUME NEW i \in 1 .. m
          PROVE  /\ FilesKnown(files', s[i]) /\ t[i] = s[i]
                 /\ DirsKnown(dirs', s[i], {s[i + 1].dir})
      <3>1. t[i] = s[i]
        BY <1>4, <2>6 DEF m
      <3>2. files' \in SUBSET files /\ dirs' \in SUBSET dirs
        BY <1>3
      <3>3. /\ FilesKnown(files, s[i]) /\ s[i].files = {}
            /\ DirsKnown(dirs, s[i], {s[i + 1].dir})
        BY <2>5, <2>6
      <3>4. FilesKnown(files', s[i])
        BY <3>2, <3>3, KnownAfter
      <3>5. DirsKnown(dirs', s[i], {s[i + 1].dir})
        BY <3>2, <3>3, KnownAfter
      <3> QED BY <3>1, <3>4, <3>5
    <2>7. DirsKnown(dirs', t[Len(t)], {})
      <3>1. m \in 1 .. m
        BY <2>3
      <3>2. DirsKnown(dirs', s[m], {d}) /\ t[m] = s[m]
        BY <2>4, <2>6, <3>1
      <3>3. DirsKnown(dirs', s[m], {})
        BY <2>2, <3>2 DEF DirsKnown, In
      <3> QED BY <2>3, <3>2, <3>3
    <2>8. ASSUME NEW i \in 1 .. Len(t) - 1
          PROVE  t[i].files = {} /\ DirsKnown(dirs', t[i], {t[i + 1].dir})
      <3>1. i \in 1 .. m /\ i + 1 \in 1 .. m
        BY <2>3
      <3> QED BY <2>5, <2>6, <3>1
    <2>9. \A i \in 1 .. Len(t) : FilesKnown(files', t[i])
      BY <2>3, <2>6
    <2>10. StackKnown(files', dirs', t)
      BY <2>7, <2>8, <2>9 DEF StackKnown
    <2> QED BY <1>3, <2>1, <2>10 DEF Undisturbed, t
  <1>7. CASE touched[h]
    BY <1>3, <1>7 DEF Undisturbed
  <1> QED BY <1>5, <1>6, <1>7

(* What a step of g does to the tree as another handle sees it: it changes   *)
(* one entry, if any, and marks the deletions that the entry is below.       *)
LEMMA OthersSeen ==
  ASSUME TreeInv, NEW g \in Handle, NEW n, NEW h \in Handle, h # g,
         \/ ChangeUp(g) \/ ClearLists(g) \/ Delete(g)
         \/ ChangeDir(g, n) \/ CreateDirectory(g, n) \/ CreateFile(g, n)
         \/ OpenToWrite(g, n) \/ DeleteFile(g, n) \/ DeleteDirectory(g, n)
  PROVE  \E p : /\ SameBut(p, files, files') /\ SameBut(p, dirs, dirs')
                /\ touched[h] => touched'[h]
                /\ Deleting(h) /\ IsPrefix(Target(h), p) =>
                     touched'[h] \/ UNCHANGED treeVars
  <1>1. touched \in [Handle -> BOOLEAN]
    BY DEF TreeInv, StateTypes
  <1>2. ASSUME UNCHANGED treeVars, touched'[h] = touched[h]
        PROVE  \E p : /\ SameBut(p, files, files') /\ SameBut(p, dirs, dirs')
                      /\ touched[h] => touched'[h]
                      /\ Deleting(h) /\ IsPrefix(Target(h), p) =>
                           touched'[h] \/ UNCHANGED treeVars
    BY <1>2 DEF SameBut, treeVars
  <1>3. ASSUME NEW p, Touch(g, p), SameBut(p, files, files'),
               SameBut(p, dirs, dirs')
        PROVE  \E q : /\ SameBut(q, files, files') /\ SameBut(q, dirs, dirs')
                      /\ touched[h] => touched'[h]
                      /\ Deleting(h) /\ IsPrefix(Target(h), q) =>
                           touched'[h] \/ UNCHANGED treeVars
    BY <1>3 DEF Touch
  <1>4. ASSUME NEW p, MakeFile(g, p) \/ MakeDir(g, p) \/ Unlink(g, p)
        PROVE  /\ Touch(g, p) /\ SameBut(p, files, files')
               /\ SameBut(p, dirs, dirs')
    BY <1>4 DEF MakeFile, MakeDir, Unlink, SameBut
  <1>5. CASE \/ ChangeUp(g) \/ ClearLists(g) \/ ChangeDir(g, n)
             \/ Skip(g) \/ Recurse(g)
    BY <1>2, <1>5 DEF ChangeUp, ClearLists, ChangeDir, Skip, Recurse
  <1>6. CASE DeleteDirectory(g, n)
    <2>1. UNCHANGED treeVars /\ touched'[h] = touched[h]
      BY <1>1, <1>6 DEF DeleteDirectory
    <2> QED BY <1>2, <2>1
  <1>7. CASE \/ CreateDirectory(g, n) \/ CreateFile(g, n) \/ OpenToWrite(g, n)
             \/ DeleteFile(g, n)
    <2>1. PICK p : MakeFile(g, p) \/ MakeDir(g, p) \/ Unlink(g, p)
      BY <1>7 DEF CreateDirectory, CreateFile, OpenToWrite, DeleteFile
    <2> QED BY <1>3, <1>4, <2>1
  <1>8. CASE DeleteEntry(g) \/ Return(g)
    <2>1. PICK p : Unlink(g, p) \/ UNCHANGED <<treeVars, touched>>
      BY <1>8 DEF DeleteEntry, Return
    <2>2. CASE Unlink(g, p)
      BY <1>3, <1>4, <2>2
    <2>3. CASE UNCHANGED <<treeVars, touched>>
      BY <1>2, <2>3
    <2> QED BY <2>1, <2>2, <2>3
  <1> QED BY <1>5, <1>6, <1>7, <1>8 DEF Delete

LEMMA WholeInit == Init => WholeInv
  <1> SUFFICES ASSUME Init, NEW h \in Handle PROVE Undisturbed(h)
    BY DEF WholeInv
  <1>1. stack[h] = << >> /\ ~cancel[h] /\ Len(<< >>) = 0
    BY DEF Init, Fresh
  <1> QED BY <1>1 DEF Undisturbed, StackKnown

LEMMA WholeStep == TreeInv /\ TreeInv' /\ WholeInv /\ [Next]_vars => WholeInv'
  <1> SUFFICES ASSUME TreeInv, TreeInv', WholeInv, [Next]_vars, NEW h \in Handle
               PROVE  Undisturbed(h)'
    BY DEF WholeInv
  <1>0. Undisturbed(h)
    BY DEF WholeInv
  <1>1. CASE UNCHANGED vars
    BY <1>0, <1>1 DEF vars, treeVars, callVars, Undisturbed
  <1>2. ASSUME NEW g \in Handle, NEW n, OpenShort(g, n)
        PROVE  Undisturbed(h)'
    <2>1. stack'[h] = << >>
      BY <1>2 DEF OpenShort, Fresh
    <2> QED BY <2>1, UndisturbedIdle
  <1>3. ASSUME NEW g \in Handle, g # h, NEW n,
               \/ ChangeUp(g) \/ ClearLists(g) \/ Delete(g)
               \/ ChangeDir(g, n) \/ CreateDirectory(g, n) \/ CreateFile(g, n)
               \/ OpenToWrite(g, n) \/ DeleteFile(g, n) \/ DeleteDirectory(g, n)
        PROVE  Undisturbed(h)'
    <2>1. stack'[h] = stack[h] /\ cancel'[h] = cancel[h]
      BY <1>3, OthersCalls
    <2>2. PICK p : /\ SameBut(p, files, files') /\ SameBut(p, dirs, dirs')
                   /\ touched[h] => touched'[h]
                   /\ Deleting(h) /\ IsPrefix(Target(h), p) =>
                        touched'[h] \/ UNCHANGED treeVars
      BY <1>3, OthersSeen
    <2>3. CASE UNCHANGED treeVars
      BY <1>0, <2>1, <2>2, <2>3 DEF Undisturbed, treeVars
    <2>4. CASE ~UNCHANGED treeVars
      BY <1>0, <2>1, <2>2, <2>4, UndisturbedByOthers
    <2> QED BY <2>3, <2>4
  <1>4. ASSUME NEW n, \/ ChangeUp(h) \/ ClearLists(h) \/ ChangeDir(h, n)
               \/ CreateDirectory(h, n) \/ CreateFile(h, n)
               \/ OpenToWrite(h, n) \/ DeleteFile(h, n)
        PROVE  Undisturbed(h)'
    <2>1. Idle(h) /\ UNCHANGED callVars
      BY <1>4 DEF ChangeUp, ClearLists, ChangeDir, CreateDirectory,
                  CreateFile, OpenToWrite, DeleteFile
    <2>2. stack'[h] = << >>
      BY <2>1 DEF Idle, Deleting, callVars
    <2> QED BY <2>2, UndisturbedIdle
  <1>5. ASSUME NEW n \in Name, DeleteDirectory(h, n)
        PROVE  Undisturbed(h)'
    BY <1>5, UndisturbedBegin
  <1>6. CASE Delete(h)
    BY <1>0, <1>6, UndisturbedEntry, UndisturbedSkip, UndisturbedRecurse,
       UndisturbedReturn DEF Delete
  <1> QED BY <1>1, <1>2, <1>3, <1>4, <1>5, <1>6 DEF Next

(* deleteDirectory ends with its last return, unless the process does. *)
LEMMA EndsByReturn ==
  ASSUME TreeInv, [Next]_vars, NEW h \in Handle, Deleting(h), stack'[h] = << >>
  PROVE  ~alive' \/ (Return(h) /\ Top(h).dir = Target(h))
  <1>1. stack[h] # << >>
    BY DEF Deleting
  <1>2. CASE UNCHANGED vars
    BY <1>1, <1>2 DEF vars, callVars
  <1>3. ASSUME NEW g \in Handle, NEW n, OpenShort(g, n)
        PROVE  ~alive'
    BY <1>3 DEF OpenShort
  <1>4. ASSUME NEW g \in Handle, NEW n,
               \/ ChangeUp(g) \/ ClearLists(g) \/ Delete(g)
               \/ ChangeDir(g, n) \/ CreateDirectory(g, n) \/ CreateFile(g, n)
               \/ OpenToWrite(g, n) \/ DeleteFile(g, n) \/ DeleteDirectory(g, n)
        PROVE  Delete(h)
    <2>1. g = h
      BY <1>1, <1>4, OthersCalls
    <2>2. ~Idle(h)
      BY DEF Idle
    <2> QED BY <1>4, <2>1, <2>2
            DEF ChangeUp, ClearLists, ChangeDir, CreateDirectory, CreateFile,
                OpenToWrite, DeleteFile, DeleteDirectory
  <1>5. CASE DeleteEntry(h)
    BY <1>5, Forgotten DEF DeleteEntry
  <1>6. CASE Skip(h)
    BY <1>6, Forgotten DEF Skip
  <1>7. CASE Recurse(h)
    <2>1. PICK a \in CallRecord, b \in CallRecord :
            stack' = [stack EXCEPT ![h] = Front(stack[h]) \o << a, b >>]
      BY <1>7, Entered
    <2>2. Front(stack[h]) \in Seq(CallRecord) /\ stack \in [Handle -> Seq(CallRecord)]
      BY TopTypes DEF TreeInv, StateTypes
    <2>3. \A x, y \in Seq(CallRecord) : Len(x \o y) = Len(x) + Len(y) /\ Len(x) \in Nat
      BY JoinedElements
    <2>4. << a, b >> \in Seq(CallRecord) /\ Len(<< a, b >>) = 2
      OBVIOUS
    <2>5. Len(Front(stack[h]) \o << a, b >>) > 0
      BY <2>2, <2>3, <2>4
    <2>6. Front(stack[h]) \o << a, b >> # << >>
      BY <2>5
    <2> QED BY <2>1, <2>2, <2>6
  <1>8. CASE Return(h)
    <2>1. stack'[h] = Front(stack[h])
      BY <1>8 DEF Return, TreeInv, StateTypes
    <2>2. Len(Front(stack[h])) = 0
      BY <2>1
    <2>3. Len(stack[h]) = 1
      <3> DEFINE a == Len(Front(stack[h]))
                 b == Len(stack[h])
      <3>1. a = b - 1 /\ b \in Nat /\ a = 0
        BY <2>2, TopTypes
      <3>2. b = 1
        <4> HIDE DEF a, b
        <4> QED BY <3>1
      <3> QED BY <3>2
    <2> QED BY <1>8, <2>3, TopTypes
  <1> QED BY <1>2, <1>3, <1>4, <1>5, <1>6, <1>7, <1>8 DEF Next, Delete

(* A deletion below which no other handle changes anything meets no error,   *)
(* and the directory is gone when it returns: what browse listed is all that *)
(* there is to remove, "." and ".." are passed over, each subdirectory is    *)
(* gone before the directory above it is removed.                            *)
THEOREM WholeDeletion == Spec => DeleteIsWhole
  <1> DEFINE Whole1(h) == Deleting(h) /\ stack'[h] = << >> /\ ~touched[h] =>
               ~alive' \/ (~cancel[h] /\ Target(h) \notin dirs')
  <1>1. ASSUME TreeInv, WholeInv, [Next]_vars
        PROVE  [\A h \in Handle : Whole1(h)]_vars
    <2> SUFFICES ASSUME NEW h \in Handle, Deleting(h), stack'[h] = << >>,
                        ~touched[h], alive'
                 PROVE  ~cancel[h] /\ Target(h) \notin dirs'
      OBVIOUS
    <2>1. Return(h) /\ Top(h).dir = Target(h)
      BY <1>1, EndsByReturn
    <2>2. Undisturbed(h)
      BY <1>1 DEF WholeInv
    <2> QED BY <1>1, <2>1, <2>2, TopKnown, ReturnsEmpty
  <1>2. TreeInv /\ WholeInv /\ [Next]_vars => [\A h \in Handle : Whole1(h)]_vars
    BY <1>1
  <1>3. Spec => [](TreeInv /\ WholeInv)
    BY TreeInit, TreeStep, WholeInit, WholeStep, PTL DEF Spec
  <1> QED BY <1>2, <1>3, PTL DEF Spec, DeleteIsWhole
=============================================================================
