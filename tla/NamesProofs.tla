---------------------------- MODULE NamesProofs -----------------------------
(***************************************************************************)
(* The theorems about path names.  NamesSteps and NamesTree show that each   *)
(* step keeps the invariant; here are the facts about finite sets they used, *)
(* the state the kernel boots in, and what follows.                          *)
(***************************************************************************)
EXTENDS NamesTree, FiniteSetTheorems, WellFoundedInduction

\* Steps that need arithmetic or the theory of functions cite SMT.
USE ZenonT(30)

-----------------------------------------------------------------------------
(* Finite sets                                                             *)

\* One more pointer, counted.
LEMMA AddTag ==
  \A T, t, f, i : IsFiniteSet(T) /\ t \notin T =>
     /\ IsFiniteSet(T \cup {t})
     /\ Cardinality(Hits(T \cup {t}, f, i)) = Cardinality(Hits(T, f, i)) + One(f[t], i)
<1> TAKE T, t, f, i
<1> HAVE IsFiniteSet(T) /\ t \notin T
<1> DEFINE S == Hits(T, f, i)
<1>1. IsFiniteSet(S) /\ t \notin S
  BY FS_Subset DEF Hits
<1>2. /\ f[t] = i => Hits(T \cup {t}, f, i) = S \cup {t}
      /\ f[t] # i => Hits(T \cup {t}, f, i) = S
  BY DEF Hits
<1> HIDE DEF S
<1>3. /\ Cardinality(S \cup {t}) = Cardinality(S) + 1 /\ Cardinality(S) \in Nat
      /\ IsFiniteSet(T \cup {t})
  BY <1>1, FS_AddElement, FS_CardinalityType
<1>4. CASE f[t] = i
  BY <1>2, <1>3, <1>4 DEF One, S
<1>5. CASE f[t] # i
  <2>1. Cardinality(Hits(T \cup {t}, f, i)) = Cardinality(S)
    BY <1>2, <1>5
  <2>2. One(f[t], i) = 0
    BY <1>5 DEF One
  <2> QED
    BY SMTT(30), <1>3, <2>1, <2>2 DEF S
<1> QED
  BY <1>4, <1>5

\* The pointers of one process, counted.
LEMMA TagCount ==
  ASSUME NEW f, NEW p, NEW i
  PROVE  /\ IsFiniteSet(Hits({p} \X Tags, f, i))
         /\ Cardinality(Hits({p} \X Tags, f, i)) = Sum(f, p, i)
<1> DEFINE T1 == {<<p, "cwd">>}
           T2 == T1 \cup {<<p, "fd">>}
           T3 == T2 \cup {<<p, "x">>}
           T4 == T3 \cup {<<p, "y">>}
           T5 == T4 \cup {<<p, "sym">>}
           T6 == T5 \cup {<<p, "put1">>}
           T7 == T6 \cup {<<p, "put2">>}
           N(T) == Cardinality(Hits(T, f, i))
<1>1. {p} \X Tags = T7
  BY SMTT(30) DEF Tags
<1>2. ASSUME NEW T, IsFiniteSet(T), NEW t, t \notin T
      PROVE  IsFiniteSet(T \cup {t}) /\ N(T \cup {t}) = N(T) + One(f[t], i)
  BY <1>2, AddTag, SMTT(30)
<1>3. IsFiniteSet({}) /\ N({}) = 0
  <2>1. Hits({}, f, i) = {}
    BY DEF Hits
  <2> QED
    BY <2>1, FS_EmptySet
<1>4. /\ <<p, "fd">> \notin T1 /\ <<p, "x">> \notin T2 /\ <<p, "y">> \notin T3
      /\ <<p, "sym">> \notin T4 /\ <<p, "put1">> \notin T5 /\ <<p, "put2">> \notin T6
      /\ T1 = {} \cup {<<p, "cwd">>}
  OBVIOUS
<1>12. N(T7) = Cardinality(Hits(T7, f, i))
  OBVIOUS
<1> HIDE DEF T1, N
<1>5. IsFiniteSet(T1) /\ N(T1) = N({}) + One(f[<<p, "cwd">>], i)
  BY <1>2, <1>3, <1>4
<1>6. IsFiniteSet(T2) /\ N(T2) = N(T1) + One(f[<<p, "fd">>], i)
  BY <1>2, <1>4, <1>5
<1> HIDE DEF T2
<1>7. IsFiniteSet(T3) /\ N(T3) = N(T2) + One(f[<<p, "x">>], i)
  BY <1>2, <1>4, <1>6
<1> HIDE DEF T3
<1>8. IsFiniteSet(T4) /\ N(T4) = N(T3) + One(f[<<p, "y">>], i)
  BY <1>2, <1>4, <1>7
<1> HIDE DEF T4
<1>9. IsFiniteSet(T5) /\ N(T5) = N(T4) + One(f[<<p, "sym">>], i)
  BY <1>2, <1>4, <1>8
<1> HIDE DEF T5
<1>10. IsFiniteSet(T6) /\ N(T6) = N(T5) + One(f[<<p, "put1">>], i)
  BY <1>2, <1>4, <1>9
<1> HIDE DEF T6
<1>11. IsFiniteSet(T7) /\ N(T7) = N(T6) + One(f[<<p, "put2">>], i)
  BY <1>2, <1>4, <1>10
<1>13. IsFiniteSet(Hits(T7, f, i))
  BY <1>11, FS_Subset DEF Hits
<1> HIDE DEF T7
<1>14. N(T7) = Sum(f, p, i)
  <2>1. One(f[<<p, "cwd">>], i) \in Nat
    BY DEF One
  <2>2. N(T1) = One(f[<<p, "cwd">>], i)
    BY SMTT(30), <1>3, <1>5, <2>1
  <2> QED
    BY <2>2, <1>6, <1>7, <1>8, <1>9, <1>10, <1>11 DEF Sum
<1> QED
  BY <1>1, <1>12, <1>13, <1>14

\* A process has seven pointers.
LEMMA FiniteTags == IsFiniteSet(Tags)
<1>1. Tags = {"cwd"} \cup {"fd"} \cup {"x"} \cup {"y"} \cup {"sym"} \cup {"put1"} \cup {"put2"}
  BY DEF Tags
<1> QED
  BY <1>1, FS_Singleton, FS_Union

\* When the pointers of the others do not change, the count of all moves with those of p.
LEMMA PairCount ==
  \A f, g, i, p : p \in Procs /\ Differ(f, g, p) => Counts(f, g, i, p)
<1> TAKE f, g, i, p
<1> HAVE p \in Procs /\ Differ(f, g, p)
<1> DEFINE Rest == (Procs \ {p}) \X Tags
           R(h) == Hits(Rest, h, i)
           M(h) == Hits({p} \X Tags, h, i)
           All(h) == Hits(Procs \X Tags, h, i)
<1>1. IsFiniteSet(Rest)
  <2>1. IsFiniteSet(Tags)
    BY FiniteTags
  <2>2. IsFiniteSet(Procs \ {p})
    BY NamesAssumption, FS_Subset
  <2> QED
    BY <2>1, <2>2, FS_Product
<1>2. R(g) = R(f)
  BY SMTT(30) DEF Hits, Differ
<1>3. ASSUME NEW h
      PROVE  /\ Cardinality(All(h)) = Cardinality(R(h)) + Sum(h, p, i)
             /\ Cardinality(R(h)) \in Nat /\ Cardinality(All(h)) \in Nat /\ Sum(h, p, i) \in Nat
  <2>1. All(h) = R(h) \cup M(h) /\ R(h) \cap M(h) = {}
    BY DEF Hits
  <2>2. IsFiniteSet(R(h))
    BY <1>1, FS_Subset DEF Hits
  <2>3. IsFiniteSet(M(h)) /\ Cardinality(M(h)) = Sum(h, p, i)
    BY TagCount
  <2> HIDE DEF R, M, All
  <2>4. Cardinality(R(h)) \in Nat /\ Cardinality(M(h)) \in Nat
    BY <2>2, <2>3, FS_CardinalityType
  <2>5. Cardinality(R(h) \cup M(h)) = Cardinality(R(h)) + Cardinality(M(h))
    <3>1. Cardinality(R(h) \cup M(h)) = Cardinality(R(h)) + Cardinality(M(h)) - Cardinality(R(h) \cap M(h))
      BY <2>2, <2>3, FS_Union
    <3>2. Cardinality(R(h) \cap M(h)) = 0
      BY <2>1, FS_EmptySet
    <3> QED
      BY SMTT(30), <2>4, <3>1, <3>2
  <2> QED
    BY SMTT(30), <2>1, <2>3, <2>4, <2>5
<1>4. /\ Cardinality(All(f)) = Cardinality(R(f)) + Sum(f, p, i)
      /\ Cardinality(All(g)) = Cardinality(R(f)) + Sum(g, p, i)
      /\ Cardinality(R(f)) \in Nat /\ Cardinality(All(f)) \in Nat /\ Cardinality(All(g)) \in Nat
      /\ Sum(f, p, i) \in Nat /\ Sum(g, p, i) \in Nat
  BY <1>2, <1>3
<1> HIDE DEF R, All
<1>5. Cardinality(All(g)) - Sum(g, p, i) = Cardinality(All(f)) - Sum(f, p, i)
  BY SMTT(30), <1>4
<1> QED
  BY <1>4, <1>5 DEF All, Count, Counts

\* The least of some inode numbers.
LEMMA Least == \A S \in SUBSET Inums : S # {} => \E i \in S : \A j \in S : i <= j
<1> SUFFICES ASSUME NEW S \in SUBSET Inums, S # {}
    PROVE  \E i \in S : \A j \in S : i <= j
  OBVIOUS
<1> DEFINE R == OpToRel(<, Nat)
<1>1. S \subseteq Nat
  BY NamesAssumption
<1>2. PICK m \in S : \A k \in S : ~(<<k, m>> \in R)
  <2> HIDE DEF R
  <2>1. IsWellFoundedOn(R, Nat)
    BY NatLessThanWellFounded DEF R
  <2> QED
    BY <1>1, <2>1, WFMin
<1>3. R = {a \in Nat \X Nat : a[1] < a[2]}
  BY DEF OpToRel, R
<1> HIDE DEF R
<1>4. ASSUME NEW k \in S, k < m
      PROVE  <<k, m>> \in R
  <2>1. <<k, m>> \in Nat \X Nat
    BY <1>1
  <2> QED
    BY <1>3, <1>4, <2>1
<1>5. \A k \in S : ~(k < m)
  BY <1>2, <1>4
<1>6. \A k \in S : m <= k
  BY SMTT(30), <1>1, <1>5
<1> QED
  BY <1>2, <1>6

\* What the steps use of finite sets is true.
LEMMA FiniteHolds == Finite
<1>1. ASSUME NEW S \in Pool
      PROVE  IsFiniteSet(S)
  <2>1. /\ IsFiniteSet(Procs) /\ IsFiniteSet(Inums \X Names) /\ IsFiniteSet(Procs \X Tags)
    BY NamesAssumption, FiniteTags, FS_Product
  <2>2. \/ S \in SUBSET Procs \/ S \in SUBSET (Inums \X Names) \/ S \in SUBSET (Procs \X Tags)
    <3>1. PICK A, B, C : A = SUBSET Procs /\ B = SUBSET (Inums \X Names) /\ C = SUBSET (Procs \X Tags)
      OBVIOUS
    <3>2. Pool = A \cup B \cup C
      BY <3>1 DEF Pool
    <3>3. S \in A \/ S \in B \/ S \in C
      BY <3>2
    <3> QED
      BY <3>1, <3>3
  <2> QED
    BY <2>1, <2>2, FS_Subset
<1>2. \A S \in Pool : Cardinality(S) \in Nat /\ (Cardinality(S) = 0 <=> S = {})
  BY <1>1, FS_CardinalityType, FS_EmptySet
<1>3. \A S \in Pool : \A a \in S : Cardinality(S \ {a}) = Cardinality(S) - 1
  <2> SUFFICES ASSUME NEW S \in Pool, NEW a \in S
      PROVE  Cardinality(S \ {a}) = Cardinality(S) - 1
    OBVIOUS
  <2>1. Cardinality(S \ {a}) = IF a \in S THEN Cardinality(S) - 1 ELSE Cardinality(S)
    BY <1>1, FS_RemoveElement
  <2> QED
    BY <2>1
<1> QED
  BY <1>2, <1>3, PairCount, Least DEF Finite

-----------------------------------------------------------------------------
(* The kernel boots, on what mkfs built or on what a crash left            *)

Booted ==
    /\ committed \in Trees /\ CommittedInv /\ dino = committed[1] /\ dir = committed[2]
    /\ mem = BootMem /\ lock = Unlocked /\ pr = AllIdle
    /\ fd = [p \in Procs |-> 0] /\ cwd = [p \in Procs |-> ROOTINO]
    /\ leak = NoLeak /\ stopped = "none"

\* Booting: types, references, and the whole invariant.
LEMMA BootTypes == Booted => TypeOK
<1> SUFFICES ASSUME Booted
    PROVE  TypeOK
  OBVIOUS
<1> USE DEF Booted
<1>1. <<dino, dir>> \in Trees
  <2>1. committed = <<committed[1], committed[2]>>
    BY SMTT(30) DEF Trees
  <2> QED
    BY <2>1
<1>2. Cardinality(Procs) \in Nat
  BY NamesAssumption, FS_CardinalityType
<1>3. mem \in Mem
  <2> DEFINE n(i) == IF i = ROOTINO THEN 1 + Cardinality(Procs) ELSE 0
  <2>1. \A i \in Inums : n(i) \in Int
    BY SMTT(30), <1>2
  <2> HIDE DEF n
  <2>2. PICK g, R : /\ g = [i \in Inums |-> [NotCached EXCEPT !.ref = n(i)]]
                    /\ R = [ref : Int, valid : BOOLEAN]
    OBVIOUS
  <2>3. \A i \in Inums : g[i] \in R
    <3> SUFFICES ASSUME NEW i \in Inums
        PROVE  g[i] \in R
      OBVIOUS
    <3>1. PICK k : k = n(i)
      OBVIOUS
    <3>2. g[i] = [NotCached EXCEPT !.ref = k] /\ k \in Int
      BY <2>1, <2>2, <3>1
    <3> QED
      BY <2>2, <3>2 DEF NotCached
  <2>4. g \in [Inums -> R]
    BY <2>2, <2>3
  <2>5. mem = g
    BY <2>2 DEF BootMem, n
  <2> QED
    BY <2>2, <2>4, <2>5 DEF Mem
<1>4. lock \in [Inums -> Procs \cup {Nobody}] /\ leak \in [Inums -> Nat]
  BY DEF Unlocked, NoLeak
<1>5. pr \in [Procs -> Frames]
  BY IdleFrame DEF AllIdle
<1>6. cwd \in [Procs -> Inums] /\ fd \in [Procs -> Inums0]
  BY NamesAssumption DEF Inums0
<1> QED
  BY <1>1, <1>3, <1>4, <1>5, <1>6 DEF TypeOK

LEMMA BootCount == Booted => CountInv
<1> SUFFICES ASSUME Booted, NEW i \in Inums
    PROVE  mem[i].ref = Cardinality(Holders(i)) + leak[i] + (IF i = ROOTINO THEN 1 ELSE 0)
  BY DEF CountInv
<1>1. /\ mem[i].ref = IF i = ROOTINO THEN 1 + Cardinality(Procs) ELSE 0
      /\ leak[i] = 0 /\ i # 0 /\ Cardinality(Procs) \in Nat /\ IsFiniteSet(Procs)
  BY NamesAssumption, FS_CardinalityType DEF Booted, BootMem, NotCached, NoLeak
<1>2. ASSUME NEW p \in Procs, NEW t \in Tags
      PROVE  Pointer(p, t) = IF t = "cwd" THEN ROOTINO ELSE 0
  <2>1. PICK r : r = pr[p]
    OBVIOUS
  <2>2. cwd[p] = ROOTINO /\ fd[p] = 0 /\ r.x = 0 /\ r.y = 0 /\ r.sym = 0 /\ r.puts = <<>>
    BY <2>1 DEF Booted, AllIdle, Idle
  <2>3. Put(r, 1) = 0 /\ Put(r, 2) = 0
    BY <2>2, PutOfNone
  <2> QED
    BY <2>1, <2>2, <2>3 DEF Pointer, Tags
<1>3. CASE i = ROOTINO
  <2>1. Holders(i) = Procs \X {"cwd"}
    <3>1. "cwd" \in Tags /\ ROOTINO # 0
      BY SMTT(30) DEF Tags, ROOTINO
    <3>2. \A a \in Procs \X Tags : Pointer(a[1], a[2]) = i <=> a[2] = "cwd"
      BY <1>2, <1>3, <3>1
    <3> QED
      BY <3>1, <3>2 DEF Holders
  <2>2. Cardinality(Procs \X {"cwd"}) = Cardinality(Procs) * Cardinality({"cwd"})
    BY <1>1, FS_Product, FS_Singleton
  <2>3. Cardinality({"cwd"}) = 1
    BY FS_Singleton
  <2> QED
    BY SMTT(30), <1>1, <1>3, <2>1, <2>2, <2>3
<1>4. CASE i # ROOTINO
  <2>1. \A a \in Procs \X Tags : Pointer(a[1], a[2]) # i
    BY <1>1, <1>2, <1>4
  <2>2. Holders(i) = {}
    BY <2>1 DEF Holders
  <2>3. Cardinality(Holders(i)) = 0
    BY <2>2, FS_EmptySet
  <2> QED
    BY SMTT(30), <1>1, <1>4, <2>3
<1> QED
  BY <1>3, <1>4

LEMMA BootInv == Booted => IInv
<1> SUFFICES ASSUME Booted
    PROVE  IInv
  OBVIOUS
<1>1. /\ dino = committed[1] /\ dir = committed[2] /\ CommittedInv /\ stopped = "none"
  BY DEF Booted
<1>2. FileSystem(dino, dir) /\ Rooted(dino, dir)
  BY <1>1 DEF CommittedInv
<1>3. ASSUME NEW p \in Procs
      PROVE  /\ pr[p] = Idle /\ cwd[p] = ROOTINO /\ fd[p] = 0
             /\ \A i \in Inums : lock[i] = Nobody /\ Nobody # p
  BY <1>3, NamesAssumption DEF Booted, AllIdle, Unlocked
<1>4. /\ Idle.st = "idle" /\ Idle.call = "none" /\ Idle.x = 0 /\ Idle.y = 0 /\ Idle.sym = 0
      /\ Idle.puts = <<>>
  BY DEF Idle
<1>5. LinkInv
  <2> SUFFICES ASSUME NEW i \in Inums, dino[i].type \in {"file", "dev"}
      PROVE  dino[i].nlink = Cardinality(Entries(dino, dir, i)) + Cardinality(Owing(i))
    BY DEF LinkInv
  <2>1. Owing(i) = {}
    BY <1>3, <1>4, ZeroFree DEF Owing, Owes
  <2>2. PICK n, e, k : n = dino[i].nlink /\ e = Cardinality(Entries(dino, dir, i)) /\ k = Cardinality(Owing(i))
    OBVIOUS
  <2>3. n = e /\ k = 0 /\ e \in Nat
    BY <1>2, <2>1, <2>2, FiniteHolds, Pools, FS_EmptySet DEF Finite, FileSystem
  <2>4. n = e + k
    BY SMTT(30), <2>3
  <2> QED
    BY <2>2, <2>4
<1>6. TreeInv
  <2>1. EntriesInv
    BY <1>2 DEF EntriesInv, FileSystem, IsDir, Alloc
  <2> QED
    BY <1>2, <1>5, <2>1 DEF TreeInv
<1>7. PanicsKnown
  BY <1>1 DEF PanicsKnown
<1>8. ASSUME NEW p \in Procs
      PROVE  ProcInv(p)
  <2>1. PICK r : r = Idle
    OBVIOUS
  <2>2. /\ r.st = "idle" /\ r.call = "none" /\ r.x = 0 /\ r.y = 0 /\ r.sym = 0 /\ r.puts = <<>>
    BY <1>4, <2>1
  <2>3. ~Putting(r) /\ Label(r) = "idle" /\ Shape(r)
    BY SMTT(30), <2>2, NoSeq DEF Putting, Label, Shape, ShapeAt, Parents, Lookups
  <2>4. IsDir(ROOTINO)
    BY <1>2 DEF Rooted, IsDir
  <2>5. ~HasParent(r) /\ ~LocksX(r) /\ ~LocksY(r)
    BY <2>2, <2>3 DEF HasParent, LocksX, LocksY, Makers
  <2>6. Fits(p, r, ROOTINO, lock)
    BY <1>3, <2>2, <2>3, <2>4, <2>5 DEF Fits
  <2>7. InHand(r, 0)
    BY <2>2, PutOfNone DEF InHand, Live
  <2> QED
    BY <1>3, <2>1, <2>3, <2>6, <2>7 DEF ProcInv
<1> QED
  BY <1>1, <1>6, <1>7, <1>8, BootTypes, BootCount, FiniteHolds DEF IInv

-----------------------------------------------------------------------------
(* The invariant holds, and what it says                                   *)

\* What holds in every state.  Only while no link's text was taken for block numbers is
\* the tree in memory known to be one; the committed tree is until that is committed.
Inv == /\ torn \in {"no", "now", "kept"}
       /\ torn = "no" => IInv /\ stale \subseteq Paths
       /\ torn # "kept" => committed \in Trees /\ CommittedInv

\* The first boot, and the one after a crash.
LEMMA InitInv == NamesInit => Inv
<1> SUFFICES ASSUME NamesInit
    PROVE  Inv
  OBVIOUS
<1>1. Booted /\ torn = "no" /\ stale = {}
  BY NamesAssumption DEF NamesInit, Booted, CommittedInv
<1> QED
  BY <1>1, BootInv DEF Inv, Booted

LEMMA CrashInv == Inv /\ Crash => Inv'
<1> SUFFICES ASSUME Inv, Crash
    PROVE  Inv'
  OBVIOUS
<1>1. CASE torn = "kept"
  <2>1. torn' = "kept"
    BY <1>1 DEF Crash
  <2> QED
    BY <2>1 DEF Inv
<1>2. CASE torn # "kept"
  <2>1. committed \in Trees /\ CommittedInv /\ committed' = committed
    BY <1>2 DEF Inv, Crash
  <2>2. committed' \in Trees /\ CommittedInv'
    BY <2>1 DEF CommittedInv
  <2>3. dino' = committed'[1] /\ dir' = committed'[2]
    BY <2>1 DEF Crash
  <2>4. Booted'
    BY <2>2, <2>3 DEF Booted, Crash
  <2>5. Booted' => IInv'
    BY BootInv, PTL
  <2>6. torn' = "no" /\ stale' = {}
    BY <1>2 DEF Crash
  <2>7. stale' \subseteq Paths
    BY <2>6
  <2> QED
    BY <2>2, <2>4, <2>5, <2>6, <2>7 DEF Inv
<1> QED
  BY <1>1, <1>2

\* A step of a call.
LEMMA CallInv ==
  ASSUME IInv, stale \subseteq Paths, NEW p \in Procs, CallStep(p), UNCHANGED <<committed, calls>>
  PROVE  IInv'
<1>1. CASE PutCheck(p)
  BY <1>1, PutSteps
<1>2. CASE WalkStep(p) \/ WalkEnd(p)
  BY <1>2, WalkSteps
<1>3. CASE Named(p) \/ Follow(p)
  BY <1>3, NamedSteps
<1>4. CASE Open(p) \/ Found(p) \/ Made(p) \/ UnlinkBad(p) \/ Chdir(p)
  BY <1>4, OpenSteps
<1>5. CASE CreateNew(p) \/ Symlink2(p)
  BY <1>5, NewSteps
<1>6. CASE Unlink2(p) \/ Link2(p)
  BY <1>6, EntrySteps
<1>7. CASE Link(p) \/ Unlink3(p) \/ LinkBad(p)
  BY <1>7, LinkSteps
<1>8. CASE Failed(p)
  BY <1>8, FailedStep
<1>9. CASE CreateFound(p)
  BY <1>9, CreateFoundStep
<1>10. CASE Unlink(p)
  BY <1>10, UnlinkStep
<1>11. CASE LinkFail(p)
  BY <1>11, LinkFailStep
<1>12. CASE Symlink(p)
  BY <1>12, SymlinkStep
<1>13. CASE SymlinkNone(p)
  BY <1>13, SymlinkNoneStep
<1>14. CASE SymlinkTarget(p)
  BY <1>14, SymlinkTargetStep
<1>15. CASE GetcwdUp(p)
  BY <1>15, GetcwdUpStep
<1>16. CASE GetcwdName(p)
  BY <1>16, GetcwdNameStep
<1> QED
  BY <1>1, <1>2, <1>3, <1>4, <1>5, <1>6, <1>7, <1>8, <1>9, <1>10, <1>11, <1>12, <1>13, <1>14, <1>15,
     <1>16 DEF CallStep

\* A step of a process that tears nothing.
LEMMA ProcessInv ==
  ASSUME IInv, stale \subseteq Paths, NEW p \in Procs, torn = "no", torn' = "no",
         \/ CallStep(p) /\ UNCHANGED <<committed, stale, calls>>
         \/ PutDrop(p) /\ UNCHANGED <<committed, calls>>
         \/ (PutLink(p) \/ LinkIO(p)) /\ UNCHANGED <<committed, stale>>
         \/ End(p) /\ UNCHANGED stale
         \/ Start(p) /\ UNCHANGED <<committed, stale>>
  PROVE  IInv' /\ stale' \subseteq Paths
<1>1. CASE CallStep(p) /\ UNCHANGED <<committed, stale, calls>>
  BY <1>1, CallInv
<1>2. CASE PutDrop(p) /\ UNCHANGED <<committed, calls>>
  <2>1. IInv'
    BY <1>2, PutSteps
  <2>2. PICK r, i : r = pr[p] /\ i = Head(r.puts)
    OBVIOUS
  <2>3. r.st = "drop" /\ (stale' = stale \/ stale' = stale \cup {dino[i].target})
    BY <1>2, <2>2 DEF PutDrop, At
  <2>4. r \in Frames /\ Shape(r) /\ Putting(r)
    BY <2>2, <2>3, Facts DEF Putting
  <2>5. i \in Inums
    BY <2>2, <2>4, HeadTail DEF Frames, Shape
  <2>6. dino[i].target \in Paths
    BY <2>5 DEF IInv, TypeOK, Trees, Inode
  <2> QED
    BY <2>1, <2>3, <2>6
<1>3. CASE (PutLink(p) \/ LinkIO(p)) /\ UNCHANGED <<committed, stale>>
  <2>1. Stop("incorrect blockno") \/ Stop("freeing free block")
    BY <1>3 DEF PutLink, LinkIO
  <2>2. PICK why : why \in {"incorrect blockno", "freeing free block"} /\ Stop(why)
    BY <2>1
  <2>3. PanicsKnown'
    BY <2>2 DEF Stop, PanicsKnown
  <2> QED
    BY <1>3, <2>2, <2>3, Halt
<1>4. CASE End(p) /\ UNCHANGED stale
  BY <1>4, EndStep
<1>5. CASE Start(p) /\ UNCHANGED <<committed, stale>>
  <2>1. ASSUME NEW o \in Ops, Begin(p, o[1], o[2], o[3])
        PROVE  IInv'
    BY <1>5, <2>1, BeginStep
  <2> QED
    BY <1>5, <2>1, CloseStep, WriteFileStep, GetcwdStep DEF Start
<1> QED
  BY <1>1, <1>2, <1>3, <1>4, <1>5

\* Any step.
LEMMA NextInv == Inv /\ [NamesNext]_nvars => Inv'
<1> SUFFICES ASSUME Inv, [NamesNext]_nvars
    PROVE  Inv'
  OBVIOUS
<1>1. ASSUME NEW p \in Procs,
             \/ CallStep(p) /\ UNCHANGED <<committed, stale, torn, calls>>
             \/ PutDrop(p) /\ UNCHANGED <<committed, torn, calls>>
             \/ PutLink(p) /\ UNCHANGED <<committed, stale, calls>>
             \/ End(p) /\ UNCHANGED <<stale, calls>>
             \/ Start(p) /\ UNCHANGED <<committed, stale, torn>>
             \/ LinkIO(p) /\ UNCHANGED <<committed, stale>>
      PROVE  Inv'
  <2>1. /\ torn' \in {"no", "now", "kept"} /\ (torn' = "no" => torn = "no")
        /\ torn' = "now" => torn # "kept" /\ committed' = committed
    BY <1>1 DEF Inv, PutLink, LinkIO, End
  <2>2. torn' = "no" => IInv' /\ stale' \subseteq Paths
    BY <1>1, <2>1, ProcessInv DEF Inv
  <2>3. torn' = "no" => committed' \in Trees /\ CommittedInv'
    BY <2>2 DEF IInv, TypeOK
  <2>4. torn' = "now" => committed' \in Trees /\ CommittedInv'
    BY <2>1 DEF Inv, CommittedInv
  <2> QED
    BY <2>1, <2>2, <2>3, <2>4 DEF Inv
<1>2. CASE Crash
  BY <1>2, CrashInv
<1>3. CASE UNCHANGED nvars
  <2>1. PICK w : w = stopped
    OBVIOUS
  <2>2. UNCHANGED <<dino, dir, committed, mem, lock, pr, cwd, fd, leak, stale, torn, stopped>>
    BY <1>3 DEF nvars, tree
  <2>3. Stop(w)
    BY <2>1, <2>2 DEF Stop, tree
  <2>4. CASE torn = "no"
    <3>1. PanicsKnown'
      BY <2>2, <2>4 DEF Inv, IInv, PanicsKnown
    <3>2. IInv'
      BY <2>2, <2>3, <2>4, <3>1, Halt DEF Inv
    <3>3. committed' \in Trees /\ CommittedInv'
      BY <3>2 DEF IInv, TypeOK
    <3> QED
      BY <2>2, <2>4, <3>2, <3>3 DEF Inv
  <2>5. CASE torn # "no"
    BY <2>2, <2>5 DEF Inv, CommittedInv
  <2> QED
    BY <2>4, <2>5
<1> QED
  BY <1>1, <1>2, <1>3 DEF NamesNext

\* What follows from the invariant.
LEMMA InvImplies == Inv => /\ torn = "no" => RefsCounted
                           /\ CommittedTree /\ InUseStays /\ PanicsKnown
<1> SUFFICES ASSUME Inv
    PROVE  (torn = "no" => RefsCounted) /\ CommittedTree /\ InUseStays /\ PanicsKnown
  OBVIOUS
<1>1. torn = "no" => RefsCounted
  BY DEF Inv, IInv, CountInv, RefsCounted
<1>2. CommittedTree /\ PanicsKnown
  BY DEF Inv, IInv, CommittedInv, CommittedTree, PanicsKnown
<1>3. ASSUME torn = "no", NEW p \in Procs, NEW i \in Inums, cwd[p] = i \/ fd[p] = i \/ lock[i] = p \/ pr[p].x = i
      PROVE  dino[i].type # "none"
  <2>1. PICK r : r = pr[p]
    OBVIOUS
  <2>2. Fits(p, r, cwd[p], lock) /\ InHand(r, fd[p])
    BY <1>3, <2>1 DEF Inv, IInv, ProcInv
  <2>3. i # 0
    BY ZeroFree
  <2>4. lock[i] = p => r.x = i \/ r.y = i
    BY <2>2 DEF Fits
  <2>5. IsDir(cwd[p])
    BY <2>2 DEF Fits
  <2>6. \/ cwd[p] = i \/ fd[p] = i \/ r.x = i \/ r.y = i
    BY <1>3, <2>1, <2>4
  <2> QED
    BY SMTT(30), <2>2, <2>3, <2>5, <2>6 DEF InHand, Live, IsDir, Alloc
<1> QED
  BY <1>1, <1>2, <1>3 DEF InUseStays

\* The invariant holds in every state.
LEMMA Always == NamesSpec => []Inv
BY InitInv, NextInv, PTL DEF NamesSpec

\* For any processes, inodes, names, calls, link texts and file system mkfs builds, in
\* every order of the calls' steps, with crashes: until a link's text is taken for block
\* numbers, an inode's reference count is the number of pointers to it that a process
\* holds or has forgotten, so iput() sees the last reference when and only when it is the last.
THEOREM ReferencesCounted == NamesSpec => [](torn = "no" => RefsCounted)
BY Always, InvImplies, PTL

\* What end_op() commits, and a crash goes back to, is a file system: entries name
\* allocated inodes and link counts count entries, whatever calls ran together, unless
\* itrunc() or bmap() took a link's text for block numbers and that was committed.
THEOREM CrashLeavesTree == NamesSpec => []CommittedTree
BY Always, InvImplies, PTL

\* iput() never frees an inode that a process has open, stands in, works on or has
\* locked, until a link's text is taken for block numbers.
THEOREM InUseNotFreed == NamesSpec => []InUseStays
BY Always, InvImplies, PTL

\* Until then ilock() never meets an inode without a type, and sys_unlink() panics on a
\* link count only for a symbolic link or a directory.
THEOREM FewPanics == NamesSpec => []PanicsKnown
BY Always, InvImplies, PTL
=============================================================================
