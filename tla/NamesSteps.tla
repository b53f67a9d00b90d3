---------------------------- MODULE NamesSteps ------------------------------
(***************************************************************************)
(* Proofs about path names for any processes, inodes, names, calls and any   *)
(* image that is a file system.  The invariant says at each label of a call  *)
(* which inodes it has in hand, which of them are directories and which are  *)
(* locked; that what is in hand is allocated; that a file's link count is     *)
(* the number of its entries and of the calls that have yet to make or take  *)
(* one away; and that reference counts count pointers.  This part has the   *)
(* steps that change no link, entry or inode type.                           *)
(***************************************************************************)
EXTENDS Names, TLAPS

\* Steps that need arithmetic or the theory of functions cite SMT.
USE ZenonT(30)

Makers == {"creat", "mkdir", "mknod"}
Lookups == {"open", "link", "chdir", "symlink"}
Calls == Lookups \cup Parents \cup {"none", "close", "getcwd"}
Labels == Lookups \cup Parents \cup
          {"idle", "walk", "named", "follow", "put", "drop", "end", "link2", "linkfail", "symlink2",
           "found", "made", "unlink2", "unlinkbad", "unlink3", "up", "name"}
Inums0 == Inums \cup {0}
Frames == [call : Calls, st : Labels, path : Seq(AllNames), path2 : Paths, par : BOOLEAN,
           nm : AllNames, x : Inums0, y : Inums0, sym : Inums0, puts : Seq(Inums),
           then : Labels, cont : Labels, depth : Nat, child : Inums0]

Mem == [Inums -> [ref : Int, valid : BOOLEAN]]
TypeOK ==
    /\ <<dino, dir>> \in Trees /\ committed \in Trees
    /\ mem \in Mem
    /\ lock \in [Inums -> Procs \cup {Nobody}]
    /\ pr \in [Procs -> Frames]
    /\ cwd \in [Procs -> Inums] /\ fd \in [Procs -> Inums0] /\ leak \in [Inums -> Nat]

\* Where a call is, once it has put what it is putting.
Putting(r) == r.st \in {"put", "drop"}
Label(r) == IF Putting(r) THEN r.then ELSE r.st

\* What a call has in hand at label l.
ShapeAt(r, l) ==
    /\ l \notin {"put", "drop"}
    /\ l = "idle" => r.call = "none"
    /\ l \in {"idle", "end"} => r.x = 0 /\ r.y = 0 /\ r.sym = 0
    /\ l = "walk" => /\ r.x # 0 /\ r.cont \in {"named", "follow", "link2"} \cup Parents
                     /\ r.par <=> r.cont \in {"link2"} \cup Parents
                     /\ r.sym # 0 <=> r.cont = "follow"
                     /\ r.cont \in Parents => r.call = r.cont /\ r.y = 0
                     /\ r.cont = "link2" => r.call = "link" /\ r.y # 0
                     /\ r.cont \in {"named", "follow"} =>
                           r.call \in Lookups /\ (r.y # 0 <=> r.call = "symlink")
    /\ l \in {"named", "follow"} => /\ r.sym # 0 <=> l = "follow"
                                    /\ r.call \in Lookups /\ (r.y # 0 <=> r.call = "symlink")
    /\ l \notin {"walk", "follow"} => r.sym = 0
    /\ l \in Lookups \cup Parents => r.call = l /\ (l # "symlink" => r.y = 0)
    /\ l \in {"found", "made"} => r.call \in Makers /\ r.x = 0 /\ r.y # 0
    /\ l \in {"unlink2", "unlinkbad", "unlink3"} =>
         r.call = "unlink" /\ (r.x = 0 <=> l = "unlink3") /\ (r.y = 0 <=> l = "unlinkbad")
    /\ l \in {"link2", "linkfail"} => r.call = "link" /\ r.y # 0 /\ (l = "linkfail" => r.x # 0)
    /\ l = "symlink2" => r.call = "symlink" /\ r.x = 0 /\ r.y # 0
    /\ l \in {"up", "name"} => r.call = "getcwd" /\ r.x # 0 /\ r.y = 0

Shape(r) == /\ ShapeAt(r, Label(r))
            /\ Putting(r) <=> r.puts # <<>>
            /\ Len(r.puts) <= 2

IsDir(i) == dino[i].type = "dir"
Alloc(i) == dino[i].type # "none"

\* The locks a call holds from step to step: a parent's or a child's.
LocksX(r) == Label(r) \in {"unlink2", "unlinkbad", "linkfail"}
LocksY(r) == Label(r) \in {"made", "unlink3"}
HasParent(r) == \/ Label(r) \in Makers \cup {"unlink", "unlink2", "unlinkbad", "link2", "linkfail"}
                \/ Label(r) = "symlink" /\ r.y = 0
                \/ r.call = "getcwd"

\* What holds of the directories and locks of process p, in frame r and directory c, when
\* the locks are lk ...
Fits(p, r, c, lk) ==
    /\ IsDir(c)
    /\ HasParent(r) /\ r.x # 0 => IsDir(r.x)
    /\ r.call = "symlink" /\ r.y # 0 => IsDir(r.y)
    /\ LocksX(r) => lk[r.x] = p
    /\ LocksY(r) => lk[r.y] = p
    /\ Label(r) = "unlink2" => r.nm \notin {".", ".."} /\ dir[r.x][r.nm] = r.y
    /\ \A i \in Inums : lk[i] = p => (LocksX(r) /\ r.x = i) \/ (LocksY(r) /\ r.y = i)

\* ... and of the inodes it has in hand, with f open: only the one that iput() has just
\* freed is not allocated.
Live(i) == i # 0 => Alloc(i)
InHand(r, f) == /\ Live(f) /\ Live(r.x) /\ Live(r.y) /\ Live(r.sym) /\ Live(Put(r, 2))
                /\ r.st # "drop" => Live(Put(r, 1))

\* sys_link() counts the link before it makes the entry, sys_unlink() after.
Owes(r, i) == r.y = i /\ (r.call = "link" \/ (r.call = "unlink" /\ r.x = 0))
Owing(i) == {p \in Procs : Owes(pr[p], i)}

EntriesInv ==
    \A x \in Inums, n \in AllNames : IsDir(x) /\ dir[x][n] # 0 => Alloc(dir[x][n])
LinkInv == \A i \in Inums : dino[i].type \in {"file", "dev"} =>
    dino[i].nlink = Cardinality(Entries(dino, dir, i)) + Cardinality(Owing(i))
CountInv == \A i \in Inums :
    mem[i].ref = Cardinality(Holders(i)) + leak[i] + (IF i = ROOTINO THEN 1 ELSE 0)

TreeInv == Rooted(dino, dir) /\ EntriesInv /\ LinkInv
CommittedInv == FileSystem(committed[1], committed[2]) /\ Rooted(committed[1], committed[2])

ProcInv(p) == Shape(pr[p]) /\ Fits(p, pr[p], cwd[p], lock) /\ InHand(pr[p], fd[p])

-----------------------------------------------------------------------------
\* How many of its pointers, from the table of all, lead process p to inode i.
One(u, i) == IF u = i THEN 1 ELSE 0
Sum(f, p, i) ==
    One(f[<<p, "cwd">>], i) + One(f[<<p, "fd">>], i) + One(f[<<p, "x">>], i)
      + One(f[<<p, "y">>], i) + One(f[<<p, "sym">>], i)
      + One(f[<<p, "put1">>], i) + One(f[<<p, "put2">>], i)
Mine(c, d, r, i) == One(c, i) + One(d, i) + One(r.x, i) + One(r.y, i) + One(r.sym, i)
                      + One(Put(r, 1), i) + One(Put(r, 2), i)

\* The members of T that f sends to i.
Hits(T, f, i) == {a \in T : f[a] = i}

\* When the pointers of the others do not change, the count of all moves with those of p.
Count(f, i) == Cardinality(Hits(Procs \X Tags, f, i))
Differ(f, g, p) == \A q \in Procs \ {p}, t \in Tags : g[<<q, t>>] = f[<<q, t>>]
Counts(f, g, i, p) ==
    /\ Count(f, i) \in Nat /\ Count(g, i) \in Nat /\ Sum(g, p, i) \in Nat /\ Sum(f, p, i) \in Nat
    /\ Count(g, i) - Sum(g, p, i) = Count(f, i) - Sum(f, p, i)

\* What the steps use of finite sets.  NamesProofs proves it, from the library.
Pool == (SUBSET Procs) \cup (SUBSET (Inums \X Names)) \cup (SUBSET (Procs \X Tags))
Finite ==
    /\ \A S \in Pool : Cardinality(S) \in Nat /\ (Cardinality(S) = 0 <=> S = {})
    /\ \A S \in Pool : \A a \in S : Cardinality(S \ {a}) = Cardinality(S) - 1
    /\ \A f, g, i, p : p \in Procs /\ Differ(f, g, p) => Counts(f, g, i, p)
    /\ \A S \in SUBSET Inums : S # {} => \E i \in S : \A j \in S : i <= j

IInv == /\ Finite /\ TypeOK /\ TreeInv /\ CommittedInv /\ CountInv /\ PanicsKnown
        /\ \A p \in Procs : ProcInv(p)

\* Finite is about constants only.
LEMMA FiniteNext == Finite => Finite'
BY DEF Finite, Counts, Count, Sum, One, Differ, Hits, Pool, Tags

\* The sets whose members are counted.
LEMMA InPool ==
  \A S : S \subseteq Procs \/ S \subseteq Inums \X Names \/ S \subseteq Procs \X Tags => S \in Pool
BY DEF Pool

LEMMA Pools ==
  {} \in Pool /\ \A i : Entries(dino, dir, i) \in Pool /\ Owing(i) \in Pool /\ Holders(i) \in Pool
<1>1. {} \in Pool
  BY InPool
<1>2. \A i : /\ Entries(dino, dir, i) \subseteq Inums \X Names /\ Owing(i) \subseteq Procs
             /\ Holders(i) \subseteq Procs \X Tags
  BY DEF Entries, Owing, Holders
<1> QED
  BY <1>1, <1>2, InPool

\* Sequences: the empty one, their length and their parts.
LEMMA NoSeq ==
  \A S : <<>> \in Seq(S) /\ Len(<<>>) = 0 /\ \A s \in Seq(S) : s # <<>> => Len(s) \in Nat \ {0}
BY SMTT(30)

LEMMA LenOf == \A S : \A s \in Seq(S) : Len(s) \in Nat /\ DOMAIN s = 1 .. Len(s) /\ s \in [1 .. Len(s) -> S]
BY SMTT(30)

LEMMA HeadTail ==
  \A S : \A s \in Seq(S) : s # <<>> =>
     /\ Head(s) \in S /\ Tail(s) \in Seq(S) /\ Len(Tail(s)) = Len(s) - 1
     /\ \A i \in 1 .. Len(Tail(s)) : Tail(s)[i] = s[i + 1]
BY SMTT(30)

\* What a step of process p does to the tree leaves alone what the others rely on: the
\* directories, the contents of those they have locked and the inodes they have in hand.
Apart(p) ==
    /\ \A i \in Inums : IsDir(i) => IsDir(i)'
    /\ \A i \in Inums, q \in Procs \ {p} : lock[i] = q => dir'[i] = dir[i]
    /\ \A i \in Inums : \/ Alloc(i) => Alloc(i)'
                        \/ \A q \in Procs \ {p} :
                             LET r == pr[q]
                             IN  /\ fd[q] # i /\ r.x # i /\ r.y # i /\ r.sym # i /\ Put(r, 2) # i
                                 /\ r.st # "drop" => Put(r, 1) # i

\* A step of process p keeps the invariant if it keeps the tree, fits p's own frame, leaves
\* the other processes theirs, and moves the references with the pointers of p.
LEMMA StepOf ==
  ASSUME IInv, NEW p \in Procs, NEW s \in Frames,
         stopped' = "none", CommittedInv', TypeOK', TreeInv',
         pr' = [pr EXCEPT ![p] = s],
         \A q \in Procs \ {p} : cwd'[q] = cwd[q] /\ fd'[q] = fd[q],
         \A i \in Inums, q \in Procs \ {p} : lock'[i] = q <=> lock[i] = q,
         Apart(p), Shape(s), Fits(p, s, cwd[p], lock)', InHand(s, fd[p])',
         \A i \in Inums : mem'[i].ref - leak'[i] - Mine(cwd'[p], fd'[p], s, i)
                            = mem[i].ref - leak[i] - Mine(cwd[p], fd[p], pr[p], i)
  PROVE  IInv'
<1>1. /\ pr'[p] = s /\ \A q \in Procs \ {p} : pr'[q] = pr[q]
  BY DEF IInv, TypeOK
<1>2. CountInv'
  <2> SUFFICES ASSUME NEW i \in Inums
      PROVE  mem'[i].ref = Cardinality(Holders(i)') + leak'[i] + (IF i = ROOTINO THEN 1 ELSE 0)
    BY DEF CountInv
  <2>1. PICK f : f = [a \in Procs \X Tags |-> Pointer(a[1], a[2])]
    OBVIOUS
  <2>2. PICK g : g = [a \in Procs \X Tags |-> Pointer(a[1], a[2])']
    OBVIOUS
  <2>3. Holders(i) = Hits(Procs \X Tags, f, i) /\ Holders(i)' = Hits(Procs \X Tags, g, i)
    BY <2>1, <2>2 DEF Holders, Hits
  <2>4. Differ(f, g, p)
    <3> SUFFICES ASSUME NEW q \in Procs \ {p}, NEW t \in Tags
        PROVE  g[<<q, t>>] = f[<<q, t>>]
      BY DEF Differ
    <3>1. pr'[q] = pr[q] /\ cwd'[q] = cwd[q] /\ fd'[q] = fd[q]
      BY <1>1
    <3>2. Pointer(q, t)' = Pointer(q, t)
      BY <3>1 DEF Pointer
    <3>3. <<q, t>> \in Procs \X Tags /\ <<q, t>>[1] = q /\ <<q, t>>[2] = t
      OBVIOUS
    <3> QED
      BY <2>1, <2>2, <3>2, <3>3
  <2>5. /\ "cwd" \in Tags /\ "fd" \in Tags /\ "x" \in Tags /\ "y" \in Tags /\ "sym" \in Tags
        /\ "put1" \in Tags /\ "put2" \in Tags
    BY DEF Tags
  <2>6. Sum(f, p, i) = Mine(cwd[p], fd[p], pr[p], i)
    BY <2>1, <2>5 DEF Sum, Mine, Pointer
  <2>7. Sum(g, p, i) = Mine(cwd'[p], fd'[p], s, i)
    BY <1>1, <2>2, <2>5 DEF Sum, Mine, Pointer
  <2>8. /\ Cardinality(Holders(i)) \in Nat /\ Cardinality(Holders(i)') \in Nat
        /\ Sum(g, p, i) \in Nat /\ Sum(f, p, i) \in Nat
        /\ Cardinality(Holders(i)') - Sum(g, p, i) = Cardinality(Holders(i)) - Sum(f, p, i)
    <3>1. Counts(f, g, i, p)
      BY <2>4 DEF IInv, Finite
    <3> QED
      BY <2>3, <3>1 DEF Count, Counts
  <2>9. mem[i].ref = Cardinality(Holders(i)) + leak[i] + (IF i = ROOTINO THEN 1 ELSE 0)
    BY DEF IInv, CountInv
  <2>10. /\ mem[i].ref \in Int /\ mem'[i].ref \in Int /\ leak[i] \in Int /\ leak'[i] \in Int
    BY SMTT(30) DEF IInv, TypeOK, Mem
  <2>11. mem'[i].ref - leak'[i] - Sum(g, p, i) = mem[i].ref - leak[i] - Sum(f, p, i)
    BY <2>6, <2>7
  <2>12. /\ Cardinality(Holders(i)) \in Int /\ Cardinality(Holders(i)') \in Int
         /\ Sum(g, p, i) \in Int /\ Sum(f, p, i) \in Int
         /\ (IF i = ROOTINO THEN 1 ELSE 0) \in Int
    BY SMTT(30), <2>8
  <2> QED
    <3>1. PICK h : h = Cardinality(Holders(i))
      OBVIOUS
    <3>2. PICK h1 : h1 = Cardinality(Holders(i)')
      OBVIOUS
    <3>3. PICK u, u1 : u = Sum(f, p, i) /\ u1 = Sum(g, p, i)
      OBVIOUS
    <3>4. PICK m, m1, l, l1 : m = mem[i].ref /\ m1 = mem'[i].ref /\ l = leak[i] /\ l1 = leak'[i]
      OBVIOUS
    <3>5. PICK k : k = IF i = ROOTINO THEN 1 ELSE 0
      OBVIOUS
    <3>6. /\ m \in Int /\ m1 \in Int /\ l \in Int /\ l1 \in Int /\ h \in Int /\ h1 \in Int
          /\ u \in Int /\ u1 \in Int /\ k \in Int
          /\ m = h + l + k /\ h1 - u1 = h - u /\ m1 - l1 - u1 = m - l - u
      BY <2>8, <2>9, <2>10, <2>11, <2>12, <3>1, <3>2, <3>3, <3>4, <3>5
    <3>7. m1 = h1 + l1 + k
      BY SMTT(30), <3>6
    <3> QED
      BY <3>7, <3>2, <3>4, <3>5
<1>4. PanicsKnown'
  BY DEF PanicsKnown
<1>5. ProcInv(p)'
  BY <1>1 DEF ProcInv, Fits, InHand
<1>6. ASSUME NEW q \in Procs \ {p}
      PROVE  ProcInv(q)'
  <2>1. PICK r \in Frames : r = pr[q]
    BY DEF IInv, TypeOK
  <2>2. r.x \in Inums0 /\ r.y \in Inums0 /\ r.sym \in Inums0 /\ r.puts \in Seq(Inums)
    BY DEF Frames
  <2>3. Shape(r) /\ Fits(q, r, cwd[q], lock) /\ InHand(r, fd[q]) /\ cwd[q] \in Inums /\ fd[q] \in Inums0
    BY <2>1 DEF IInv, ProcInv, TypeOK
  <2>4. Put(r, 1) \in Inums0 /\ Put(r, 2) \in Inums0
    BY SMTT(30), <2>2 DEF Put, Inums0
  <2>5. InHand(r, fd[q])'
    <3>1. fd'[q] = fd[q] /\ \A i \in Inums : Alloc(i) => \/ Alloc(i)'
                  \/ /\ fd[q] # i /\ r.x # i /\ r.y # i /\ r.sym # i /\ Put(r, 2) # i
                     /\ r.st # "drop" => Put(r, 1) # i
      BY <2>1 DEF Apart
    <3> QED
      BY <2>2, <2>3, <2>4, <3>1 DEF InHand, Live, Inums0
  <2>6. LocksX(r) => r.x # 0
    BY <2>3 DEF LocksX, Shape, ShapeAt
  <2>7. LocksY(r) => r.y # 0
    BY <2>3 DEF LocksY, Shape, ShapeAt
  <2>8. Fits(q, r, cwd[q], lock)'
    <3>1. \A i \in Inums : (IsDir(i) => IsDir(i)') /\ (lock'[i] = q <=> lock[i] = q)
                            /\ (lock[i] = q => dir'[i] = dir[i])
      BY DEF Apart
    <3>2. Label(r) = "unlink2" => LocksX(r)
      BY DEF LocksX
    <3>3. cwd'[q] = cwd[q]
      OBVIOUS
    <3> QED
      BY <2>2, <2>3, <2>6, <2>7, <3>1, <3>2, <3>3 DEF Fits, Inums0
  <2> QED
    <3>1. pr'[q] = r
      BY <1>1, <2>1
    <3> QED
      BY <2>3, <2>5, <2>8, <3>1 DEF ProcInv, Fits, InHand
<1> QED
  BY <1>2, <1>4, <1>5, <1>6, FiniteNext DEF IInv

-----------------------------------------------------------------------------
(* Steps that leave the tree as it is                                      *)

\* Entries depend on the types of inodes and on directories alone ...
LEMMA TypesTree ==
  ASSUME IInv, dir' = dir, \A i \in Inums : dino'[i].type = dino[i].type
  PROVE  /\ Rooted(dino, dir)' /\ EntriesInv'
         /\ \A i \in Inums : Entries(dino, dir, i)' = Entries(dino, dir, i)
<1>1. \A x \in Inums, n \in AllNames : dir[x][n] \in Inums \cup {0}
  BY SMTT(30) DEF IInv, TypeOK, Trees
<1>2. ROOTINO \in Inums /\ "." \in AllNames /\ ".." \in AllNames
  BY NamesAssumption DEF AllNames
<1>3. Rooted(dino, dir)'
  BY <1>1, <1>2 DEF IInv, TreeInv, Rooted
<1>4. EntriesInv'
  BY <1>1 DEF IInv, TreeInv, EntriesInv, IsDir, Alloc
<1>5. \A i \in Inums : Entries(dino, dir, i)' = Entries(dino, dir, i)
  BY DEF Entries
<1> QED
  BY <1>3, <1>4, <1>5

\* ... and link counts, besides, on what calls owe.
LEMMA TreeKept ==
  ASSUME IInv, NEW p \in Procs, NEW s,
         pr' = [pr EXCEPT ![p] = s], dir' = dir,
         \A i \in Inums : dino'[i].type = dino[i].type /\ dino'[i].nlink = dino[i].nlink,
         \A i \in Inums : Owes(s, i) <=> Owes(pr[p], i)
  PROVE  TreeInv'
<1>1. /\ Rooted(dino, dir)' /\ EntriesInv'
      /\ \A i \in Inums : Entries(dino, dir, i)' = Entries(dino, dir, i)
  BY TypesTree
<1>2. ASSUME NEW i \in Inums
      PROVE  Owing(i)' = Owing(i)
  <2>1. \A q \in Procs : Owes(pr'[q], i) <=> Owes(pr[q], i)
    BY DEF IInv, TypeOK
  <2> QED
    BY <2>1 DEF Owing, Owes
<1>3. LinkInv'
  BY <1>1, <1>2 DEF IInv, TreeInv, LinkInv
<1> QED
  BY <1>1, <1>3 DEF TreeInv

\* The references move with the pointers of the process.
Tally(c, f, r, c1, f1, s) ==
    \A i \in Inums : mem'[i].ref - leak'[i] - Mine(c1, f1, s, i) = mem[i].ref - leak[i] - Mine(c, f, r, i)

\* A step that leaves the tree as it is.
LEMMA QuietWith ==
  ASSUME IInv, NEW p \in Procs, NEW s \in Frames, pr' = [pr EXCEPT ![p] = s],
         stopped = "none", UNCHANGED <<dino, dir, committed, stopped>>,
         mem' \in Mem, leak' \in [Inums -> Nat],
         lock' \in [Inums -> Procs \cup {Nobody}],
         cwd' \in [Procs -> Inums], fd' \in [Procs -> Inums0],
         \A q \in Procs \ {p} : cwd'[q] = cwd[q] /\ fd'[q] = fd[q],
         \A i \in Inums, q \in Procs \ {p} : lock'[i] = q <=> lock[i] = q,
         Shape(s), Fits(p, s, cwd'[p], lock'), InHand(s, fd'[p]),
         \A i \in Inums : Owes(s, i) <=> Owes(pr[p], i),
         Tally(cwd[p], fd[p], pr[p], cwd'[p], fd'[p], s)
  PROVE  IInv'
<1>1. TypeOK'
  BY DEF IInv, TypeOK
<1>2. TreeInv'
  BY TreeKept
<1>3. Apart(p)
  BY DEF Apart, IsDir, Alloc
<1>4. Fits(p, s, cwd[p], lock)' /\ InHand(s, fd[p])'
  BY DEF Fits, InHand, Live, IsDir, Alloc
<1>5. CommittedInv'
  BY DEF IInv, CommittedInv
<1> QED
  BY <1>1, <1>2, <1>3, <1>4, <1>5, StepOf DEF Tally

\* A call that only moves on, or takes or gives away references.
LEMMA Quiet ==
  ASSUME IInv, NEW p \in Procs, NEW s \in Frames, pr' = [pr EXCEPT ![p] = s],
         stopped = "none", UNCHANGED <<dino, dir, lock, cwd, fd, committed, stopped>>,
         mem' \in Mem, leak' \in [Inums -> Nat],
         Shape(s), Fits(p, s, cwd[p], lock), InHand(s, fd[p]),
         \A i \in Inums : Owes(s, i) <=> Owes(pr[p], i),
         Tally(cwd[p], fd[p], pr[p], cwd[p], fd[p], s)
  PROVE  IInv'
<1>1. /\ lock' \in [Inums -> Procs \cup {Nobody}]
      /\ cwd' \in [Procs -> Inums] /\ fd' \in [Procs -> Inums0]
  BY DEF IInv, TypeOK
<1> QED
  BY <1>1, QuietWith

\* What the invariant says of process p.
LEMMA Facts ==
  ASSUME IInv, NEW p \in Procs, NEW r, r = pr[p]
  PROVE  /\ r \in Frames /\ Shape(r) /\ Fits(p, r, cwd[p], lock) /\ InHand(r, fd[p])
         /\ r.call \in Calls /\ r.st \in Labels /\ r.path \in Seq(AllNames) /\ r.path2 \in Paths
         /\ r.par \in BOOLEAN /\ r.nm \in AllNames /\ r.x \in Inums0 /\ r.y \in Inums0
         /\ r.sym \in Inums0 /\ r.puts \in Seq(Inums) /\ r.then \in Labels /\ r.cont \in Labels
         /\ r.depth \in Nat /\ r.child \in Inums0
         /\ cwd[p] \in Inums /\ fd[p] \in Inums0
         /\ mem \in Mem /\ leak \in [Inums -> Nat]
<1>1. r \in Frames /\ ProcInv(p) /\ cwd[p] \in Inums /\ fd[p] \in Inums0
  BY DEF IInv, TypeOK
<1> QED
  BY <1>1 DEF Frames, ProcInv, IInv, TypeOK

\* 0 is no inode: it stands for no pointer.
LEMMA ZeroFree == 0 \notin Inums
  BY NamesAssumption

\* iget() adds a reference, ilock() none.
LEMMA IgetRef ==
  \A m, i : m \in Mem /\ i \in Inums =>
     Iget(m, i) \in Mem /\ \A j \in Inums : Iget(m, i)[j].ref = m[j].ref + One(i, j)
  BY SMTT(30) DEF Mem, Iget, One

LEMMA LoadRef ==
  \A m, i : m \in Mem /\ i \in Inums =>
     Load(m, i) \in Mem /\ \A j \in Inums : Load(m, i)[j].ref = m[j].ref
  BY DEF Mem, Load

Dropped(m, i) == [m EXCEPT ![i].ref = @ - 1]

\* What a call with nothing, or one inode, left to put points to.
LEMMA PutOfNone == \A r : r.puts = <<>> => Put(r, 1) = 0 /\ Put(r, 2) = 0
<1>1. ~(Len(<<>>) >= 1) /\ ~(Len(<<>>) >= 2)
  BY SMTT(30), NoSeq
<1> QED
  BY <1>1 DEF Put

LEMMA PutOfOne == \A r, w : r.puts = <<w>> => Put(r, 1) = w /\ Put(r, 2) = 0
<1> TAKE r, w
<1> HAVE r.puts = <<w>>
<1>1. Len(<<w>>) >= 1 /\ ~(Len(<<w>>) >= 2) /\ <<w>>[1] = w
  BY SMTT(30)
<1> QED
  BY <1>1 DEF Put

\* The pointers of a call alone.
Own(r, i) == One(r.x, i) + One(r.y, i) + One(r.sym, i) + One(Put(r, 1), i) + One(Put(r, 2), i)
Own3(r, i) == One(r.x, i) + One(r.y, i) + One(r.sym, i)
Even(r, s, w, n, k) == \A i \in Inums : Own3(s, i) + One(w, i) + One(k, i) = Own3(r, i) + One(n, i)
NoLocks(r) == ~LocksX(r) /\ ~LocksY(r)
InDirs(r) == /\ HasParent(r) /\ r.x # 0 => IsDir(r.x)
             /\ r.call = "symlink" /\ r.y # 0 => IsDir(r.y)

Settled(r, s) ==
    \A i \in Inums : mem'[i].ref - leak'[i] - Own(s, i) = mem[i].ref - leak[i] - Own(r, i)

\* A step that keeps directory and open file moves the references with those of the call.
LEMMA Ledger ==
  ASSUME NEW r, NEW s, NEW c, NEW f, Settled(r, s),
         mem \in Mem, leak \in [Inums -> Nat], mem' \in Mem, leak' \in [Inums -> Nat]
  PROVE  Tally(c, f, r, c, f, s)
<1> SUFFICES ASSUME NEW i \in Inums
    PROVE  mem'[i].ref - leak'[i] - Mine(c, f, s, i) = mem[i].ref - leak[i] - Mine(c, f, r, i)
  BY DEF Tally
<1>1. \A t : /\ Own(t, i) \in Int /\ One(c, i) \in Int /\ One(f, i) \in Int
             /\ Mine(c, f, t, i) = One(c, i) + One(f, i) + Own(t, i)
  BY SMTT(30) DEF Mine, Own, One
<1>2. mem[i].ref \in Int /\ mem'[i].ref \in Int /\ leak[i] \in Int /\ leak'[i] \in Int
  BY SMTT(30) DEF Mem
<1>3. mem'[i].ref - leak'[i] - Own(s, i) = mem[i].ref - leak[i] - Own(r, i)
  BY DEF Settled
<1>4. PICK m, m1, l, l1, a, b, u, v : /\ m = mem[i].ref /\ m1 = mem'[i].ref /\ l = leak[i] /\ l1 = leak'[i]
                           /\ a = Own(s, i) /\ b = Own(r, i) /\ u = One(c, i) /\ v = One(f, i)
  OBVIOUS
<1>5. m1 - l1 - (u + v + a) = m - l - (u + v + b)
  <2>1. /\ m \in Int /\ m1 \in Int /\ l \in Int /\ l1 \in Int /\ a \in Int /\ b \in Int
        /\ u \in Int /\ v \in Int /\ m1 - l1 - a = m - l - b
    BY <1>1, <1>2, <1>3, <1>4
  <2> QED
    BY SMTT(30), <2>1
<1> QED
  BY <1>1, <1>4, <1>5

\* A step of a call that holds no lock before or after it.
LEMMA Move ==
  ASSUME IInv, NEW p \in Procs, NEW r, r = pr[p], NEW s \in Frames, pr' = [pr EXCEPT ![p] = s],
         stopped = "none", UNCHANGED <<dino, dir, lock, cwd, fd, committed, stopped>>,
         mem' \in Mem, leak' \in [Inums -> Nat],
         Shape(s), NoLocks(r), NoLocks(s), InDirs(s), InHand(s, fd[p]),
         \A i \in Inums : Owes(s, i) <=> Owes(r, i), Settled(r, s)
  PROVE  IInv'
<1>1. Fits(p, r, cwd[p], lock) /\ mem \in Mem /\ leak \in [Inums -> Nat]
  BY Facts
<1>2. Fits(p, s, cwd[p], lock)
  BY <1>1 DEF Fits, NoLocks, InDirs, LocksX
<1>3. Tally(cwd[p], fd[p], r, cwd[p], fd[p], s)
  BY <1>1, Ledger
<1> QED
  BY <1>2, <1>3, Quiet

\* A call that is not putting an inode.
LEMMA Ready ==
  ASSUME IInv, NEW p \in Procs, NEW r, r = pr[p], r.st \notin {"put", "drop"}
  PROVE  /\ r \in Frames /\ InDirs(r) /\ InHand(r, fd[p]) /\ mem \in Mem /\ leak \in [Inums -> Nat]
         /\ r.puts = <<>> /\ ~Putting(r) /\ Label(r) = r.st /\ ShapeAt(r, r.st)
         /\ (r.x # 0 => r.x \in Inums /\ Alloc(r.x)) /\ (r.y # 0 => r.y \in Inums /\ Alloc(r.y))
         /\ (r.sym # 0 => r.sym \in Inums /\ Alloc(r.sym))
         /\ r.x \in Inums0 /\ r.y \in Inums0 /\ r.sym \in Inums0 /\ r.cont \in Labels /\ r.call \in Calls
         /\ r.path \in Seq(AllNames) /\ r.path2 \in Paths /\ r.nm \in AllNames
<1>1. /\ r \in Frames /\ Shape(r) /\ Fits(p, r, cwd[p], lock) /\ InHand(r, fd[p])
      /\ mem \in Mem /\ leak \in [Inums -> Nat]
      /\ r.x \in Inums0 /\ r.y \in Inums0 /\ r.sym \in Inums0 /\ r.cont \in Labels /\ r.call \in Calls
      /\ r.path \in Seq(AllNames) /\ r.path2 \in Paths /\ r.nm \in AllNames
  BY Facts
<1>2. ~Putting(r) /\ Label(r) = r.st
  BY DEF Putting, Label
<1>3. r.puts = <<>> /\ ShapeAt(r, r.st)
  BY <1>1, <1>2 DEF Shape
<1>4. InDirs(r)
  BY <1>1 DEF InDirs, Fits
<1> QED
  BY <1>1, <1>2, <1>3, <1>4 DEF InHand, Live, Inums0

\* The references it has got (n) and those that nobody will put (k), none being 0.
Refs(n, k) == /\ mem' \in Mem /\ leak' \in [Inums -> Nat]
              /\ \A i \in Inums : mem'[i].ref = mem[i].ref + One(n, i) /\ leak'[i] = leak[i] + One(k, i)

Owned(r, s, n, k) == \A i \in Inums : Own(s, i) + One(k, i) = Own(r, i) + One(n, i)

\* Pointers are counted by numbers.
LEMMA OwnInt == \A c, r, i : Own3(r, i) \in Int /\ Own(r, i) \in Int /\ One(c, i) \in Int
  BY SMTT(30) DEF Own, Own3, One

\* A step that takes a reference to n and forgets one to k, and its pointers with them.
LEMMA Balance ==
  ASSUME NEW r, NEW s, NEW n, NEW k, mem \in Mem, leak \in [Inums -> Nat], Refs(n, k), Owned(r, s, n, k)
  PROVE  Settled(r, s)
<1> SUFFICES ASSUME NEW i \in Inums
    PROVE  mem'[i].ref - leak'[i] - Own(s, i) = mem[i].ref - leak[i] - Own(r, i)
  BY DEF Settled
<1>1. /\ mem[i].ref \in Int /\ leak[i] \in Int /\ One(n, i) \in Int /\ One(k, i) \in Int
      /\ mem'[i].ref = mem[i].ref + One(n, i) /\ leak'[i] = leak[i] + One(k, i)
  BY SMTT(30) DEF Mem, One, Refs
<1>2. PICK m, l, c, d : m = mem[i].ref /\ l = leak[i] /\ c = One(n, i) /\ d = One(k, i)
  OBVIOUS
<1>3. PICK a, b : a = Own(r, i) /\ b = Own(s, i)
  OBVIOUS
<1>4. (m + c) - (l + d) - b = m - l - a
  <2>1. /\ m \in Int /\ l \in Int /\ c \in Int /\ d \in Int /\ a \in Int /\ b \in Int /\ b + d = a + c
    BY <1>1, <1>2, <1>3, OwnInt DEF Owned
  <2> QED
    BY SMTT(30), <2>1
<1> QED
  BY <1>1, <1>2, <1>3, <1>4

\* What iget() and ilock() do to the reference counts.
LEMMA RefsKept ==
  ASSUME IInv, leak' = leak
  PROVE  /\ mem' = mem => Refs(0, 0)
         /\ \A x \in Inums : mem' = Load(mem, x) => Refs(0, 0)
         /\ \A i \in Inums : mem' = Iget(mem, i) => Refs(i, 0)
         /\ \A x, i \in Inums : mem' = Iget(Load(mem, x), i) => Refs(i, 0)
<1>1. mem \in Mem /\ leak \in [Inums -> Nat]
  BY DEF IInv, TypeOK
<1>2. \A i \in Inums : /\ leak[i] = leak[i] + One(0, i)
                       /\ \A m \in Mem : m[i].ref = m[i].ref + One(0, i)
  BY SMTT(30), <1>1, ZeroFree DEF One, Mem
<1>3. mem' = mem => Refs(0, 0)
  BY <1>1, <1>2 DEF Refs
<1>4. ASSUME NEW x \in Inums
      PROVE  /\ Load(mem, x) \in Mem /\ \A j \in Inums : Load(mem, x)[j].ref = mem[j].ref
             /\ mem' = Load(mem, x) => Refs(0, 0)
  <2>1. Load(mem, x) \in Mem /\ \A j \in Inums : Load(mem, x)[j].ref = mem[j].ref
    BY <1>1, LoadRef
  <2> QED
    BY <1>1, <1>2, <2>1 DEF Refs
<1>5. ASSUME NEW i \in Inums
      PROVE  mem' = Iget(mem, i) => Refs(i, 0)
  <2>1. Iget(mem, i) \in Mem /\ \A j \in Inums : Iget(mem, i)[j].ref = mem[j].ref + One(i, j)
    BY <1>1, IgetRef
  <2> QED
    BY <1>1, <1>2, <2>1 DEF Refs
<1>6. ASSUME NEW x \in Inums, NEW i \in Inums
      PROVE  mem' = Iget(Load(mem, x), i) => Refs(i, 0)
  <2>1. Load(mem, x) \in Mem /\ \A j \in Inums : Load(mem, x)[j].ref = mem[j].ref
    BY <1>4
  <2>2. /\ Iget(Load(mem, x), i) \in Mem
        /\ \A j \in Inums : Iget(Load(mem, x), i)[j].ref = Load(mem, x)[j].ref + One(i, j)
    BY <2>1, IgetRef
  <2> QED
    BY <1>1, <1>2, <2>1, <2>2 DEF Refs
<1> QED
  BY <1>3, <1>4, <1>5, <1>6

\* It goes on to put inode w and then to a label without locks ...
LockLabels == {"unlink2", "unlinkbad", "linkfail", "made", "unlink3"}

\* A step of a call that goes on to iput() one inode ...
LEMMA ToPut ==
  ASSUME IInv, NEW p \in Procs, NEW r, r = pr[p], NEW s \in Frames, pr' = [pr EXCEPT ![p] = s],
         r.st \notin {"put", "drop"} \cup LockLabels,
         stopped = "none", UNCHANGED <<dino, dir, lock, cwd, fd, committed, stopped>>,
         NEW n, NEW k, Refs(n, k),
         NEW w \in Inums, s.st = "put", s.puts = <<w>>, s.then \notin LockLabels, ShapeAt(s, s.then), InDirs(s),
         Alloc(w), Live(s.x), Live(s.y), Live(s.sym),
         \A i \in Inums : Owes(s, i) <=> Owes(r, i),
         Even(r, s, w, n, k)
  PROVE  IInv'
<1>1. /\ InHand(r, fd[p]) /\ r.puts = <<>> /\ Label(r) = r.st
      /\ mem \in Mem /\ leak \in [Inums -> Nat] /\ mem' \in Mem /\ leak' \in [Inums -> Nat]
  BY Ready DEF Refs
<1>2. Putting(s) /\ Label(s) = s.then
  BY DEF Putting, Label
<1>3. Shape(s)
  <2>1. Len(<<w>>) <= 2 /\ <<w>> # <<>>
    BY SMTT(30)
  <2> QED
    BY <1>2, <2>1 DEF Shape
<1>4. Put(s, 1) = w /\ Put(s, 2) = 0 /\ Put(r, 1) = 0 /\ Put(r, 2) = 0
  BY <1>1, PutOfOne, PutOfNone
<1>5. NoLocks(r) /\ NoLocks(s)
  BY <1>1, <1>2 DEF NoLocks, LocksX, LocksY, LockLabels
<1>6. InHand(s, fd[p])
  BY <1>1, <1>4 DEF InHand, Live
<1>7. \A i \in Inums : Own(s, i) = Own3(s, i) + One(w, i) /\ Own(r, i) = Own3(r, i)
  BY SMTT(30), <1>4, ZeroFree DEF Own, Own3, One
<1>8. Owned(r, s, n, k)
  BY <1>7 DEF Even, Owned
<1>9. Settled(r, s)
  BY <1>1, <1>8, Balance
<1> QED
  BY <1>1, <1>3, <1>5, <1>6, <1>9, Move

\* ... or straight to such a label.
LEMMA ToLabel ==
  ASSUME IInv, NEW p \in Procs, NEW r, r = pr[p], NEW s \in Frames, pr' = [pr EXCEPT ![p] = s],
         r.st \notin {"put", "drop"} \cup LockLabels,
         stopped = "none", UNCHANGED <<dino, dir, lock, cwd, fd, committed, stopped>>,
         NEW n, NEW k, Refs(n, k),
         s.st \notin {"put", "drop"} \cup LockLabels, s.puts = <<>>, ShapeAt(s, s.st), InDirs(s),
         Live(s.x), Live(s.y), Live(s.sym),
         \A i \in Inums : Owes(s, i) <=> Owes(r, i),
         Even(r, s, 0, n, k)
  PROVE  IInv'
<1>1. /\ InHand(r, fd[p]) /\ r.puts = <<>> /\ Label(r) = r.st
      /\ mem \in Mem /\ leak \in [Inums -> Nat] /\ mem' \in Mem /\ leak' \in [Inums -> Nat]
  BY Ready DEF Refs
<1>2. ~Putting(s) /\ Label(s) = s.st
  BY DEF Putting, Label
<1>3. Shape(s)
  <2>1. Len(<<>>) <= 2
    BY SMTT(30), NoSeq
  <2> QED
    BY <1>2, <2>1 DEF Shape
<1>4. Put(s, 1) = 0 /\ Put(s, 2) = 0 /\ Put(r, 1) = 0 /\ Put(r, 2) = 0
  BY <1>1, PutOfNone
<1>5. NoLocks(r) /\ NoLocks(s)
  BY <1>1, <1>2 DEF NoLocks, LocksX, LocksY, LockLabels
<1>6. InHand(s, fd[p])
  BY <1>1, <1>4 DEF InHand, Live
<1>7. \A i \in Inums : Own(s, i) = Own3(s, i) + One(0, i) /\ Own(r, i) = Own3(r, i)
  BY SMTT(30), <1>4, ZeroFree DEF Own, Own3, One
<1>8. Owned(r, s, n, k)
  BY <1>7 DEF Even, Owned
<1>9. Settled(r, s)
  BY <1>1, <1>8, Balance
<1> QED
  BY <1>1, <1>3, <1>5, <1>6, <1>9, Move

\* The call goes on with the inodes it has.
LEMMA Advance ==
  ASSUME IInv, NEW p \in Procs, NEW r, r = pr[p], NEW l \in Labels,
         pr' = [pr EXCEPT ![p] = [r EXCEPT !.st = l]],
         stopped = "none", UNCHANGED <<dino, dir, lock, cwd, fd, committed, stopped>>, Refs(0, 0),
         {r.st, l} \cap ({"put", "drop"} \cup LockLabels) = {}, ShapeAt(r, l),
         InDirs([r EXCEPT !.st = l])
  PROVE  IInv'
<1>1. PICK s : s = [r EXCEPT !.st = l]
  OBVIOUS
<1>2. r.st \notin {"put", "drop"} \cup LockLabels /\ l \notin {"put", "drop"} \cup LockLabels
  OBVIOUS
<1>3. r \in Frames /\ InHand(r, fd[p]) /\ r.puts = <<>>
  BY <1>2, Ready
<1>4. s \in Frames
  BY <1>1, <1>3 DEF Frames
<1>5. /\ s.call = r.call /\ s.st = l /\ s.x = r.x /\ s.y = r.y /\ s.sym = r.sym /\ s.puts = <<>>
      /\ s.par = r.par /\ s.cont = r.cont
  BY <1>1, <1>3 DEF Frames
<1>6. ShapeAt(s, l) /\ Live(s.x) /\ Live(s.y) /\ Live(s.sym)
  BY <1>3, <1>5 DEF ShapeAt, InHand
<1>7. \A i \in Inums : Owes(s, i) <=> Owes(r, i)
  BY <1>5 DEF Owes
<1>8. Even(r, s, 0, 0, 0)
  BY SMTT(30), <1>5, ZeroFree DEF Even, Own3, One
<1> QED
  BY <1>1, <1>2, <1>4, <1>5, <1>6, <1>7, <1>8, ToLabel

\* A call that is done with the inode it has looked up.
LEMMA PutX ==
  ASSUME IInv, NEW p \in Procs, NEW r, r = pr[p], r.x # 0,
         r.st \in {"open", "link", "chdir", "unlink", "up", "name"},
         pr' = [pr EXCEPT ![p] = Puts([r EXCEPT !.x = 0], <<r.x>>, "end")],
         stopped = "none", UNCHANGED <<dino, dir, lock, cwd, fd, committed, stopped>>, Refs(0, 0)
  PROVE  IInv'
<1>1. PICK s : s = Puts([r EXCEPT !.x = 0], <<r.x>>, "end")
  OBVIOUS
<1>2. r.st \notin {"put", "drop"} \cup LockLabels
  BY DEF LockLabels
<1>3. /\ r \in Frames /\ ShapeAt(r, r.st) /\ r.x \in Inums /\ Alloc(r.x)
  BY <1>2, Ready
<1>4. s \in Frames
  <2>1. "put" \in Labels /\ "end" \in Labels /\ 0 \in Inums0 /\ <<r.x>> \in Seq(Inums)
    BY SMTT(30), <1>3 DEF Labels, Inums0
  <2> QED
    BY <1>1, <1>3, <2>1 DEF Puts, Frames
<1>5. r.y = 0 /\ r.sym = 0
  BY <1>3 DEF ShapeAt, Parents, Lookups
<1>6. /\ s.call = r.call /\ s.st = "put" /\ s.then = "end" /\ s.x = 0 /\ s.y = 0
      /\ s.sym = 0 /\ s.puts = <<r.x>>
  BY <1>1, <1>3, <1>5 DEF Puts, Frames
<1>7. ShapeAt(s, s.then) /\ s.then \notin LockLabels /\ InDirs(s) /\ Live(s.x) /\ Live(s.y) /\ Live(s.sym)
  BY <1>6 DEF ShapeAt, Parents, Lookups, LockLabels, InDirs, Live
<1>8. \A i \in Inums : Owes(s, i) <=> Owes(r, i)
  BY <1>5, <1>6, ZeroFree DEF Owes
<1>9. Even(r, s, r.x, 0, 0)
  BY SMTT(30), <1>5, <1>6, ZeroFree DEF Even, Own3, One
<1> QED
  BY <1>1, <1>2, <1>3, <1>4, <1>6, <1>7, <1>8, <1>9, ToPut

\* What a directory entry holds.
LEMMA EntryIs ==
  ASSUME IInv, NEW x \in Inums, IsDir(x), NEW n \in AllNames
  PROVE  dir[x][n] \in Inums0 /\ (dir[x][n] # 0 => dir[x][n] \in Inums /\ Alloc(dir[x][n]))
  BY SMTT(30) DEF IInv, TypeOK, Trees, TreeInv, EntriesInv, Inums0

\* A step of namex(), and its end.
LEMMA WalkSteps ==
  ASSUME IInv, NEW p \in Procs, UNCHANGED <<committed, calls>>,
         WalkEnd(p) \/ WalkStep(p)
  PROVE  IInv'
\* A lookup that fails puts the inode it has come to.
<1>GiveUp. ASSUME NEW r, r = pr[p], r.st = "walk", pr' = [pr EXCEPT ![p] = Abandon(r)],
                  stopped = "none", UNCHANGED <<dino, dir, lock, cwd, fd, committed, stopped>>, Refs(0, 0)
           PROVE  IInv'
  <2> USE <1>GiveUp
  <2>1. PICK s : s = Abandon(r)
    OBVIOUS
  <2>2. /\ r \in Frames /\ InDirs(r) /\ InHand(r, fd[p]) /\ r.cont \in Labels
        /\ ShapeAt(r, "walk") /\ (r.x # 0 => r.x \in Inums /\ Alloc(r.x))
    BY Ready
  <2>3. r.x # 0 /\ r.x \in Inums /\ Alloc(r.x)
    BY <2>2 DEF ShapeAt
  <2>4. s \in Frames
    <3>1. "put" \in Labels /\ 0 \in Inums0 /\ <<r.x>> \in Seq(Inums)
      BY SMTT(30), <2>3 DEF Labels, Inums0
    <3> QED
      BY <2>1, <2>2, <3>1 DEF Abandon, Puts, Frames
  <2>5. /\ s.call = r.call /\ s.st = "put" /\ s.then = r.cont /\ s.x = 0 /\ s.y = r.y
        /\ s.sym = r.sym /\ s.puts = <<r.x>>
    BY <2>1, <2>2 DEF Abandon, Puts, Frames
  <2>6. ShapeAt(s, s.then) /\ s.then \notin LockLabels /\ r.st \notin {"put", "drop"} \cup LockLabels
    BY <2>2, <2>5 DEF ShapeAt, Parents, Lookups, LockLabels
  <2>7. InDirs(s) /\ Live(s.x) /\ Live(s.y) /\ Live(s.sym)
    BY <2>2, <2>5 DEF InDirs, InHand, Live
  <2>8. \A i \in Inums : Owes(s, i) <=> Owes(r, i)
    BY <2>2, <2>5, ZeroFree DEF Owes, ShapeAt, Parents, Lookups
  <2>9. Even(r, s, r.x, 0, 0)
    BY SMTT(30), <2>5, ZeroFree DEF Even, Own3, One
  <2> QED
    BY <2>1, <2>3, <2>4, <2>5, <2>6, <2>7, <2>8, <2>9, ToPut
<1>WalkOn. ASSUME NEW r, r = pr[p], r.st = "walk", r.path # <<>>,
                  NEW n \in Inums, Alloc(n), mem' = Iget(Load(mem, r.x), n),
                  pr' = [pr EXCEPT ![p] = Puts([r EXCEPT !.x = n, !.path = Tail(@)], <<r.x>>, "walk")],
                  stopped = "none", UNCHANGED <<dino, dir, lock, cwd, fd, leak, committed, stopped>>
           PROVE  IInv'
  <2> USE <1>WalkOn
  <2>1. PICK s : s = Puts([r EXCEPT !.x = n, !.path = Tail(@)], <<r.x>>, "walk")
    OBVIOUS
  <2>2. /\ r \in Frames /\ InDirs(r) /\ InHand(r, fd[p]) /\ r.path \in Seq(AllNames) /\ Label(r) = "walk"
        /\ ShapeAt(r, "walk") /\ (r.x # 0 => r.x \in Inums /\ Alloc(r.x))
    BY Ready
  <2>3. r.x # 0 /\ r.x \in Inums /\ Alloc(r.x) /\ n # 0
    BY <2>2, ZeroFree DEF ShapeAt
  <2>4. s \in Frames
    <3>1. "put" \in Labels /\ "walk" \in Labels /\ n \in Inums0 /\ <<r.x>> \in Seq(Inums)
      BY SMTT(30), <2>3 DEF Labels, Inums0
    <3>2. Tail(r.path) \in Seq(AllNames)
      BY <2>2, HeadTail
    <3> QED
      BY <2>1, <2>2, <3>1, <3>2 DEF Puts, Frames
  <2>5. /\ s.call = r.call /\ s.st = "put" /\ s.then = "walk" /\ s.x = n /\ s.y = r.y
        /\ s.sym = r.sym /\ s.puts = <<r.x>> /\ s.cont = r.cont /\ s.par = r.par
    BY <2>1, <2>2 DEF Puts, Frames
  <2>6. ShapeAt(s, s.then) /\ s.then \notin LockLabels /\ r.st \notin {"put", "drop"} \cup LockLabels
    BY <2>2, <2>3, <2>5 DEF ShapeAt, LockLabels
  <2>7. Live(s.x) /\ Live(s.y) /\ Live(s.sym)
    BY <2>2, <2>5 DEF InHand, Live
  <2>8. InDirs(s)
    BY <2>2, <2>5 DEF InDirs, HasParent, Label, Putting, ShapeAt, Lookups, Parents, Makers
  <2>9. \A i \in Inums : Owes(s, i) <=> Owes(r, i)
    BY <2>2, <2>3, <2>5, ZeroFree DEF Owes, ShapeAt, Parents, Lookups
  <2>10. Even(r, s, r.x, n, 0)
    BY SMTT(30), <2>5, ZeroFree DEF Even, Own3, One
  <2>11. Refs(n, 0)
    BY <2>3, RefsKept
  <2> QED
    BY <2>1, <2>3, <2>4, <2>5, <2>6, <2>7, <2>8, <2>9, <2>10, <2>11, ToPut
\* The lookup of a parent stops before the last element.
<1>WalkLast. ASSUME NEW r, r = pr[p], r.st = "walk", r.path # <<>>, r.par, IsDir(r.x),
                    mem' = Load(mem, r.x),
                    pr' = [pr EXCEPT ![p] = [r EXCEPT !.nm = Head(r.path), !.path = <<>>, !.st = r.cont]],
                    stopped = "none", UNCHANGED <<dino, dir, lock, cwd, fd, leak, committed, stopped>>
             PROVE  IInv'
  <2> USE <1>WalkLast
  <2>1. PICK s : s = [r EXCEPT !.nm = Head(r.path), !.path = <<>>, !.st = r.cont]
    OBVIOUS
  <2>2. /\ r \in Frames /\ InDirs(r) /\ InHand(r, fd[p]) /\ r.path \in Seq(AllNames) /\ r.puts = <<>>
        /\ ShapeAt(r, "walk") /\ (r.x # 0 => r.x \in Inums)
    BY Ready
  <2>3. r.x \in Inums /\ r.cont \in {"link2"} \cup Parents
    BY <2>2 DEF ShapeAt
  <2>4. s \in Frames
    <3>1. Head(r.path) \in AllNames /\ <<>> \in Seq(AllNames)
      BY SMTT(30), <2>2, HeadTail
    <3> QED
      BY <2>1, <2>2, <3>1 DEF Frames
  <2>5. /\ s.call = r.call /\ s.st = r.cont /\ s.x = r.x /\ s.y = r.y
        /\ s.sym = r.sym /\ s.puts = <<>>
    BY <2>1, <2>2 DEF Frames
  <2>6. /\ ShapeAt(s, s.st) /\ s.st \notin {"put", "drop"} \cup LockLabels
        /\ r.st \notin {"put", "drop"} \cup LockLabels
    BY <2>2, <2>3, <2>5 DEF ShapeAt, Parents, Lookups, LockLabels
  <2>7. Live(s.x) /\ Live(s.y) /\ Live(s.sym)
    BY <2>2, <2>5 DEF InHand
  <2>8. InDirs(s)
    BY <2>2, <2>3, <2>5 DEF InDirs, ShapeAt, Parents
  <2>9. \A i \in Inums : Owes(s, i) <=> Owes(r, i)
    BY <2>5 DEF Owes
  <2>10. Even(r, s, 0, 0, 0)
    BY SMTT(30), <2>5, ZeroFree DEF Even, Own3, One
  <2>11. Refs(0, 0)
    BY <2>3, RefsKept
  <2> QED
    BY <2>1, <2>4, <2>5, <2>6, <2>7, <2>8, <2>9, <2>10, <2>11, ToLabel
<1>WalkEnd. CASE WalkEnd(p)
  <2> USE <1>WalkEnd
  <2>1. PICK r : r = pr[p]
    OBVIOUS
  <2>2. /\ stopped = "none" /\ r.st = "walk"
        /\ pr' = [pr EXCEPT ![p] = IF r.par THEN Abandon(r) ELSE [r EXCEPT !.st = r.cont]]
        /\ UNCHANGED <<dino, dir, mem, leak, lock, cwd, fd, committed, stopped>>
    BY <2>1 DEF WalkEnd, At, Go, tree
  <2>3. /\ r \in Frames /\ ShapeAt(r, "walk") /\ InDirs(r) /\ Label(r) = "walk" /\ r.cont \in Labels
    BY <2>1, <2>2, Ready
  <2>4. Refs(0, 0)
    BY <2>2, RefsKept
  <2>5. CASE r.par
    <3>1. pr' = [pr EXCEPT ![p] = Abandon(r)]
      BY <2>2, <2>5
    <3> QED
      BY <2>1, <2>2, <2>4, <3>1, <1>GiveUp
  <2>6. CASE ~r.par
    <3>1. r.cont \in {"named", "follow"}
      BY <2>3, <2>6 DEF ShapeAt
    <3>2. ShapeAt(r, r.cont) /\ {r.st, r.cont} \cap ({"put", "drop"} \cup LockLabels) = {}
      BY <2>2, <2>3, <3>1 DEF ShapeAt, Lookups, Parents, LockLabels
    <3>3. InDirs([r EXCEPT !.st = r.cont])
      <4>1. PICK s : s = [r EXCEPT !.st = r.cont]
        OBVIOUS
      <4>2. s.call = r.call /\ s.st = r.cont /\ s.x = r.x /\ s.y = r.y
        BY <2>3, <4>1 DEF Frames
      <4> QED
        BY <2>3, <3>1, <4>1, <4>2 DEF InDirs, HasParent, Label, Putting, Makers, ShapeAt, Lookups
    <3>4. pr' = [pr EXCEPT ![p] = [r EXCEPT !.st = r.cont]]
      BY <2>2, <2>6
    <3> QED
      BY <2>1, <2>2, <2>3, <2>4, <3>2, <3>3, <3>4, Advance
  <2> QED
    BY <2>5, <2>6
<1>WalkStep. CASE WalkStep(p)
  <2> USE <1>WalkStep
  <2>1. PICK r : r = pr[p]
    OBVIOUS
  <2>2. PICK n : n = dir[r.x][Head(r.path)]
    OBVIOUS
  <2>3. /\ r \in Frames /\ Shape(r) /\ InHand(r, fd[p]) /\ mem \in Mem
    BY <2>1, Facts
  <2>4. stopped = "none" /\ r.st = "walk" /\ r.path # <<>>
    BY <2>1 DEF WalkStep, At
  <2>5. r.x \in Inums /\ Alloc(r.x) /\ Head(r.path) \in AllNames
    <3>1. r.x \in Inums /\ r.x # 0 /\ r.path \in Seq(AllNames)
      BY <2>3, <2>4 DEF Frames, Inums0, Shape, ShapeAt, Putting, Label
    <3> QED
      BY <2>3, <2>4, <3>1, HeadTail DEF InHand, Live
  <2>6. ~NoType(r.x)
    BY <2>5 DEF NoType, Alloc
  <2>7. IsDir(r.x) => n \in Inums0 /\ (n # 0 => n \in Inums /\ Alloc(n))
    BY <2>2, <2>5, EntryIs
  <2> DEFINE last == r.par /\ Len(r.path) = 1
             found == IsDir(r.x) /\ ~last /\ n # 0
  <2>8. /\ mem' = IF found THEN Iget(Load(mem, r.x), n) ELSE Load(mem, r.x)
        /\ Go(p, CASE ~IsDir(r.x) -> Abandon(r)
                   [] IsDir(r.x) /\ last -> [r EXCEPT !.nm = Head(r.path), !.path = <<>>, !.st = r.cont]
                   [] IsDir(r.x) /\ ~last /\ n = 0 -> Abandon(r)
                   [] found -> Puts([r EXCEPT !.x = n, !.path = Tail(@)], <<r.x>>, "walk"))
        /\ UNCHANGED <<dino, dir, leak, lock, cwd, fd, committed, stopped>>
    BY <2>1, <2>2, <2>6 DEF WalkStep, tree, IsDir
  <2>9. CASE found
    <3>1. /\ mem' = Iget(Load(mem, r.x), n)
          /\ pr' = [pr EXCEPT ![p] = Puts([r EXCEPT !.x = n, !.path = Tail(@)], <<r.x>>, "walk")]
      BY <2>8, <2>9 DEF Go
    <3> QED
      BY <2>1, <2>4, <2>7, <2>8, <2>9, <3>1, <1>WalkOn
  <2>10. CASE IsDir(r.x) /\ last
    <3>1. /\ mem' = Load(mem, r.x)
          /\ pr' = [pr EXCEPT ![p] = [r EXCEPT !.nm = Head(r.path), !.path = <<>>, !.st = r.cont]]
      BY <2>8, <2>10 DEF Go
    <3> QED
      BY <2>1, <2>4, <2>8, <2>10, <3>1, <1>WalkLast
  <2>11. CASE ~IsDir(r.x) \/ (IsDir(r.x) /\ ~last /\ n = 0)
    <3>1. mem' = Load(mem, r.x) /\ pr' = [pr EXCEPT ![p] = Abandon(r)]
      BY <2>8, <2>11 DEF Go
    <3>2. Refs(0, 0)
      BY <2>5, <2>8, <3>1, RefsKept
    <3> QED
      BY <2>1, <2>4, <2>8, <3>1, <3>2, <1>GiveUp
  <2> QED
    BY <2>9, <2>10, <2>11
<1> QED
  BY <1>WalkEnd, <1>WalkStep

-----------------------------------------------------------------------------
(* Lookups and the calls that change no inode                              *)

\* skipelem() splits a path into names.
LEMMA ElemsOf == \A path \in Paths : Elems(path) \in Seq(AllNames)
<1>NoSlash. \A s \in Seq(AllNames \cup {"/"}) : (\A k \in 1 .. Len(s) : s[k] # "/") => s \in Seq(AllNames)
  <2> TAKE s \in Seq(AllNames \cup {"/"})
  <2> HAVE \A k \in 1 .. Len(s) : s[k] # "/"
  <2>1. Len(s) \in Nat /\ s \in [1 .. Len(s) -> AllNames \cup {"/"}]
    BY LenOf
  <2>2. s \in [1 .. Len(s) -> AllNames]
    BY <2>1
  <2> QED
    BY SMTT(30), <2>1, <2>2
<1> TAKE path \in Paths
<1>1. path \in Seq(AllNames \cup {"/"}) /\ \A k \in DOMAIN path : path[k] = "/" => k = 1
  BY DEF Paths
<1>2. Len(path) \in Nat /\ DOMAIN path = 1 .. Len(path)
  BY <1>1, LenOf
<1>3. CASE path # <<>> /\ path[1] = "/"
  <2>1. /\ Tail(path) \in Seq(AllNames \cup {"/"}) /\ Len(Tail(path)) = Len(path) - 1
        /\ \A i \in 1 .. Len(Tail(path)) : Tail(path)[i] = path[i + 1]
    BY <1>1, <1>3, HeadTail
  <2>2. \A i \in 1 .. Len(Tail(path)) : i + 1 \in DOMAIN path /\ i + 1 # 1
    BY SMTT(30), <1>2, <2>1
  <2>3. \A i \in 1 .. Len(Tail(path)) : Tail(path)[i] # "/"
    BY <1>1, <2>1, <2>2
  <2>4. Tail(path) \in Seq(AllNames)
    BY <2>1, <2>3, <1>NoSlash
  <2> QED
    BY <1>3, <2>4 DEF Elems
<1>4. CASE ~(path # <<>> /\ path[1] = "/")
  <2>1. CASE path = <<>>
    BY <1>4, <2>1, NoSeq DEF Elems
  <2>2. CASE path # <<>>
    <3>1. \A k \in 1 .. Len(path) : path[k] # "/"
      BY <1>1, <1>2, <1>4, <2>2
    <3> QED
      BY <1>1, <1>4, <3>1, <1>NoSlash DEF Elems
  <2> QED
    BY <2>1, <2>2
<1> QED
  BY <1>3, <1>4

\* namex() starts at a directory.
LEMMA BaseOf ==
  ASSUME IInv, NEW p \in Procs, NEW path
  PROVE  Base(p, path) \in Inums /\ Base(p, path) # 0 /\ IsDir(Base(p, path)) /\ Alloc(Base(p, path))
<1>1. cwd[p] \in Inums /\ Fits(p, pr[p], cwd[p], lock)
  BY DEF IInv, TypeOK, ProcInv
<1>2. IsDir(cwd[p]) /\ ROOTINO \in Inums /\ IsDir(ROOTINO)
  BY <1>1, NamesAssumption DEF IInv, TreeInv, Rooted, IsDir, Fits
<1> QED
  BY <1>1, <1>2, ZeroFree DEF Base, IsDir, Alloc

\* namex() begins: the frame t, walking from inode b for label l.
LEMMA WalkFrame ==
  ASSUME NEW t \in Frames, NEW b \in Inums, NEW path \in Paths, NEW par \in BOOLEAN, NEW l \in Labels,
         NEW s, s = Walk(t, b, path, par, l)
  PROVE  /\ s \in Frames /\ s.call = t.call /\ s.st = "walk" /\ s.x = b /\ s.y = t.y /\ s.sym = t.sym
         /\ s.puts = t.puts /\ s.par = par /\ s.cont = l /\ s.path2 = t.path2
<1>1. "walk" \in Labels /\ b \in Inums0 /\ Elems(path) \in Seq(AllNames)
  BY ElemsOf DEF Labels, Inums0
<1>2. s \in Frames
  BY <1>1 DEF Walk, Frames
<1> QED
  BY <1>2 DEF Walk, Frames

\* What the path named, with its symbolic links followed.
LEMMA NamedSteps ==
  ASSUME IInv, stale \subseteq Paths, NEW p \in Procs, UNCHANGED <<committed, calls>>,
         Named(p) \/ Follow(p)
  PROVE  IInv'
<1>NamedLink. ASSUME NEW r, r = pr[p], r.st = "named", r.x # 0, NEW t \in Paths,
                     mem' = Iget(mem, Base(p, t)),
                     pr' = [pr EXCEPT ![p] = [Walk(r, Base(p, t), t, FALSE, "follow") EXCEPT !.sym = r.x]],
                     stopped = "none", UNCHANGED <<dino, dir, lock, cwd, fd, leak, committed, stopped>>
              PROVE  IInv'
  <2> USE <1>NamedLink
  <2>1. PICK b : b = Base(p, t)
    OBVIOUS
  <2>2. PICK w : w = Walk(r, b, t, FALSE, "follow")
    OBVIOUS
  <2>3. PICK s : s = [w EXCEPT !.sym = r.x]
    OBVIOUS
  <2>4. /\ r \in Frames /\ InDirs(r) /\ InHand(r, fd[p]) /\ Label(r) = "named" /\ r.puts = <<>>
        /\ ShapeAt(r, "named") /\ r.x \in Inums /\ Alloc(r.x)
    BY Ready
  <2>5. b \in Inums /\ b # 0 /\ Alloc(b)
    BY <2>1, BaseOf
  <2>6. "follow" \in Labels /\ r.x \in Inums0 /\ FALSE \in BOOLEAN
    BY <2>4 DEF Labels, Inums0
  <2>7. /\ w \in Frames /\ w.call = r.call /\ w.st = "walk" /\ w.x = b /\ w.y = r.y /\ w.sym = r.sym
        /\ w.puts = <<>> /\ w.par = FALSE /\ w.cont = "follow"
    <3>1. PICK par \in BOOLEAN : par = FALSE
      BY <2>6
    <3>2. w = Walk(r, b, t, par, "follow")
      BY <2>2, <3>1
    <3>3. /\ w \in Frames /\ w.call = r.call /\ w.st = "walk" /\ w.x = b /\ w.y = r.y /\ w.sym = r.sym
          /\ w.puts = r.puts /\ w.par = par /\ w.cont = "follow"
      BY SMTT(30), <2>4, <2>5, <2>6, <3>2, WalkFrame
    <3> QED
      BY <2>4, <3>1, <3>3
  <2>8. s \in Frames
    BY <2>3, <2>6, <2>7 DEF Frames
  <2>9. /\ s.call = r.call /\ s.st = "walk" /\ s.x = b /\ s.y = r.y /\ s.sym = r.x
        /\ s.puts = <<>> /\ s.par = FALSE /\ s.cont = "follow"
    BY <2>3, <2>7 DEF Frames
  <2>10. /\ ShapeAt(s, s.st) /\ s.st \notin {"put", "drop"} \cup LockLabels
         /\ r.st \notin {"put", "drop"} \cup LockLabels
    BY <2>4, <2>5, <2>9 DEF ShapeAt, Parents, Lookups, LockLabels
  <2>11. Live(s.x) /\ Live(s.y) /\ Live(s.sym)
    BY <2>4, <2>5, <2>9 DEF InHand, Live
  <2>12. InDirs(s)
    BY <2>4, <2>9 DEF InDirs, HasParent, Label, Putting, ShapeAt, Lookups, Makers
  <2>13. \A i \in Inums : Owes(s, i) <=> Owes(r, i)
    BY <2>4, <2>9, ZeroFree DEF Owes, ShapeAt, Lookups
  <2>14. Even(r, s, 0, b, 0)
    <3>1. r.sym = 0
      BY <2>4 DEF ShapeAt
    <3> QED
      BY SMTT(30), <2>9, <3>1, ZeroFree DEF Even, Own3, One
  <2>15. Refs(b, 0)
    BY <2>1, <2>5, RefsKept
  <2> QED
    BY <2>1, <2>2, <2>3, <2>8, <2>9, <2>10, <2>11, <2>12, <2>13, <2>14, <2>15, ToLabel
<1>Named. CASE Named(p)
  <2> USE <1>Named
  <2>1. PICK r : r = pr[p]
    OBVIOUS
  <2>2. UNCHANGED <<dino, dir, leak, lock, cwd, fd, committed, stopped>>
    BY DEF Named, tree
  <2>3. /\ stopped = "none" /\ r.st = "named"
        /\ \/ /\ r.x # 0
              /\ \E t \in Texts(r.x) :
                    /\ mem' = Iget(mem, Base(p, t))
                    /\ Go(p, [Walk(r, Base(p, t), t, FALSE, "follow") EXCEPT !.sym = r.x])
           \/ Go(p, [r EXCEPT !.st = r.call]) /\ UNCHANGED mem
    BY <2>1 DEF Named, At
  <2>4. /\ r \in Frames /\ ShapeAt(r, "named") /\ InDirs(r) /\ Label(r) = "named" /\ (r.x # 0 => r.x \in Inums)
    BY <2>1, <2>3, Ready
  <2>5. ASSUME r.x # 0, NEW t \in Texts(r.x), mem' = Iget(mem, Base(p, t)),
               Go(p, [Walk(r, Base(p, t), t, FALSE, "follow") EXCEPT !.sym = r.x])
        PROVE  IInv'
    <3>1. t \in Paths
      <4>1. dino[r.x].target \in Paths
        BY <2>4, <2>5 DEF IInv, TypeOK, Trees, Inode
      <4> QED
        BY <2>5, <4>1 DEF Texts
    <3>2. pr' = [pr EXCEPT ![p] = [Walk(r, Base(p, t), t, FALSE, "follow") EXCEPT !.sym = r.x]]
      BY <2>5 DEF Go
    <3> QED
      BY <2>1, <2>2, <2>3, <2>5, <3>1, <3>2, <1>NamedLink
  <2>6. CASE Go(p, [r EXCEPT !.st = r.call]) /\ UNCHANGED mem
    <3>1. r.call \in Lookups /\ r.call \in Labels
      BY <2>4 DEF ShapeAt, Labels
    <3>2. ShapeAt(r, r.call) /\ {r.st, r.call} \cap ({"put", "drop"} \cup LockLabels) = {}
      BY <2>3, <2>4, <3>1 DEF ShapeAt, Lookups, Parents, LockLabels
    <3>3. InDirs([r EXCEPT !.st = r.call])
      <4>1. PICK s : s = [r EXCEPT !.st = r.call]
        OBVIOUS
      <4>2. s.call = r.call /\ s.st = r.call /\ s.x = r.x /\ s.y = r.y
        BY <2>4, <4>1 DEF Frames
      <4> QED
        BY <2>4, <3>1, <4>1, <4>2 DEF InDirs, HasParent, Label, Putting, Makers, ShapeAt, Lookups
    <3>4. pr' = [pr EXCEPT ![p] = [r EXCEPT !.st = r.call]] /\ mem' = mem
      BY <2>6 DEF Go
    <3>5. Refs(0, 0)
      BY <2>2, <3>4, RefsKept
    <3> QED
      BY <2>1, <2>2, <2>3, <3>1, <3>2, <3>3, <3>4, <3>5, Advance
  <2> QED
    BY <2>3, <2>5, <2>6
<1>Follow. CASE Follow(p)
  <2> USE <1>Follow
  <2>1. PICK r : r = pr[p]
    OBVIOUS
  <2>2. PICK deep \in BOOLEAN : deep = (r.x # 0 /\ r.depth >= DEPTH)
    OBVIOUS
  <2>3. PICK x, l : x = (IF deep THEN 0 ELSE r.x) /\ l = (IF r.x = 0 \/ deep THEN r.call ELSE "named")
    OBVIOUS
  <2>4. PICK s : s = Puts([r EXCEPT !.sym = 0, !.depth = @ + 1, !.x = x], <<r.sym>>, l)
    OBVIOUS
  <2>5. /\ stopped = "none" /\ r.st = "follow" /\ pr' = [pr EXCEPT ![p] = s]
        /\ leak' = IF deep THEN [leak EXCEPT ![r.x] = @ + 1] ELSE leak
        /\ UNCHANGED <<dino, dir, mem, lock, cwd, fd, committed, stopped>>
    BY <2>1, <2>2, <2>3, <2>4 DEF Follow, At, Go, tree
  <2>6. /\ r \in Frames /\ InDirs(r) /\ InHand(r, fd[p]) /\ Label(r) = "follow" /\ r.x \in Inums0
        /\ ShapeAt(r, "follow") /\ (r.x # 0 => r.x \in Inums) /\ mem \in Mem /\ leak \in [Inums -> Nat]
        /\ (r.sym # 0 => r.sym \in Inums /\ Alloc(r.sym))
    BY <2>1, <2>5, Ready
  <2>7. /\ r.sym \in Inums /\ Alloc(r.sym) /\ r.call \in Lookups /\ (r.y # 0 <=> r.call = "symlink")
        /\ (deep => r.x \in Inums) /\ x \in Inums0
    BY <2>2, <2>3, <2>6 DEF ShapeAt, Inums0
  <2>8. l \in Labels /\ l \in Lookups \cup {"named"}
    BY <2>3, <2>7 DEF Labels
  <2>9. s \in Frames
    <3>1. "put" \in Labels /\ 0 \in Inums0 /\ <<r.sym>> \in Seq(Inums)
      BY SMTT(30), <2>7 DEF Labels, Inums0
    <3>2. r.depth + 1 \in Nat
      BY SMTT(30), <2>6 DEF Frames
    <3> QED
      BY <2>4, <2>6, <2>7, <2>8, <3>1, <3>2 DEF Puts, Frames
  <2>10. /\ s.call = r.call /\ s.st = "put" /\ s.then = l /\ s.x = x /\ s.y = r.y
         /\ s.sym = 0 /\ s.puts = <<r.sym>>
    BY <2>4, <2>6 DEF Puts, Frames
  <2>11. /\ ShapeAt(s, s.then) /\ s.then \notin LockLabels
         /\ r.st \notin {"put", "drop"} \cup LockLabels
    BY <2>3, <2>5, <2>7, <2>8, <2>10 DEF ShapeAt, Parents, Lookups, LockLabels
  <2>12. Live(s.x) /\ Live(s.y) /\ Live(s.sym)
    BY <2>3, <2>6, <2>10 DEF InHand, Live
  <2>13. InDirs(s)
    <3>1. Label(s) = l /\ s.call \in Lookups /\ ~(l = "symlink" /\ s.y = 0)
      BY <2>3, <2>7, <2>10 DEF Label, Putting
    <3>2. ~HasParent(s)
      BY <2>8, <3>1 DEF HasParent, Makers, Lookups
    <3> QED
      BY <2>6, <2>10, <3>2 DEF InDirs
  <2>14. \A i \in Inums : Owes(s, i) <=> Owes(r, i)
    BY <2>7, <2>10, ZeroFree DEF Owes, Lookups
  <2>15. PICK k : k = IF deep THEN r.x ELSE 0
    OBVIOUS
  <2>16. Even(r, s, r.sym, 0, k)
    BY SMTT(30), <2>3, <2>10, <2>15, ZeroFree DEF Even, Own3, One
  <2>17. Refs(0, k)
    <3>1. \A i \in Inums : mem[i].ref = mem[i].ref + One(0, i)
      BY SMTT(30), <2>6, ZeroFree DEF One, Mem
    <3>2. leak' \in [Inums -> Nat] /\ \A i \in Inums : leak'[i] = leak[i] + One(k, i)
      BY SMTT(30), <2>5, <2>6, <2>7, <2>15, ZeroFree DEF One
    <3> QED
      BY <2>5, <2>6, <3>1, <3>2 DEF Refs
  <2> QED
    BY <2>1, <2>5, <2>7, <2>9, <2>10, <2>11, <2>12, <2>13, <2>14, <2>16, <2>17, ToPut
<1> QED
  BY <1>Named, <1>Follow

\* A process in no call.
LEMMA IdleFrame == Idle \in Frames
<1>1. /\ "none" \in Calls /\ "idle" \in Labels /\ "end" \in Labels /\ 0 \in Inums0 /\ "." \in AllNames
      /\ <<>> \in Seq(AllNames) /\ <<>> \in Seq(Inums) /\ FALSE \in BOOLEAN /\ 0 \in Nat
  BY SMTT(30) DEF Calls, Labels, Inums0, AllNames
<1>2. <<>> \in Paths
  BY SMTT(30), NoSeq DEF Paths
<1> QED
  BY <1>1, <1>2 DEF Idle, Frames

\* A call begins.
LEMMA BeginStep ==
  ASSUME IInv, NEW p \in Procs, NEW o \in Ops, Begin(p, o[1], o[2], o[3]), UNCHANGED committed
  PROVE  IInv'
<1>1. PICK c, a, b : c = o[1] /\ a = o[2] /\ b = o[3]
  OBVIOUS
<1>2. /\ c \in {"open", "creat", "mkdir", "mknod", "chdir", "unlink", "link", "symlink"}
      /\ a \in Paths /\ b \in Paths
  BY <1>1, NamesAssumption
<1>3. PICK r : r = pr[p]
  OBVIOUS
<1>4. PICK t : t = [Idle EXCEPT !.call = c, !.path2 = b]
  OBVIOUS
<1>5. PICK l : l = IF c \in Parents THEN c ELSE "named"
  OBVIOUS
<1>6. PICK par \in BOOLEAN : par = (c \in Parents)
  <2>1. (c \in Parents) \in BOOLEAN
    BY SMTT(30)
  <2> QED
    BY <2>1
<1>7. PICK x : x = Base(p, a)
  OBVIOUS
<1>8. PICK s : s = Walk(t, x, a, par, l)
  OBVIOUS
<1>9. /\ stopped = "none" /\ r.st = "idle" /\ pr' = [pr EXCEPT ![p] = s] /\ mem' = Iget(mem, x)
      /\ UNCHANGED <<dino, dir, lock, cwd, fd, leak, committed, stopped>>
  BY <1>1, <1>3, <1>4, <1>5, <1>6, <1>7, <1>8 DEF Begin, At, Go, tree
<1>10. /\ r \in Frames /\ ShapeAt(r, "idle") /\ r.x = 0 /\ r.y = 0 /\ r.sym = 0
  BY <1>3, <1>9, Ready DEF ShapeAt
<1>11. x \in Inums /\ x # 0 /\ Alloc(x)
  BY <1>7, BaseOf
<1>12. c \in Calls /\ l \in Labels
  BY <1>2, <1>5 DEF Calls, Labels, Lookups, Parents
<1>13. /\ t \in Frames /\ t.call = c /\ t.y = 0 /\ t.sym = 0 /\ t.puts = <<>>
  <2>1. t \in Frames
    BY <1>2, <1>4, <1>12, IdleFrame DEF Frames
  <2> QED
    BY <1>4, <2>1 DEF Idle
<1>14. /\ s \in Frames /\ s.call = c /\ s.st = "walk" /\ s.x = x /\ s.y = 0 /\ s.sym = 0
       /\ s.puts = <<>> /\ s.par = par /\ s.cont = l
  BY SMTT(30), <1>2, <1>8, <1>11, <1>12, <1>13, WalkFrame
<1>15. /\ ShapeAt(s, s.st) /\ s.st \notin {"put", "drop"} \cup LockLabels
       /\ r.st \notin {"put", "drop"} \cup LockLabels
  BY <1>2, <1>5, <1>6, <1>9, <1>11, <1>14 DEF ShapeAt, Parents, Lookups, LockLabels
<1>16. Live(s.x) /\ Live(s.y) /\ Live(s.sym)
  BY <1>11, <1>14 DEF Live
<1>17. InDirs(s)
  BY <1>2, <1>14 DEF InDirs, HasParent, Label, Putting, Makers
<1>18. \A i \in Inums : Owes(s, i) <=> Owes(r, i)
  BY <1>10, <1>14, ZeroFree DEF Owes
<1>19. Even(r, s, 0, x, 0)
  BY SMTT(30), <1>10, <1>14, ZeroFree DEF Even, Own3, One
<1>20. Refs(x, 0)
  BY <1>9, <1>11, RefsKept
<1> QED
  BY <1>3, <1>9, <1>14, <1>15, <1>16, <1>17, <1>18, <1>19, <1>20, ToLabel

\* A call whose path names nothing ends.
LEMMA FailedStep ==
  ASSUME IInv, NEW p \in Procs, Failed(p), UNCHANGED <<committed, calls>>
  PROVE  IInv'
<1>1. PICK r : r = pr[p]
  OBVIOUS
<1>2. /\ stopped = "none" /\ r.st \in {"open", "link", "chdir"} \cup Parents /\ r.x = 0 /\ r.y = 0
      /\ pr' = [pr EXCEPT ![p] = [r EXCEPT !.st = "end"]]
      /\ UNCHANGED <<dino, dir, mem, lock, cwd, fd, leak, committed, stopped>>
  BY <1>1 DEF Failed, At, Go, tree
<1>3. {r.st, "end"} \cap ({"put", "drop"} \cup LockLabels) = {} /\ "end" \in Labels /\ r.st \notin {"put", "drop"}
  BY <1>2 DEF LockLabels, Parents, Labels
<1>4. r \in Frames /\ ShapeAt(r, r.st)
  BY <1>1, <1>3, Ready
<1>5. ShapeAt(r, "end")
  BY <1>2, <1>4 DEF ShapeAt, Parents, Lookups
<1>6. InDirs([r EXCEPT !.st = "end"])
  BY <1>2, <1>4 DEF InDirs, Frames
<1>7. Refs(0, 0)
  BY <1>2, RefsKept
<1> QED
  BY <1>1, <1>2, <1>3, <1>5, <1>6, <1>7, Advance

-----------------------------------------------------------------------------
(* The end of a call that has locked its inode                             *)

\* iunlock() of inode i, the only one that p has locked.
Unlocks(p, i) == /\ lock[i] \in {Nobody, p} /\ \A j \in Inums : lock[j] = p => j = i
                 /\ lock' = [lock EXCEPT ![i] = Nobody]

\* iunlock() by the process that holds the lock or found it free.
LEMMA Released ==
  ASSUME IInv, NEW p \in Procs, NEW i \in Inums, Unlocks(p, i)
  PROVE  /\ lock' \in [Inums -> Procs \cup {Nobody}]
         /\ \A j \in Inums, q \in Procs \ {p} : lock'[j] = q <=> lock[j] = q
         /\ \A j \in Inums : lock'[j] # p
<1>1. lock \in [Inums -> Procs \cup {Nobody}] /\ Nobody \notin Procs
  BY NamesAssumption DEF IInv, TypeOK
<1> QED
  BY <1>1 DEF Unlocks

\* Its only inode is i.
Holding(p, r, i) ==
    /\ r.st \in {"open", "found", "made", "unlinkbad"} /\ r.sym = 0
    /\ (r.x = i /\ r.y = 0) \/ (r.x = 0 /\ r.y = i)
    /\ lock[i] \in {Nobody, p}

-----------------------------------------------------------------------------
(* The other steps that leave the tree as it is                            *)

\* References got with dirlookup() or ialloc(), and those that are forgotten.
Gets(m, i) == m \in Mem /\ \A j \in Inums : m[j].ref = mem[j].ref + One(i, j)

\* iget() of a name just read, with or without ilock() of it.
LEMMA MemRefs ==
  ASSUME mem \in Mem, NEW x \in Inums, NEW i \in Inums, NEW m,
         m = Iget(Load(mem, x), i) \/ m = Load(Iget(Load(mem, x), i), i)
  PROVE  Gets(m, i)
<1>1. Load(mem, x) \in Mem /\ \A j \in Inums : Load(mem, x)[j].ref = mem[j].ref
  BY LoadRef
<1>2. PICK m1 : m1 = Iget(Load(mem, x), i)
  OBVIOUS
<1>3. m1 \in Mem /\ \A j \in Inums : m1[j].ref = Load(mem, x)[j].ref + One(i, j)
  BY <1>1, <1>2, IgetRef
<1>4. Load(m1, i) \in Mem /\ \A j \in Inums : Load(m1, i)[j].ref = m1[j].ref
  BY <1>3, LoadRef
<1> QED
  BY <1>1, <1>2, <1>3, <1>4 DEF Gets

\* A reference that is forgotten, with or without having been taken in the same step.
LEMMA RefsLeak ==
  ASSUME IInv, NEW i \in Inums, leak' = [leak EXCEPT ![i] = @ + 1]
  PROVE  /\ mem' = mem => Refs(0, i)
         /\ \A x \in Inums : mem' = Iget(Load(mem, x), i) \/ mem' = Load(Iget(Load(mem, x), i), i)
                               => Refs(i, i)
<1>1. mem \in Mem /\ leak \in [Inums -> Nat]
  BY DEF IInv, TypeOK
<1>2. \A j \in Inums : mem[j].ref = mem[j].ref + One(0, j)
  BY SMTT(30), <1>1, ZeroFree DEF One, Mem
<1>3. leak' \in [Inums -> Nat] /\ \A j \in Inums : leak'[j] = leak[j] + One(i, j)
  BY SMTT(30), <1>1 DEF One
<1>4. mem' = mem => Refs(0, i)
  BY <1>1, <1>2, <1>3 DEF Refs
<1>5. ASSUME NEW x \in Inums, mem' = Iget(Load(mem, x), i) \/ mem' = Load(Iget(Load(mem, x), i), i)
      PROVE  Refs(i, i)
  <2>1. mem' \in Mem /\ \A j \in Inums : mem'[j].ref = mem[j].ref + One(i, j)
    <3>1. PICK m : m = mem'
      OBVIOUS
    <3>2. m = Iget(Load(mem, x), i) \/ m = Load(Iget(Load(mem, x), i), i)
      BY <1>5, <3>1
    <3>3. Gets(m, i)
      BY <1>1, <3>2, MemRefs
    <3> QED
      BY <3>1, <3>3 DEF Gets
  <2> QED
    BY <1>3, <2>1 DEF Refs
<1> QED
  BY <1>4, <1>5

\* create() finds the name.
LEMMA CreateFoundStep ==
  ASSUME IInv, NEW p \in Procs, CreateFound(p), UNCHANGED <<committed, calls>>
  PROVE  IInv'
<1>1. PICK r : r = pr[p]
  OBVIOUS
<1>2. PICK i : i = dir[r.x][r.nm]
  OBVIOUS
<1>3. PICK s : s = Puts([r EXCEPT !.x = 0, !.y = i], <<r.x>>, "found")
  OBVIOUS
<1>4. /\ stopped = "none" /\ r.st \in Makers /\ r.x # 0 /\ i # 0 /\ mem' = Iget(Load(mem, r.x), i)
      /\ pr' = [pr EXCEPT ![p] = s] /\ UNCHANGED <<dino, dir, lock, cwd, fd, leak, committed, stopped>>
  BY <1>1, <1>2, <1>3 DEF CreateFound, Locks, At, Go, tree, Makers
<1>5. r.st \notin {"put", "drop"} \cup LockLabels
  BY <1>4 DEF LockLabels, Makers
<1>6. /\ r \in Frames /\ ShapeAt(r, r.st) /\ r.x \in Inums /\ Alloc(r.x) /\ InDirs(r) /\ Label(r) = r.st
      /\ r.nm \in AllNames
  BY <1>1, <1>4, <1>5, Ready
<1>7. IsDir(r.x)
  BY <1>4, <1>6 DEF InDirs, HasParent
<1>8. i \in Inums /\ Alloc(i)
  BY <1>2, <1>4, <1>6, <1>7, EntryIs
<1>9. r.y = 0 /\ r.sym = 0 /\ r.call = r.st
  BY <1>4, <1>6 DEF ShapeAt, Makers, Parents, Lookups
<1>10. s \in Frames
  <2>1. "put" \in Labels /\ "found" \in Labels /\ 0 \in Inums0 /\ i \in Inums0 /\ <<r.x>> \in Seq(Inums)
    BY SMTT(30), <1>6, <1>8 DEF Labels, Inums0
  <2> QED
    BY <1>3, <1>6, <2>1 DEF Puts, Frames
<1>11. /\ s.call = r.call /\ s.st = "put" /\ s.then = "found" /\ s.x = 0 /\ s.y = i
       /\ s.sym = 0 /\ s.puts = <<r.x>>
  BY <1>3, <1>6, <1>9 DEF Puts, Frames
<1>12. ShapeAt(s, s.then) /\ s.then \notin LockLabels
  BY <1>4, <1>9, <1>11 DEF ShapeAt, Parents, Lookups, LockLabels, Makers
<1>13. InDirs(s) /\ Live(s.x) /\ Live(s.y) /\ Live(s.sym)
  BY <1>4, <1>8, <1>9, <1>11 DEF InDirs, Live, Makers
<1>14. \A j \in Inums : Owes(s, j) <=> Owes(r, j)
  BY <1>4, <1>9, <1>11 DEF Owes, Makers
<1>15. Even(r, s, r.x, i, 0)
  BY SMTT(30), <1>9, <1>11, ZeroFree DEF Even, Own3, One
<1>16. Refs(i, 0)
  BY <1>4, <1>6, <1>8, RefsKept
<1> QED
  BY <1>1, <1>4, <1>5, <1>6, <1>10, <1>11, <1>12, <1>13, <1>14, <1>15, <1>16, ToPut

\* sys_symlink(): the parent, no parent, the target.
LEMMA SymlinkStep ==
  ASSUME IInv, NEW p \in Procs, Symlink(p), UNCHANGED <<committed, calls>>
  PROVE  IInv'
<1>1. PICK r : r = pr[p]
  OBVIOUS
<1>2. PICK b : b = Base(p, r.path2)
  OBVIOUS
<1>3. PICK t : t = [r EXCEPT !.y = r.x]
  OBVIOUS
<1>4. PICK par \in BOOLEAN : par = FALSE
  OBVIOUS
<1>5. PICK s : s = Walk(t, b, r.path2, par, "named")
  OBVIOUS
<1>6. /\ stopped = "none" /\ r.st = "symlink" /\ r.x # 0 /\ r.y = 0 /\ mem' = Iget(mem, b)
      /\ pr' = [pr EXCEPT ![p] = s] /\ UNCHANGED <<dino, dir, lock, cwd, fd, leak, committed, stopped>>
  BY <1>1, <1>2, <1>3, <1>4, <1>5 DEF Symlink, At, Go, tree
<1>7. /\ r \in Frames /\ ShapeAt(r, "symlink") /\ r.x \in Inums /\ Alloc(r.x) /\ InDirs(r)
      /\ Label(r) = "symlink" /\ r.puts = <<>> /\ r.path2 \in Paths /\ r.x \in Inums0
  BY <1>1, <1>6, Ready
<1>8. IsDir(r.x)
  BY <1>6, <1>7 DEF InDirs, HasParent
<1>9. b \in Inums /\ b # 0 /\ Alloc(b) /\ "named" \in Labels
  BY <1>2, BaseOf DEF Labels
<1>10. r.sym = 0 /\ r.call = "symlink"
  BY <1>7 DEF ShapeAt, Parents, Lookups
<1>11. t \in Frames /\ t.call = r.call /\ t.y = r.x /\ t.sym = 0 /\ t.puts = <<>>
  <2>1. t \in Frames
    BY <1>3, <1>7 DEF Frames
  <2> QED
    BY <1>3, <1>7, <1>10, <2>1 DEF Frames
<1>12. /\ s \in Frames /\ s.call = t.call /\ s.st = "walk" /\ s.x = b /\ s.y = t.y /\ s.sym = t.sym
       /\ s.puts = t.puts /\ s.par = par /\ s.cont = "named"
  BY SMTT(30), <1>5, <1>7, <1>9, <1>11, WalkFrame
<1>13. s.call = "symlink" /\ s.y = r.x /\ s.sym = 0 /\ s.puts = <<>> /\ s.par = FALSE
  BY <1>4, <1>10, <1>11, <1>12
<1>14. /\ ShapeAt(s, s.st) /\ s.st \notin {"put", "drop"} \cup LockLabels
       /\ r.st \notin {"put", "drop"} \cup LockLabels
  BY <1>6, <1>9, <1>12, <1>13 DEF ShapeAt, Parents, Lookups, LockLabels
<1>15. Live(s.x) /\ Live(s.y) /\ Live(s.sym)
  BY <1>7, <1>9, <1>12, <1>13 DEF Live
<1>16. InDirs(s)
  BY <1>8, <1>12, <1>13 DEF InDirs, HasParent, Label, Putting, Makers
<1>17. \A i \in Inums : Owes(s, i) <=> Owes(r, i)
  BY <1>10, <1>13 DEF Owes
<1>18. Even(r, s, 0, b, 0)
  BY SMTT(30), <1>6, <1>10, <1>12, <1>13, ZeroFree DEF Even, Own3, One
<1>19. Refs(b, 0)
  BY <1>6, <1>9, RefsKept
<1> QED
  BY <1>1, <1>6, <1>12, <1>13, <1>14, <1>15, <1>16, <1>17, <1>18, <1>19, ToLabel

LEMMA SymlinkNoneStep ==
  ASSUME IInv, NEW p \in Procs, SymlinkNone(p), UNCHANGED <<committed, calls>>
  PROVE  IInv'
<1>1. PICK r : r = pr[p]
  OBVIOUS
<1>2. PICK s : s = [r EXCEPT !.y = 0, !.st = "end"]
  OBVIOUS
<1>3. /\ stopped = "none" /\ r.st = "symlink" /\ r.x = 0 /\ r.y # 0 /\ pr' = [pr EXCEPT ![p] = s]
      /\ leak' = [leak EXCEPT ![r.y] = @ + 1]
      /\ UNCHANGED <<dino, dir, mem, lock, cwd, fd, committed, stopped>>
  BY <1>1, <1>2 DEF SymlinkNone, At, Go, tree
<1>4. /\ r \in Frames /\ ShapeAt(r, "symlink") /\ r.y \in Inums /\ r.puts = <<>>
  BY <1>1, <1>3, Ready
<1>5. r.sym = 0 /\ r.call = "symlink"
  BY <1>4 DEF ShapeAt, Parents, Lookups
<1>6. s \in Frames
  <2>1. "end" \in Labels /\ 0 \in Inums0
    BY DEF Labels, Inums0
  <2> QED
    BY <1>2, <1>4, <2>1 DEF Frames
<1>7. s.call = "symlink" /\ s.st = "end" /\ s.x = 0 /\ s.y = 0 /\ s.sym = 0 /\ s.puts = <<>>
  BY <1>2, <1>3, <1>4, <1>5 DEF Frames
<1>8. /\ ShapeAt(s, s.st) /\ s.st \notin {"put", "drop"} \cup LockLabels
      /\ r.st \notin {"put", "drop"} \cup LockLabels
  BY <1>3, <1>7 DEF ShapeAt, Parents, Lookups, LockLabels
<1>9. InDirs(s) /\ Live(s.x) /\ Live(s.y) /\ Live(s.sym)
  BY <1>7 DEF InDirs, Live
<1>10. \A i \in Inums : Owes(s, i) <=> Owes(r, i)
  BY <1>5, <1>7 DEF Owes
<1>11. Even(r, s, 0, 0, r.y)
  BY SMTT(30), <1>3, <1>5, <1>7, ZeroFree DEF Even, Own3, One
<1>12. Refs(0, r.y)
  BY <1>3, <1>4, RefsLeak
<1> QED
  BY <1>1, <1>3, <1>6, <1>7, <1>8, <1>9, <1>10, <1>11, <1>12, ToLabel

LEMMA SymlinkTargetStep ==
  ASSUME IInv, NEW p \in Procs, SymlinkTarget(p), UNCHANGED <<committed, calls>>
  PROVE  IInv'
<1>1. PICK r : r = pr[p]
  OBVIOUS
<1>2. PICK s : s = Puts([r EXCEPT !.x = 0], <<r.x>>, "symlink2")
  OBVIOUS
<1>3. /\ stopped = "none" /\ r.st = "symlink" /\ r.x # 0 /\ r.y # 0 /\ pr' = [pr EXCEPT ![p] = s]
      /\ UNCHANGED <<dino, dir, mem, lock, cwd, fd, leak, committed, stopped>>
  BY <1>1, <1>2 DEF SymlinkTarget, At, Go, tree
<1>4. /\ r \in Frames /\ ShapeAt(r, "symlink") /\ r.x \in Inums /\ Alloc(r.x) /\ InDirs(r)
      /\ r.y \in Inums /\ Alloc(r.y)
  BY <1>1, <1>3, Ready
<1>5. r.sym = 0 /\ r.call = "symlink"
  BY <1>4 DEF ShapeAt, Parents, Lookups
<1>6. s \in Frames
  <2>1. "put" \in Labels /\ "symlink2" \in Labels /\ 0 \in Inums0 /\ <<r.x>> \in Seq(Inums)
    BY SMTT(30), <1>4 DEF Labels, Inums0
  <2> QED
    BY <1>2, <1>4, <2>1 DEF Puts, Frames
<1>7. /\ s.call = "symlink" /\ s.st = "put" /\ s.then = "symlink2" /\ s.x = 0 /\ s.y = r.y
      /\ s.sym = 0 /\ s.puts = <<r.x>>
  BY <1>2, <1>4, <1>5 DEF Puts, Frames
<1>8. /\ ShapeAt(s, s.then) /\ s.then \notin LockLabels /\ r.st \notin {"put", "drop"} \cup LockLabels
  BY <1>3, <1>7 DEF ShapeAt, Parents, Lookups, LockLabels
<1>9. InDirs(s) /\ Live(s.x) /\ Live(s.y) /\ Live(s.sym)
  BY <1>4, <1>5, <1>7 DEF InDirs, Live
<1>10. \A i \in Inums : Owes(s, i) <=> Owes(r, i)
  BY <1>5, <1>7 DEF Owes
<1>11. Even(r, s, r.x, 0, 0)
  BY SMTT(30), <1>5, <1>7, ZeroFree DEF Even, Own3, One
<1>12. Refs(0, 0)
  BY <1>3, RefsKept
<1> QED
  BY <1>1, <1>3, <1>4, <1>6, <1>7, <1>8, <1>9, <1>10, <1>11, <1>12, ToPut

\* Opening what is there or was made, and the calls that end with an unlock.
LEMMA OpenSteps ==
  ASSUME IInv, NEW p \in Procs, UNCHANGED <<committed, calls>>,
         Open(p) \/ Found(p) \/ Made(p) \/ UnlinkBad(p) \/ Chdir(p)
  PROVE  IInv'
\* A step with the same references, whatever the pointers moved.
<1>SameRefs. ASSUME mem \in Mem, leak \in [Inums -> Nat], Refs(0, 0)
             PROVE  \A j \in Inums : mem'[j].ref = mem[j].ref /\ leak'[j] = leak[j]
  BY SMTT(30), <1>SameRefs, ZeroFree DEF Refs, One, Mem
<1>HoldingIs. ASSUME NEW r, r = pr[p], NEW i \in Inums, Holding(p, r, i)
              PROVE  /\ \A j \in Inums : (lock[j] = p => j = i) /\ ~Owes(r, j)
                     /\ r.puts = <<>> /\ InHand(r, fd[p]) /\ Alloc(i) /\ IsDir(cwd[p])
                     /\ mem \in Mem /\ leak \in [Inums -> Nat]
                     /\ cwd \in [Procs -> Inums] /\ fd \in [Procs -> Inums0]
  <2> USE <1>HoldingIs
  <2>1. /\ Fits(p, r, cwd[p], lock) /\ InHand(r, fd[p]) /\ r.puts = <<>> /\ ShapeAt(r, r.st)
        /\ mem \in Mem /\ leak \in [Inums -> Nat]
    BY Facts, Ready DEF Holding
  <2>2. cwd \in [Procs -> Inums] /\ fd \in [Procs -> Inums0]
    BY DEF IInv, TypeOK
  <2>3. \A j \in Inums : lock[j] = p => j = i
    BY SMTT(30), <2>1, ZeroFree DEF Fits, Holding
  <2>4. \A j \in Inums : ~Owes(r, j)
    BY <2>1, ZeroFree DEF Owes, ShapeAt, Holding, Makers, Lookups
  <2>5. Alloc(i) /\ IsDir(cwd[p])
    BY <2>1, ZeroFree DEF InHand, Live, Holding, Fits
  <2> QED
    BY <2>1, <2>2, <2>3, <2>4, <2>5
<1>EndPut. ASSUME NEW r, r = pr[p], NEW i \in Inums, Holding(p, r, i), Refs(0, 0),
                  NEW t \in Frames, t.x = 0, t.y = 0, t.sym = 0,
                  pr' = [pr EXCEPT ![p] = Puts(t, <<i>>, "end")], lock' = [lock EXCEPT ![i] = Nobody],
                  stopped = "none", UNCHANGED <<dino, dir, cwd, fd, committed, stopped>>
           PROVE  IInv'
  <2> USE <1>EndPut
  <2>1. PICK s : s = Puts(t, <<i>>, "end")
    OBVIOUS
  <2>2. /\ \A j \in Inums : (lock[j] = p => j = i) /\ ~Owes(r, j)
        /\ r.puts = <<>> /\ InHand(r, fd[p]) /\ Alloc(i) /\ IsDir(cwd[p])
        /\ mem \in Mem /\ leak \in [Inums -> Nat] /\ cwd \in [Procs -> Inums] /\ fd \in [Procs -> Inums0]
    BY <1>HoldingIs
  <2>3. /\ lock' \in [Inums -> Procs \cup {Nobody}]
        /\ \A j \in Inums, q \in Procs \ {p} : lock'[j] = q <=> lock[j] = q
        /\ \A j \in Inums : lock'[j] # p
    <3>1. Unlocks(p, i)
      BY <2>2 DEF Holding, Unlocks
    <3> QED
      BY <3>1, Released
  <2>4. s \in Frames
    <3>1. "put" \in Labels /\ "end" \in Labels /\ <<i>> \in Seq(Inums)
      BY SMTT(30) DEF Labels
    <3> QED
      BY <2>1, <3>1 DEF Puts, Frames
  <2>5. s.st = "put" /\ s.then = "end" /\ s.x = 0 /\ s.y = 0 /\ s.sym = 0 /\ s.puts = <<i>>
    BY <2>1 DEF Puts, Frames
  <2>6. Putting(s) /\ Label(s) = "end"
    BY <2>5 DEF Putting, Label
  <2>7. Shape(s)
    BY SMTT(30), <2>5, <2>6 DEF Shape, ShapeAt, Parents, Lookups
  <2>8. Put(s, 1) = i /\ Put(s, 2) = 0 /\ Put(r, 1) = 0 /\ Put(r, 2) = 0
    BY <2>2, <2>5, PutOfOne, PutOfNone
  <2>9. Fits(p, s, cwd'[p], lock')
    <3>1. cwd'[p] = cwd[p] /\ ~LocksX(s) /\ ~LocksY(s) /\ Label(s) # "unlink2"
      BY <2>6 DEF LocksX, LocksY
    <3> QED
      BY <2>2, <2>3, <2>5, <3>1 DEF Fits
  <2>10. InHand(s, fd'[p])
    BY <2>2, <2>5, <2>8 DEF InHand, Live
  <2>11. \A j \in Inums : Owes(s, j) <=> Owes(pr[p], j)
    BY <2>2, <2>5, ZeroFree DEF Owes
  <2>12. \A j \in Inums : Mine(cwd[p], fd[p], s, j) = Mine(cwd[p], fd[p], r, j)
    BY SMTT(30), <2>5, <2>8, ZeroFree DEF Mine, One, Holding
  <2>13. Tally(cwd[p], fd[p], pr[p], cwd'[p], fd'[p], s)
    <3> SUFFICES ASSUME NEW j \in Inums
        PROVE  mem'[j].ref - leak'[j] - Mine(cwd'[p], fd'[p], s, j)
                 = mem[j].ref - leak[j] - Mine(cwd[p], fd[p], pr[p], j)
      BY DEF Tally
    <3>2. mem'[j].ref = mem[j].ref /\ leak'[j] = leak[j]
      BY <2>2, <1>SameRefs
    <3> QED
      BY <3>2, <2>12
  <2>14. mem' \in Mem /\ leak' \in [Inums -> Nat]
    BY DEF Refs
  <2>15. /\ cwd' \in [Procs -> Inums] /\ fd' \in [Procs -> Inums0]
         /\ \A q \in Procs \ {p} : cwd'[q] = cwd[q] /\ fd'[q] = fd[q]
    BY <2>2
  <2> QED
    BY <2>1, <2>3, <2>4, <2>7, <2>9, <2>10, <2>11, <2>13, <2>14, <2>15, QuietWith
<1>EndOpen. ASSUME NEW r, r = pr[p], NEW i \in Inums, Holding(p, r, i), Refs(0, 0),
                   NEW t \in Frames, t.x = 0, t.y = 0, t.sym = 0, t.puts = <<>>,
                   pr' = [pr EXCEPT ![p] = [t EXCEPT !.st = "end"]], lock' = [lock EXCEPT ![i] = Nobody],
                   fd[p] = 0, fd' = [fd EXCEPT ![p] = i],
                   stopped = "none", UNCHANGED <<dino, dir, cwd, committed, stopped>>
            PROVE  IInv'
  <2> USE <1>EndOpen
  <2>1. PICK s : s = [t EXCEPT !.st = "end"]
    OBVIOUS
  <2>2. /\ \A j \in Inums : (lock[j] = p => j = i) /\ ~Owes(r, j)
        /\ r.puts = <<>> /\ InHand(r, fd[p]) /\ Alloc(i) /\ IsDir(cwd[p])
        /\ mem \in Mem /\ leak \in [Inums -> Nat] /\ cwd \in [Procs -> Inums] /\ fd \in [Procs -> Inums0]
    BY <1>HoldingIs
  <2>3. /\ lock' \in [Inums -> Procs \cup {Nobody}]
        /\ \A j \in Inums, q \in Procs \ {p} : lock'[j] = q <=> lock[j] = q
        /\ \A j \in Inums : lock'[j] # p
    <3>1. Unlocks(p, i)
      BY <2>2 DEF Holding, Unlocks
    <3> QED
      BY <3>1, Released
  <2>4. s \in Frames
    <3>1. "end" \in Labels
      BY DEF Labels
    <3> QED
      BY <2>1, <3>1 DEF Frames
  <2>5. s.st = "end" /\ s.x = 0 /\ s.y = 0 /\ s.sym = 0 /\ s.puts = <<>>
    BY <2>1 DEF Frames
  <2>6. ~Putting(s) /\ Label(s) = "end" /\ Len(<<>>) <= 2
    BY SMTT(30), <2>5, NoSeq DEF Putting, Label
  <2>7. Shape(s)
    <3>1. ShapeAt(s, "end")
      BY <2>5 DEF ShapeAt, Parents, Lookups
    <3> QED
      BY <2>5, <2>6, <3>1 DEF Shape
  <2>8. Put(s, 1) = 0 /\ Put(s, 2) = 0 /\ Put(r, 1) = 0 /\ Put(r, 2) = 0
    BY <2>2, <2>5, PutOfNone
  <2>9. Fits(p, s, cwd'[p], lock')
    <3>1. cwd'[p] = cwd[p] /\ ~LocksX(s) /\ ~LocksY(s) /\ Label(s) # "unlink2"
      BY <2>6 DEF LocksX, LocksY
    <3> QED
      BY <2>2, <2>3, <2>5, <3>1 DEF Fits
  <2>10. /\ fd' \in [Procs -> Inums0] /\ fd'[p] = i /\ \A q \in Procs \ {p} : fd'[q] = fd[q]
    BY <2>2 DEF Inums0
  <2>11. InHand(s, fd'[p])
    BY <2>2, <2>5, <2>8, <2>10 DEF InHand, Live
  <2>12. \A j \in Inums : Owes(s, j) <=> Owes(pr[p], j)
    BY <2>2, <2>5, ZeroFree DEF Owes
  <2>13. \A j \in Inums : Mine(cwd[p], i, s, j) = Mine(cwd[p], 0, r, j)
    BY SMTT(30), <2>5, <2>8, ZeroFree DEF Mine, One, Holding
  <2>14. Tally(cwd[p], fd[p], pr[p], cwd'[p], fd'[p], s)
    <3> SUFFICES ASSUME NEW j \in Inums
        PROVE  mem'[j].ref - leak'[j] - Mine(cwd'[p], fd'[p], s, j)
                 = mem[j].ref - leak[j] - Mine(cwd[p], fd[p], pr[p], j)
      BY DEF Tally
    <3>2. mem'[j].ref = mem[j].ref /\ leak'[j] = leak[j]
      BY <2>2, <1>SameRefs
    <3> QED
      BY <3>2, <2>10, <2>13
  <2>15. mem' \in Mem /\ leak' \in [Inums -> Nat]
    BY DEF Refs
  <2> QED
    BY <2>1, <2>2, <2>3, <2>4, <2>7, <2>9, <2>10, <2>11, <2>12, <2>14, <2>15, QuietWith
\* filealloc() and fdalloc() for an inode in hand.
<1>OpensStep. ASSUME NEW r, r = pr[p], NEW i \in Inums, Holding(p, r, i), Refs(0, 0),
                     NEW t \in Frames, t.x = 0, t.y = 0, t.sym = 0, t.puts = <<>>, NEW m, Opens(p, t, i, m, lock),
                     stopped = "none", UNCHANGED <<dino, dir, cwd, committed, stopped>>
              PROVE  IInv'
  <2> USE <1>OpensStep
  <2>1. lock' = [lock EXCEPT ![i] = Nobody]
    BY DEF Opens
  <2>2. CASE fd[p] = 0
    <3>1. fd' = [fd EXCEPT ![p] = i] /\ pr' = [pr EXCEPT ![p] = [t EXCEPT !.st = "end"]]
      BY <2>2 DEF Opens, Go
    <3> QED
      BY <2>1, <2>2, <3>1, <1>EndOpen
  <2>3. CASE fd[p] # 0
    <3>1. UNCHANGED fd /\ pr' = [pr EXCEPT ![p] = Puts(t, <<i>>, "end")]
      BY <2>3 DEF Opens, Go
    <3> QED
      BY <2>1, <3>1, <1>EndPut
  <2> QED
    BY <2>2, <2>3
\* The frame without its inode.
<1>ClearX. ASSUME NEW r \in Frames, NEW t, t = [r EXCEPT !.x = 0]
           PROVE  /\ t \in Frames /\ t.x = 0 /\ t.y = r.y /\ t.sym = r.sym /\ t.puts = r.puts /\ t.call = r.call
  <2> USE <1>ClearX
  <2>1. 0 \in Inums0
    BY DEF Inums0
  <2>2. t \in Frames
    BY <2>1 DEF Frames
  <2> QED
    BY <2>2 DEF Frames
<1>ClearY. ASSUME NEW r \in Frames, NEW t, t = [r EXCEPT !.y = 0]
           PROVE  /\ t \in Frames /\ t.x = r.x /\ t.y = 0 /\ t.sym = r.sym /\ t.puts = r.puts /\ t.call = r.call
  <2> USE <1>ClearY
  <2>1. 0 \in Inums0
    BY DEF Inums0
  <2>2. t \in Frames
    BY <2>1 DEF Frames
  <2> QED
    BY <2>2 DEF Frames
\* Freeing directories: a chdir() puts the directory it leaves.
<1>ChdirDir. ASSUME NEW r, r = pr[p], r.st = "chdir", r.x # 0, IsDir(r.x), Refs(0, 0),
                    cwd' = [cwd EXCEPT ![p] = r.x],
                    pr' = [pr EXCEPT ![p] = Puts([r EXCEPT !.x = 0], <<cwd[p]>>, "end")],
                    stopped = "none", UNCHANGED <<dino, dir, lock, fd, committed, stopped>>
             PROVE  IInv'
  <2> USE <1>ChdirDir
  <2>1. PICK s : s = Puts([r EXCEPT !.x = 0], <<cwd[p]>>, "end")
    OBVIOUS
  <2>2. /\ r \in Frames /\ ShapeAt(r, "chdir") /\ r.x \in Inums /\ InHand(r, fd[p]) /\ r.puts = <<>>
        /\ Label(r) = "chdir" /\ mem \in Mem /\ leak \in [Inums -> Nat]
    BY Ready
  <2>3. r.y = 0 /\ r.sym = 0 /\ r.call = "chdir"
    BY <2>2 DEF ShapeAt, Lookups
  <2>4. /\ cwd \in [Procs -> Inums] /\ fd \in [Procs -> Inums0] /\ lock \in [Inums -> Procs \cup {Nobody}]
        /\ Fits(p, r, cwd[p], lock)
    BY Facts DEF IInv, TypeOK
  <2>5. s \in Frames
    <3>1. "put" \in Labels /\ "end" \in Labels /\ 0 \in Inums0 /\ <<cwd[p]>> \in Seq(Inums)
      BY SMTT(30), <2>4 DEF Labels, Inums0
    <3> QED
      BY <2>1, <2>2, <3>1 DEF Puts, Frames
  <2>6. /\ s.call = "chdir" /\ s.st = "put" /\ s.then = "end" /\ s.x = 0 /\ s.y = 0 /\ s.sym = 0
        /\ s.puts = <<cwd[p]>>
    BY <2>1, <2>2, <2>3 DEF Puts, Frames
  <2>7. Putting(s) /\ Label(s) = "end"
    BY <2>6 DEF Putting, Label
  <2>8. Shape(s)
    BY SMTT(30), <2>6, <2>7 DEF Shape, ShapeAt, Parents, Lookups
  <2>9. Put(s, 1) = cwd[p] /\ Put(s, 2) = 0 /\ Put(r, 1) = 0 /\ Put(r, 2) = 0
    BY <2>2, <2>6, PutOfOne, PutOfNone
  <2>10. /\ cwd' \in [Procs -> Inums] /\ cwd'[p] = r.x /\ fd'[p] = fd[p]
         /\ \A q \in Procs \ {p} : cwd'[q] = cwd[q] /\ fd'[q] = fd[q]
    BY <2>2, <2>4
  <2>11. \A i \in Inums : lock[i] # p
    BY <2>2, <2>4 DEF Fits, LocksX, LocksY
  <2>12. Fits(p, s, cwd'[p], lock')
    <3>1. ~LocksX(s) /\ ~LocksY(s) /\ Label(s) # "unlink2" /\ IsDir(cwd'[p]) /\ lock' = lock
      BY <2>7, <2>10 DEF LocksX, LocksY
    <3> QED
      BY <2>6, <2>11, <3>1 DEF Fits
  <2>13. InHand(s, fd'[p])
    BY <2>2, <2>4, <2>6, <2>9, <2>10 DEF InHand, Live, Fits, IsDir, Alloc
  <2>14. \A i \in Inums : Owes(s, i) <=> Owes(pr[p], i)
    BY <2>3, <2>6, ZeroFree DEF Owes
  <2>15. \A i \in Inums : Mine(r.x, fd[p], s, i) = Mine(cwd[p], fd[p], r, i)
    BY SMTT(30), <2>3, <2>6, <2>9, ZeroFree DEF Mine, One
  <2>16. Tally(cwd[p], fd[p], pr[p], cwd'[p], fd'[p], s)
    <3> SUFFICES ASSUME NEW i \in Inums
        PROVE  mem'[i].ref - leak'[i] - Mine(cwd'[p], fd'[p], s, i)
                 = mem[i].ref - leak[i] - Mine(cwd[p], fd[p], pr[p], i)
      BY DEF Tally
    <3>1. mem'[i].ref = mem[i].ref /\ leak'[i] = leak[i]
      BY <2>2, <1>SameRefs
    <3> QED
      BY <2>10, <2>15, <3>1
  <2>17. mem' \in Mem /\ leak' \in [Inums -> Nat] /\ lock' \in [Inums -> Procs \cup {Nobody}]
         /\ fd' \in [Procs -> Inums0] /\ \A i \in Inums, q \in Procs \ {p} : lock'[i] = q <=> lock[i] = q
    BY <2>4 DEF Refs
  <2> QED
    BY <2>1, <2>5, <2>8, <2>10, <2>12, <2>13, <2>14, <2>16, <2>17, QuietWith
<1>Open. CASE Open(p)
  <2> USE <1>Open
  <2>1. PICK r : r = pr[p]
    OBVIOUS
  <2>2. stopped = "none" /\ r.st = "open" /\ r.x # 0 /\ lock[r.x] = Nobody
    BY <2>1 DEF Open, Locks, At
  <2>3. /\ r \in Frames /\ ShapeAt(r, "open") /\ r.x \in Inums /\ Alloc(r.x) /\ r.puts = <<>>
    BY <2>1, <2>2, Ready
  <2>4. ~NoType(r.x)
    BY <2>3 DEF NoType, Alloc
  <2>5. /\ UNCHANGED <<dino, dir, cwd, leak, stopped>>
        /\ \/ /\ Go(p, Puts([r EXCEPT !.x = 0], <<r.x>>, "end")) /\ mem' = Load(mem, r.x)
              /\ UNCHANGED <<lock, fd>>
           \/ Opens(p, [r EXCEPT !.x = 0], r.x, Load(mem, r.x), lock)
    BY <2>1, <2>4 DEF Open, tree
  <2>6. Refs(0, 0)
    <3>1. mem' = Load(mem, r.x)
      BY <2>5 DEF Opens
    <3> QED
      BY <2>3, <2>5, <3>1, RefsKept
  <2>7. CASE Go(p, Puts([r EXCEPT !.x = 0], <<r.x>>, "end")) /\ UNCHANGED <<lock, fd>>
    <3>1. pr' = [pr EXCEPT ![p] = Puts([r EXCEPT !.x = 0], <<r.x>>, "end")] /\ UNCHANGED <<lock, fd>>
      BY <2>7 DEF Go
    <3>2. r.st \in {"open", "link", "chdir", "unlink", "up", "name"}
      BY <2>2
    <3> QED
      BY <2>1, <2>2, <2>5, <2>6, <3>1, <3>2, PutX
  <2>8. CASE Opens(p, [r EXCEPT !.x = 0], r.x, Load(mem, r.x), lock)
    <3>1. PICK t : t = [r EXCEPT !.x = 0]
      OBVIOUS
    <3>2. Opens(p, t, r.x, Load(mem, r.x), lock)
      BY <2>8, <3>1
    <3>3. r.y = 0 /\ r.sym = 0
      BY <2>3 DEF ShapeAt, Lookups
    <3>4. t \in Frames /\ t.x = 0 /\ t.y = 0 /\ t.sym = 0 /\ t.puts = <<>>
      BY <2>3, <3>1, <3>3, <1>ClearX
    <3>5. Holding(p, r, r.x)
      BY <2>2, <3>3 DEF Holding
    <3> QED
      BY <2>1, <2>2, <2>3, <2>5, <2>6, <3>2, <3>4, <3>5, <1>OpensStep
  <2> QED
    BY <2>5, <2>7, <2>8
\* create() of an inode that exists.
<1>Found. CASE Found(p)
  <2> USE <1>Found
  <2>1. PICK r : r = pr[p]
    OBVIOUS
  <2>2. stopped = "none" /\ r.st = "found" /\ r.y # 0 /\ lock[r.y] = Nobody
    BY <2>1 DEF Found, Locks, At
  <2>3. /\ r \in Frames /\ ShapeAt(r, "found") /\ r.y \in Inums /\ Alloc(r.y) /\ r.puts = <<>>
    BY <2>1, <2>2, Ready
  <2>4. ~NoType(r.y)
    BY <2>3 DEF NoType, Alloc
  <2>5. /\ UNCHANGED <<dino, dir, cwd, leak, stopped>>
        /\ \/ Opens(p, [r EXCEPT !.y = 0], r.y, Load(mem, r.y), lock)
           \/ /\ Go(p, Puts([r EXCEPT !.y = 0], <<r.y>>, "end")) /\ mem' = Load(mem, r.y)
              /\ UNCHANGED <<lock, fd>>
    BY <2>1, <2>4 DEF Found, tree
  <2>6. Refs(0, 0)
    <3>1. mem' = Load(mem, r.y)
      BY <2>5 DEF Opens
    <3> QED
      BY <2>3, <2>5, <3>1, RefsKept
  <2>7. PICK t : t = [r EXCEPT !.y = 0]
    OBVIOUS
  <2>8. r.x = 0 /\ r.sym = 0
    BY <2>3 DEF ShapeAt, Lookups
  <2>9. t \in Frames /\ t.x = 0 /\ t.y = 0 /\ t.sym = 0 /\ t.puts = <<>>
    BY <2>3, <2>7, <2>8, <1>ClearY
  <2>10. Holding(p, r, r.y)
    BY <2>2, <2>8 DEF Holding
  <2>11. CASE Opens(p, t, r.y, Load(mem, r.y), lock)
    BY <2>1, <2>2, <2>3, <2>5, <2>6, <2>9, <2>10, <2>11, <1>OpensStep
  <2>12. CASE Go(p, Puts(t, <<r.y>>, "end")) /\ UNCHANGED <<lock, fd>>
    <3>1. lock' = [lock EXCEPT ![r.y] = Nobody]
      BY <2>2, <2>3, <2>12 DEF IInv, TypeOK
    <3>2. pr' = [pr EXCEPT ![p] = Puts(t, <<r.y>>, "end")] /\ UNCHANGED fd
      BY <2>12 DEF Go
    <3> QED
      BY <2>1, <2>2, <2>3, <2>5, <2>6, <2>9, <2>10, <3>1, <3>2, <1>EndPut
  <2> QED
    BY <2>5, <2>7, <2>11, <2>12
\* ... and of one that it has made.
<1>Made. CASE Made(p)
  <2> USE <1>Made
  <2>1. PICK r : r = pr[p]
    OBVIOUS
  <2>2. stopped = "none" /\ r.st = "made"
    BY <2>1 DEF Made, At
  <2>3. /\ r \in Frames /\ ShapeAt(r, "made") /\ r.puts = <<>> /\ Label(r) = "made" /\ r.y \in Inums0
    BY <2>1, <2>2, Ready
  <2>4. r.x = 0 /\ r.sym = 0 /\ r.y \in Inums
    BY <2>3 DEF ShapeAt, Lookups, Inums0
  <2>5. PICK t : t = [r EXCEPT !.y = 0]
    OBVIOUS
  <2>6. /\ UNCHANGED <<dino, dir, cwd, leak, stopped>>
        /\ \/ Opens(p, t, r.y, mem, lock)
           \/ /\ pr' = [pr EXCEPT ![p] = Puts(t, <<r.y>>, "end")]
              /\ lock' = [lock EXCEPT ![r.y] = Nobody] /\ UNCHANGED <<mem, fd>>
    BY <2>1, <2>5 DEF Made, tree, Go
  <2>7. Refs(0, 0)
    <3>1. mem' = mem
      BY <2>6 DEF Opens
    <3> QED
      BY <2>6, <3>1, RefsKept
  <2>8. t \in Frames /\ t.x = 0 /\ t.y = 0 /\ t.sym = 0 /\ t.puts = <<>>
    BY <2>3, <2>4, <2>5, <1>ClearY
  <2>9. Holding(p, r, r.y)
    <3>1. Fits(p, r, cwd[p], lock)
      BY <2>1, Facts
    <3> QED
      BY <2>2, <2>3, <2>4, <3>1 DEF Holding, Fits, LocksY
  <2>10. CASE Opens(p, t, r.y, mem, lock)
    BY <2>1, <2>2, <2>4, <2>6, <2>7, <2>8, <2>9, <2>10, <1>OpensStep
  <2>11. CASE ~Opens(p, t, r.y, mem, lock)
    BY <2>1, <2>2, <2>4, <2>6, <2>7, <2>8, <2>9, <2>11, <1>EndPut
  <2> QED
    BY <2>10, <2>11
<1>UnlinkBad. CASE UnlinkBad(p)
  <2> USE <1>UnlinkBad
  <2>1. PICK r : r = pr[p]
    OBVIOUS
  <2>2. PICK t : t = [r EXCEPT !.x = 0]
    OBVIOUS
  <2>3. /\ stopped = "none" /\ r.st = "unlinkbad" /\ pr' = [pr EXCEPT ![p] = Puts(t, <<r.x>>, "end")]
        /\ lock' = [lock EXCEPT ![r.x] = Nobody]
        /\ UNCHANGED <<dino, dir, mem, cwd, fd, leak, stopped>>
    BY <2>1, <2>2 DEF UnlinkBad, At, tree, Go
  <2>4. /\ r \in Frames /\ ShapeAt(r, "unlinkbad") /\ r.puts = <<>> /\ Label(r) = "unlinkbad" /\ r.x \in Inums0
    BY <2>1, <2>3, Ready
  <2>5. r.y = 0 /\ r.sym = 0 /\ r.x \in Inums
    BY <2>4 DEF ShapeAt, Lookups, Inums0
  <2>6. Refs(0, 0)
    BY <2>3, RefsKept
  <2>7. t \in Frames /\ t.x = 0 /\ t.y = 0 /\ t.sym = 0 /\ t.puts = <<>>
    BY <2>2, <2>4, <2>5, <1>ClearX
  <2>8. Holding(p, r, r.x)
    <3>1. Fits(p, r, cwd[p], lock)
      BY <2>1, Facts
    <3> QED
      BY <2>3, <2>4, <2>5, <3>1 DEF Holding, Fits, LocksX
  <2> QED
    BY <2>1, <2>3, <2>5, <2>6, <2>7, <2>8, <1>EndPut
<1>Chdir. CASE Chdir(p)
  <2> USE <1>Chdir
  <2>1. PICK r : r = pr[p]
    OBVIOUS
  <2>2. stopped = "none" /\ r.st = "chdir" /\ r.x # 0
    BY <2>1 DEF Chdir, Locks, At
  <2>3. r.x \in Inums /\ Alloc(r.x)
    BY <2>1, <2>2, Ready
  <2>4. ~NoType(r.x)
    BY <2>3 DEF NoType, Alloc
  <2>5. /\ mem' = Load(mem, r.x) /\ UNCHANGED <<dino, dir, lock, fd, leak, stopped>>
        /\ IF IsDir(r.x) THEN /\ cwd' = [cwd EXCEPT ![p] = r.x]
                              /\ pr' = [pr EXCEPT ![p] = Puts([r EXCEPT !.x = 0], <<cwd[p]>>, "end")]
           ELSE /\ pr' = [pr EXCEPT ![p] = Puts([r EXCEPT !.x = 0], <<r.x>>, "end")]
                /\ UNCHANGED cwd
    BY <2>1, <2>4 DEF Chdir, tree, IsDir, Go
  <2>6. Refs(0, 0)
    BY <2>3, <2>5, RefsKept
  <2>7. CASE IsDir(r.x)
    BY <2>1, <2>2, <2>5, <2>6, <2>7, <1>ChdirDir
  <2>8. CASE ~IsDir(r.x)
    <3>1. r.st \in {"open", "link", "chdir", "unlink", "up", "name"}
      BY <2>2
    <3> QED
      BY <2>1, <2>2, <2>5, <2>6, <2>8, <3>1, PutX
  <2> QED
    BY <2>7, <2>8
<1> QED
  BY <1>Open, <1>Found, <1>Made, <1>UnlinkBad, <1>Chdir

\* sys_close() puts the open inode.
LEMMA CloseStep ==
  ASSUME IInv, NEW p \in Procs, Close(p), UNCHANGED committed
  PROVE  IInv'
<1>1. PICK r : r = pr[p]
  OBVIOUS
<1>2. PICK s : s = Puts([Idle EXCEPT !.call = "close"], <<fd[p]>>, "end")
  OBVIOUS
<1>3. /\ stopped = "none" /\ r.st = "idle" /\ fd[p] # 0 /\ fd' = [fd EXCEPT ![p] = 0]
      /\ pr' = [pr EXCEPT ![p] = s] /\ UNCHANGED <<dino, dir, mem, lock, cwd, leak, committed, stopped>>
  BY <1>1, <1>2 DEF Close, At, Go, tree
<1>4. /\ r \in Frames /\ ShapeAt(r, "idle") /\ InHand(r, fd[p]) /\ r.puts = <<>>
      /\ Label(r) = "idle" /\ mem \in Mem /\ leak \in [Inums -> Nat]
  BY <1>1, <1>3, Ready
<1>5. r.x = 0 /\ r.y = 0 /\ r.sym = 0
  BY <1>4 DEF ShapeAt
<1>6. /\ cwd \in [Procs -> Inums] /\ fd \in [Procs -> Inums0] /\ lock \in [Inums -> Procs \cup {Nobody}]
      /\ Fits(p, r, cwd[p], lock) /\ fd[p] \in Inums /\ Alloc(fd[p])
  BY <1>1, <1>3, <1>4, Facts DEF IInv, TypeOK, Inums0, InHand, Live
<1>7. s \in Frames
  <2>1. "put" \in Labels /\ "end" \in Labels /\ "close" \in Calls /\ <<fd[p]>> \in Seq(Inums)
    BY SMTT(30), <1>6 DEF Labels, Calls
  <2> QED
    BY <1>2, <2>1, IdleFrame DEF Puts, Frames
<1>8. /\ s.call = "close" /\ s.st = "put" /\ s.then = "end" /\ s.x = 0 /\ s.y = 0 /\ s.sym = 0
      /\ s.puts = <<fd[p]>>
  BY <1>2 DEF Puts, Idle
<1>9. Putting(s) /\ Label(s) = "end"
  BY <1>8 DEF Putting, Label
<1>10. Shape(s)
  BY SMTT(30), <1>8, <1>9 DEF Shape, ShapeAt, Parents, Lookups
<1>11. Put(s, 1) = fd[p] /\ Put(s, 2) = 0 /\ Put(r, 1) = 0 /\ Put(r, 2) = 0
  BY <1>4, <1>8, PutOfOne, PutOfNone
<1>12. /\ fd' \in [Procs -> Inums0] /\ fd'[p] = 0 /\ cwd'[p] = cwd[p]
       /\ \A q \in Procs \ {p} : cwd'[q] = cwd[q] /\ fd'[q] = fd[q]
  BY <1>3, <1>6 DEF Inums0
<1>13. \A i \in Inums : lock[i] # p
  BY <1>4, <1>6 DEF Fits, LocksX, LocksY
<1>14. Fits(p, s, cwd'[p], lock')
  <2>1. ~LocksX(s) /\ ~LocksY(s) /\ Label(s) # "unlink2" /\ IsDir(cwd'[p]) /\ lock' = lock
    BY <1>3, <1>6, <1>9, <1>12 DEF LocksX, LocksY, Fits
  <2> QED
    BY <1>8, <1>13, <2>1 DEF Fits
<1>15. InHand(s, fd'[p])
  BY <1>6, <1>8, <1>11, <1>12 DEF InHand, Live
<1>16. \A i \in Inums : Owes(s, i) <=> Owes(pr[p], i)
  BY <1>1, <1>5, <1>8, ZeroFree DEF Owes
<1>17. \A i \in Inums : Mine(cwd[p], 0, s, i) = Mine(cwd[p], fd[p], r, i)
  BY SMTT(30), <1>5, <1>8, <1>11, ZeroFree DEF Mine, One
<1>18. Tally(cwd[p], fd[p], pr[p], cwd'[p], fd'[p], s)
  BY <1>1, <1>3, <1>12, <1>17 DEF Tally
<1>19. mem' \in Mem /\ leak' \in [Inums -> Nat] /\ lock' \in [Inums -> Procs \cup {Nobody}]
       /\ cwd' \in [Procs -> Inums] /\ \A i \in Inums, q \in Procs \ {p} : lock'[i] = q <=> lock[i] = q
  BY <1>3, <1>4, <1>6
<1> QED
  BY <1>3, <1>7, <1>10, <1>12, <1>14, <1>15, <1>16, <1>18, <1>19, QuietWith

\* sys_getcwd(): it begins, goes up and looks for the name.
LEMMA GetcwdStep ==
  ASSUME IInv, NEW p \in Procs, Getcwd(p), UNCHANGED committed
  PROVE  IInv'
<1>1. PICK r : r = pr[p]
  OBVIOUS
<1>2. PICK s : s = [Idle EXCEPT !.call = "getcwd", !.x = cwd[p], !.st = "up"]
  OBVIOUS
<1>3. /\ stopped = "none" /\ r.st = "idle" /\ mem' = Iget(mem, cwd[p]) /\ pr' = [pr EXCEPT ![p] = s]
      /\ UNCHANGED <<dino, dir, lock, cwd, fd, leak, committed, stopped>>
  BY <1>1, <1>2 DEF Getcwd, At, Go, tree
<1>4. r \in Frames /\ ShapeAt(r, "idle")
  BY <1>1, <1>3, Ready
<1>5. r.x = 0 /\ r.y = 0 /\ r.sym = 0
  BY <1>4 DEF ShapeAt
<1>6. cwd[p] \in Inums /\ cwd[p] # 0 /\ IsDir(cwd[p]) /\ Alloc(cwd[p])
  BY SMTT(30), <1>1, Facts, ZeroFree DEF Fits, IsDir, Alloc
<1>7. s \in Frames
  <2>1. "up" \in Labels /\ "getcwd" \in Calls /\ cwd[p] \in Inums0
    BY <1>6 DEF Labels, Calls, Inums0
  <2> QED
    BY <1>2, <2>1, IdleFrame DEF Frames
<1>8. s.call = "getcwd" /\ s.st = "up" /\ s.x = cwd[p] /\ s.y = 0 /\ s.sym = 0 /\ s.puts = <<>>
  BY <1>2 DEF Idle
<1>9. /\ ShapeAt(s, s.st) /\ s.st \notin {"put", "drop"} \cup LockLabels
      /\ r.st \notin {"put", "drop"} \cup LockLabels
  BY <1>3, <1>6, <1>8 DEF ShapeAt, Parents, Lookups, LockLabels
<1>10. InDirs(s) /\ Live(s.x) /\ Live(s.y) /\ Live(s.sym)
  BY <1>6, <1>8 DEF InDirs, Live
<1>11. \A i \in Inums : Owes(s, i) <=> Owes(r, i)
  BY <1>5, <1>8, ZeroFree DEF Owes
<1>12. Even(r, s, 0, cwd[p], 0)
  BY SMTT(30), <1>5, <1>8, ZeroFree DEF Even, Own3, One
<1>13. Refs(cwd[p], 0)
  BY <1>3, <1>6, RefsKept
<1> QED
  BY <1>1, <1>3, <1>7, <1>8, <1>9, <1>10, <1>11, <1>12, <1>13, ToLabel

LEMMA GetcwdUpStep ==
  ASSUME IInv, NEW p \in Procs, GetcwdUp(p), UNCHANGED <<committed, calls>>
  PROVE  IInv'
<1>1. PICK r : r = pr[p]
  OBVIOUS
<1>2. PICK u : u = dir[r.x][".."]
  OBVIOUS
<1>3. stopped = "none" /\ r.st = "up"
  BY <1>1 DEF GetcwdUp, At
<1>4. /\ r \in Frames /\ ShapeAt(r, "up") /\ InDirs(r) /\ (r.x # 0 => r.x \in Inums /\ Alloc(r.x))
      /\ r.x \in Inums0
  BY <1>1, <1>3, Ready
<1>5. r.x # 0 /\ r.x \in Inums /\ r.y = 0 /\ r.sym = 0 /\ r.call = "getcwd" /\ IsDir(r.x) /\ Alloc(r.x)
  BY <1>4 DEF ShapeAt, InDirs, HasParent
<1>6. u \in Inums /\ u # 0 /\ IsDir(u) /\ Alloc(u)
  <2>1. u # 0 /\ IsDir(u) /\ ".." \in AllNames
    BY <1>2, <1>5 DEF IInv, TreeInv, Rooted, IsDir, AllNames
  <2> QED
    BY <1>2, <1>5, <2>1, EntryIs
<1>7. /\ UNCHANGED <<dino, dir, lock, cwd, fd, leak, stopped>>
      /\ \/ pr' = [pr EXCEPT ![p] = Puts([r EXCEPT !.x = 0], <<r.x>>, "end")] /\ mem' = mem
         \/ /\ mem' = Iget(Load(mem, r.x), u)
            /\ pr' = [pr EXCEPT ![p] = Puts([r EXCEPT !.x = u, !.child = r.x], <<r.x>>, "name")]
  BY <1>1, <1>2, <1>6 DEF GetcwdUp, Go, tree
<1>8. CASE pr' = [pr EXCEPT ![p] = Puts([r EXCEPT !.x = 0], <<r.x>>, "end")] /\ mem' = mem
  <2>1. Refs(0, 0) /\ r.st \in {"open", "link", "chdir", "unlink", "up", "name"}
    BY <1>3, <1>7, <1>8, RefsKept
  <2> QED
    BY <1>1, <1>3, <1>5, <1>7, <1>8, <2>1, PutX
<1>9. CASE /\ mem' = Iget(Load(mem, r.x), u)
           /\ pr' = [pr EXCEPT ![p] = Puts([r EXCEPT !.x = u, !.child = r.x], <<r.x>>, "name")]
  <2>1. PICK s : s = Puts([r EXCEPT !.x = u, !.child = r.x], <<r.x>>, "name")
    OBVIOUS
  <2>2. s \in Frames
    <3>1. "put" \in Labels /\ "name" \in Labels /\ u \in Inums0 /\ <<r.x>> \in Seq(Inums)
      BY SMTT(30), <1>5, <1>6 DEF Labels, Inums0
    <3> QED
      BY <1>4, <2>1, <3>1 DEF Puts, Frames
  <2>3. /\ s.call = "getcwd" /\ s.st = "put" /\ s.then = "name" /\ s.x = u /\ s.y = 0
        /\ s.sym = 0 /\ s.puts = <<r.x>>
    BY <1>4, <1>5, <2>1 DEF Puts, Frames
  <2>4. /\ ShapeAt(s, s.then) /\ s.then \notin LockLabels /\ r.st \notin {"put", "drop"} \cup LockLabels
    BY <1>3, <1>6, <2>3 DEF ShapeAt, Parents, Lookups, LockLabels
  <2>5. InDirs(s) /\ Live(s.x) /\ Live(s.y) /\ Live(s.sym)
    BY <1>6, <2>3 DEF InDirs, Live
  <2>6. \A i \in Inums : Owes(s, i) <=> Owes(r, i)
    BY <1>5, <2>3, ZeroFree DEF Owes
  <2>7. Even(r, s, r.x, u, 0)
    BY SMTT(30), <1>5, <2>3, ZeroFree DEF Even, Own3, One
  <2>8. Refs(u, 0)
    BY <1>5, <1>6, <1>7, <1>9, RefsKept
  <2> QED
    BY <1>1, <1>3, <1>5, <1>7, <1>9, <2>1, <2>2, <2>3, <2>4, <2>5, <2>6, <2>7, <2>8, ToPut
<1> QED
  BY <1>7, <1>8, <1>9

LEMMA GetcwdNameStep ==
  ASSUME IInv, NEW p \in Procs, GetcwdName(p), UNCHANGED <<committed, calls>>
  PROVE  IInv'
<1>1. PICK r : r = pr[p]
  OBVIOUS
<1>2. stopped = "none" /\ r.st = "name" /\ r.x # 0
  BY <1>1 DEF GetcwdName, Locks, At
<1>3. /\ r \in Frames /\ ShapeAt(r, "name") /\ InDirs(r) /\ r.x \in Inums /\ Alloc(r.x)
  BY <1>1, <1>2, Ready
<1>4. ~NoType(r.x)
  BY <1>3 DEF NoType, Alloc
<1>5. /\ mem' = Load(mem, r.x) /\ UNCHANGED <<dino, dir, lock, cwd, fd, leak, stopped>>
      /\ \/ pr' = [pr EXCEPT ![p] = [r EXCEPT !.st = "up"]]
         \/ pr' = [pr EXCEPT ![p] = Puts([r EXCEPT !.x = 0], <<r.x>>, "end")]
  BY <1>1, <1>4 DEF GetcwdName, Go, tree
<1>6. Refs(0, 0) /\ r.st \in {"open", "link", "chdir", "unlink", "up", "name"}
  BY <1>2, <1>3, <1>5, RefsKept
<1>7. CASE pr' = [pr EXCEPT ![p] = Puts([r EXCEPT !.x = 0], <<r.x>>, "end")]
  BY <1>1, <1>2, <1>5, <1>6, <1>7, PutX
<1>8. CASE pr' = [pr EXCEPT ![p] = [r EXCEPT !.st = "up"]]
  <2>1. "up" \in Labels /\ {r.st, "up"} \cap ({"put", "drop"} \cup LockLabels) = {} /\ ShapeAt(r, "up")
    BY <1>2, <1>3 DEF Labels, LockLabels, ShapeAt, Parents, Lookups
  <2>2. InDirs([r EXCEPT !.st = "up"])
    <3>1. PICK s : s = [r EXCEPT !.st = "up"]
      OBVIOUS
    <3>2. s.call = r.call /\ s.x = r.x /\ s.y = r.y /\ r.call = "getcwd"
      BY <1>3, <3>1 DEF Frames, ShapeAt
    <3> QED
      BY <1>3, <3>1, <3>2 DEF InDirs, HasParent
  <2> QED
    BY <1>1, <1>2, <1>5, <1>6, <1>8, <2>1, <2>2, Advance
<1> QED
  BY <1>5, <1>7, <1>8

-----------------------------------------------------------------------------
(* Steps that take or give up an inode's lock                              *)

\* A step of a call that leaves the tree as it is and may take or give up locks.
LEMMA LockMove ==
  ASSUME IInv, NEW p \in Procs, NEW r, r = pr[p], NEW s \in Frames, pr' = [pr EXCEPT ![p] = s],
         stopped = "none", UNCHANGED <<dino, dir, cwd, fd, committed, stopped>>,
         lock' \in [Inums -> Procs \cup {Nobody}],
         \A j \in Inums, q \in Procs \ {p} : lock'[j] = q <=> lock[j] = q,
         Shape(s), Fits(p, s, cwd[p], lock'), InHand(s, fd[p]),
         \A i \in Inums : Owes(s, i) <=> Owes(r, i),
         NEW n, NEW k, Refs(n, k), Owned(r, s, n, k)
  PROVE  IInv'
<1>1. mem \in Mem /\ leak \in [Inums -> Nat] /\ cwd \in [Procs -> Inums] /\ fd \in [Procs -> Inums0]
  BY DEF IInv, TypeOK
<1>2. mem' \in Mem /\ leak' \in [Inums -> Nat]
  BY DEF Refs
<1>3. Settled(r, s)
  BY <1>1, Balance
<1>4. Tally(cwd[p], fd[p], r, cwd[p], fd[p], s)
  BY <1>1, <1>2, <1>3, Ledger
<1>5. /\ cwd' \in [Procs -> Inums] /\ fd' \in [Procs -> Inums0] /\ cwd'[p] = cwd[p] /\ fd'[p] = fd[p]
      /\ \A q \in Procs \ {p} : cwd'[q] = cwd[q] /\ fd'[q] = fd[q]
  BY <1>1
<1>6. /\ Tally(cwd[p], fd[p], pr[p], cwd'[p], fd'[p], s) /\ Fits(p, s, cwd'[p], lock')
      /\ InHand(s, fd'[p]) /\ \A i \in Inums : Owes(s, i) <=> Owes(pr[p], i)
  BY <1>4, <1>5
<1> QED
  BY <1>2, <1>5, <1>6, QuietWith

\* ilock() of a free inode, kept.
LEMMA Taken ==
  ASSUME IInv, NEW p \in Procs, NEW i \in Inums, lock[i] = Nobody, lock' = [lock EXCEPT ![i] = p]
  PROVE  /\ lock' \in [Inums -> Procs \cup {Nobody}] /\ lock'[i] = p
         /\ \A j \in Inums, q \in Procs \ {p} : lock'[j] = q <=> lock[j] = q
         /\ \A j \in Inums : lock'[j] = p => j = i \/ lock[j] = p
<1>1. lock \in [Inums -> Procs \cup {Nobody}] /\ Nobody \notin Procs
  BY NamesAssumption DEF IInv, TypeOK
<1> QED
  BY <1>1

\* sys_unlink() up to the lock of the inode.
LEMMA UnlinkStep ==
  ASSUME IInv, NEW p \in Procs, Unlink(p), UNCHANGED <<committed, calls>>
  PROVE  IInv'
\* sys_unlink() with the parent locked goes on to lock the inode.
<1>UnlinkNamed. ASSUME NEW r, r = pr[p], r.st = "unlink", r.x # 0, lock[r.x] = Nobody,
                       r.nm \notin {".", ".."}, NEW i \in Inums, i = dir[r.x][r.nm],
                       mem' = Iget(Load(mem, r.x), i), lock' = [lock EXCEPT ![r.x] = p],
                       pr' = [pr EXCEPT ![p] = [r EXCEPT !.y = i, !.st = "unlink2"]],
                       stopped = "none", UNCHANGED <<dino, dir, cwd, fd, leak, committed, stopped>>
                PROVE  IInv'
  <2> USE <1>UnlinkNamed
  <2>1. PICK s : s = [r EXCEPT !.y = i, !.st = "unlink2"]
    OBVIOUS
  <2>2. /\ r \in Frames /\ ShapeAt(r, "unlink") /\ InDirs(r) /\ r.x \in Inums /\ Alloc(r.x)
        /\ Label(r) = "unlink" /\ r.puts = <<>> /\ InHand(r, fd[p]) /\ r.nm \in AllNames
    BY Ready
  <2>3. r.y = 0 /\ r.sym = 0 /\ r.call = "unlink" /\ IsDir(r.x)
    BY <2>2 DEF ShapeAt, Parents, Lookups, InDirs, HasParent
  <2>4. Alloc(i) /\ i # 0
    BY <2>2, <2>3, EntryIs, ZeroFree
  <2>5. s \in Frames
    <3>1. "unlink2" \in Labels /\ i \in Inums0
      BY DEF Labels, Inums0
    <3> QED
      BY <2>1, <2>2, <3>1 DEF Frames
  <2>6. /\ s.call = "unlink" /\ s.st = "unlink2" /\ s.x = r.x /\ s.y = i /\ s.sym = 0 /\ s.puts = <<>>
        /\ s.nm = r.nm
    BY <2>1, <2>2, <2>3 DEF Frames
  <2>7. ~Putting(s) /\ Label(s) = "unlink2" /\ Len(<<>>) <= 2
    BY SMTT(30), <2>6, NoSeq DEF Putting, Label
  <2>8. Shape(s)
    <3>1. ShapeAt(s, "unlink2")
      BY <2>4, <2>6 DEF ShapeAt, Parents, Lookups
    <3> QED
      BY <2>6, <2>7, <3>1 DEF Shape
  <2>9. Put(s, 1) = 0 /\ Put(s, 2) = 0 /\ Put(r, 1) = 0 /\ Put(r, 2) = 0
    BY <2>2, <2>6, PutOfNone
  <2>10. /\ lock' \in [Inums -> Procs \cup {Nobody}] /\ lock'[r.x] = p
         /\ \A j \in Inums, q \in Procs \ {p} : lock'[j] = q <=> lock[j] = q
         /\ \A j \in Inums : lock'[j] = p => j = r.x \/ lock[j] = p
    BY <2>2, Taken
  <2>11. Fits(p, s, cwd[p], lock')
    <3>1. Fits(p, r, cwd[p], lock) /\ ~LocksX(r) /\ ~LocksY(r) /\ LocksX(s) /\ ~LocksY(s)
      BY <2>2, <2>7, Facts DEF LocksX, LocksY
    <3>2. \A j \in Inums : lock'[j] = p => j = r.x
      BY <2>10, <3>1 DEF Fits
    <3> QED
      BY <2>3, <2>6, <2>10, <3>1, <3>2 DEF Fits
  <2>12. InHand(s, fd[p])
    BY <2>2, <2>4, <2>6, <2>9 DEF InHand, Live
  <2>13. \A j \in Inums : Owes(s, j) <=> Owes(r, j)
    BY <2>3, <2>6, ZeroFree DEF Owes
  <2>14. Owned(r, s, i, 0)
    BY SMTT(30), <2>3, <2>6, <2>9, ZeroFree DEF Owned, Own, One
  <2>15. Refs(i, 0)
    BY <2>2, RefsKept
  <2> QED
    BY <2>1, <2>5, <2>8, <2>10, <2>11, <2>12, <2>13, <2>14, <2>15, LockMove
<1>1. PICK r : r = pr[p]
  OBVIOUS
<1>2. PICK i : i = dir[r.x][r.nm]
  OBVIOUS
<1>3. stopped = "none" /\ r.st = "unlink" /\ r.x # 0 /\ lock[r.x] = Nobody
      /\ UNCHANGED <<dino, dir, cwd, fd, leak, stopped>>
  BY <1>1 DEF Unlink, Locks, At, tree
<1>4. /\ ShapeAt(r, "unlink") /\ InDirs(r) /\ r.x \in Inums /\ Label(r) = "unlink" /\ r.nm \in AllNames
  BY <1>1, <1>3, Ready
<1>5. CASE r.nm \in {".", ".."} \/ i = 0
  <2>1. /\ pr' = [pr EXCEPT ![p] = Puts([r EXCEPT !.x = 0], <<r.x>>, "end")]
        /\ mem' = Load(mem, r.x) /\ UNCHANGED lock
    BY <1>1, <1>2, <1>5 DEF Unlink, Go
  <2>2. Refs(0, 0) /\ r.st \in {"open", "link", "chdir", "unlink", "up", "name"}
    BY <1>3, <1>4, <2>1, RefsKept
  <2> QED
    BY <1>1, <1>3, <2>1, <2>2, PutX
<1>6. CASE ~(r.nm \in {".", ".."} \/ i = 0)
  <2>1. /\ mem' = Iget(Load(mem, r.x), i) /\ lock' = [lock EXCEPT ![r.x] = p]
        /\ pr' = [pr EXCEPT ![p] = [r EXCEPT !.y = i, !.st = "unlink2"]]
    BY <1>1, <1>2, <1>6 DEF Unlink, Go
  <2>2. IsDir(r.x)
    BY <1>3, <1>4 DEF InDirs, HasParent
  <2>3. i \in Inums /\ r.nm \notin {".", ".."}
    BY <1>2, <1>4, <1>6, <2>2, EntryIs
  <2> QED
    BY <1>1, <1>2, <1>3, <2>1, <2>3, <1>UnlinkNamed
<1> QED
  BY <1>5, <1>6

\* sys_link() after dirlink() failed.
LEMMA LinkFailStep ==
  ASSUME IInv, NEW p \in Procs, LinkFail(p), UNCHANGED <<committed, calls>>
  PROVE  IInv'
<1>1. PICK r : r = pr[p]
  OBVIOUS
<1>2. PICK s : s = Puts([r EXCEPT !.x = 0], <<r.x>>, "link2")
  OBVIOUS
<1>3. /\ stopped = "none" /\ r.st = "linkfail" /\ lock' = [lock EXCEPT ![r.x] = Nobody]
      /\ pr' = [pr EXCEPT ![p] = s] /\ UNCHANGED <<dino, dir, mem, cwd, fd, leak, committed, stopped>>
  BY <1>1, <1>2 DEF LinkFail, At, Go, tree
<1>4. /\ r \in Frames /\ ShapeAt(r, "linkfail") /\ (r.x # 0 => r.x \in Inums /\ Alloc(r.x))
      /\ Label(r) = "linkfail" /\ r.puts = <<>> /\ InHand(r, fd[p])
  BY <1>1, <1>3, Ready
<1>5. r.x \in Inums /\ Alloc(r.x) /\ r.y # 0 /\ r.sym = 0 /\ r.call = "link"
  BY <1>4 DEF ShapeAt
<1>6. s \in Frames
  <2>1. "put" \in Labels /\ "link2" \in Labels /\ <<r.x>> \in Seq(Inums) /\ 0 \in Inums0
    BY SMTT(30), <1>5 DEF Labels, Inums0
  <2> QED
    BY <1>2, <1>4, <2>1 DEF Puts, Frames
<1>7. /\ s.call = "link" /\ s.st = "put" /\ s.then = "link2" /\ s.x = 0 /\ s.y = r.y /\ s.sym = 0
      /\ s.puts = <<r.x>>
  BY <1>2, <1>4, <1>5 DEF Puts, Frames
<1>8. Putting(s) /\ Label(s) = "link2"
  BY <1>7 DEF Putting, Label
<1>9. Shape(s)
  BY SMTT(30), <1>5, <1>7, <1>8 DEF Shape, ShapeAt, Parents, Lookups
<1>10. Put(s, 1) = r.x /\ Put(s, 2) = 0 /\ Put(r, 1) = 0 /\ Put(r, 2) = 0
  BY <1>4, <1>7, PutOfOne, PutOfNone
<1>11. Fits(p, r, cwd[p], lock) /\ LocksX(r) /\ ~LocksY(r)
  BY <1>1, <1>4, Facts DEF LocksX, LocksY
<1>12. /\ lock' \in [Inums -> Procs \cup {Nobody}]
       /\ \A j \in Inums, q \in Procs \ {p} : lock'[j] = q <=> lock[j] = q
       /\ \A j \in Inums : lock'[j] # p
  <2>1. Unlocks(p, r.x)
    BY <1>3, <1>11 DEF Fits, Unlocks
  <2> QED
    BY <1>5, <2>1, Released
<1>13. Fits(p, s, cwd[p], lock')
  <2>1. ~LocksX(s) /\ ~LocksY(s) /\ IsDir(cwd[p]) /\ Label(s) # "unlink2" /\ s.call # "symlink"
    BY <1>7, <1>8, <1>11 DEF LocksX, LocksY, Fits
  <2> QED
    BY <1>7, <1>12, <2>1 DEF Fits
<1>14. InHand(s, fd[p])
  BY <1>4, <1>5, <1>7, <1>10 DEF InHand, Live
<1>15. \A j \in Inums : Owes(s, j) <=> Owes(r, j)
  BY <1>5, <1>7 DEF Owes
<1>16. Owned(r, s, 0, 0)
  BY SMTT(30), <1>5, <1>7, <1>10, ZeroFree DEF Owned, Own, One
<1>17. Refs(0, 0)
  BY <1>3, RefsKept
<1> QED
  BY <1>1, <1>3, <1>6, <1>9, <1>12, <1>13, <1>14, <1>15, <1>16, <1>17, LockMove

=============================================================================
