----------------------------- MODULE NamesTree ------------------------------
(***************************************************************************)
(* Proofs about path names, second part: the steps that change links,        *)
(* entries and inodes keep the invariant of NamesSteps.                      *)
(***************************************************************************)
EXTENDS NamesSteps

\* Steps that need arithmetic or the theory of functions cite SMT.
USE ZenonT(30)

-----------------------------------------------------------------------------
(* Steps that change links or entries and no inode's type                  *)

\* A step that may change links and entries, in directories no other process has locked.
LEMMA TypesKept ==
  ASSUME IInv, NEW p \in Procs, NEW s \in Frames, pr' = [pr EXCEPT ![p] = s],
         stopped = "none", UNCHANGED <<cwd, fd, committed, stopped>>,
         <<dino, dir>>' \in Trees, mem' \in Mem, leak' \in [Inums -> Nat],
         lock' \in [Inums -> Procs \cup {Nobody}],
         \A i \in Inums : dino'[i].type = dino[i].type,
         \A i \in Inums, q \in Procs \ {p} : lock[i] = q => dir'[i] = dir[i],
         \A i \in Inums, q \in Procs \ {p} : lock'[i] = q <=> lock[i] = q,
         TreeInv', Shape(s), Label(s) # "unlink2", Fits(p, s, cwd[p], lock'), InHand(s, fd[p]),
         Tally(cwd[p], fd[p], pr[p], cwd[p], fd[p], s)
  PROVE  IInv'
<1>1. /\ TypeOK' /\ cwd'[p] = cwd[p] /\ fd'[p] = fd[p]
      /\ \A q \in Procs \ {p} : cwd'[q] = cwd[q] /\ fd'[q] = fd[q]
  BY DEF IInv, TypeOK
<1>2. Apart(p)
  BY DEF Apart, IsDir, Alloc
<1>3. \A i \in Inums : (IsDir(i)' <=> IsDir(i)) /\ (Alloc(i)' <=> Alloc(i))
  BY DEF IsDir, Alloc
<1>4. /\ s.x \in Inums0 /\ s.y \in Inums0 /\ s.sym \in Inums0 /\ s.puts \in Seq(Inums)
      /\ cwd[p] \in Inums /\ fd[p] \in Inums0
  BY DEF Frames, IInv, TypeOK
<1>5. Put(s, 1) \in Inums0 /\ Put(s, 2) \in Inums0
  BY SMTT(30), <1>4 DEF Put, Inums0
<1>6. Fits(p, s, cwd[p], lock)'
  BY <1>1, <1>3, <1>4 DEF Fits, Inums0
<1>7. InHand(s, fd[p])'
  BY <1>1, <1>3, <1>4, <1>5 DEF InHand, Live, Inums0
<1>8. CommittedInv'
  BY DEF IInv, CommittedInv
<1> QED
  BY <1>1, <1>2, <1>6, <1>7, <1>8, StepOf DEF Tally

\* The calls that owe an entry to inode i, or have yet to take one off its count.
LEMMA OwingStep ==
  ASSUME IInv, NEW p \in Procs, NEW s, pr' = [pr EXCEPT ![p] = s], NEW i \in Inums
  PROVE  /\ Cardinality(Owing(i)) \in Nat /\ Cardinality(Owing(i)') \in Nat
         /\ (Owes(s, i) <=> Owes(pr[p], i)) => Owing(i)' = Owing(i)
         /\ Owes(s, i) /\ ~Owes(pr[p], i) => Cardinality(Owing(i)') = Cardinality(Owing(i)) + 1
         /\ ~Owes(s, i) /\ Owes(pr[p], i) => Cardinality(Owing(i)') = Cardinality(Owing(i)) - 1
<1>1. pr'[p] = s /\ \A q \in Procs \ {p} : pr'[q] = pr[q]
  BY DEF IInv, TypeOK
<1>2. PICK o : o = Owing(i)
  OBVIOUS
<1>3. PICK o1 : o1 = Owing(i)'
  OBVIOUS
<1>4. /\ \A q : q \in o <=> q \in Procs /\ Owes(pr[q], i)
      /\ \A q : q \in o1 <=> q \in Procs /\ Owes(pr'[q], i)
  BY <1>2, <1>3 DEF Owing, Owes
<1>5. \A q \in Procs \ {p} : q \in o1 <=> q \in o
  BY <1>1, <1>4
<1>6. (p \in o <=> Owes(pr[p], i)) /\ (p \in o1 <=> Owes(s, i))
  BY <1>1, <1>4
<1>7. o \subseteq Procs /\ o1 \subseteq Procs
  BY <1>4
<1>8. /\ Cardinality(o) \in Nat /\ Cardinality(o1) \in Nat
      /\ \A a \in o : Cardinality(o \ {a}) = Cardinality(o) - 1
      /\ \A a \in o1 : Cardinality(o1 \ {a}) = Cardinality(o1) - 1
  <2>1. o \in Pool /\ o1 \in Pool
    BY <1>7 DEF Pool
  <2> QED
    BY <2>1 DEF IInv, Finite
<1>9. (Owes(s, i) <=> Owes(pr[p], i)) => o1 = o
  BY SMTT(30), <1>5, <1>6, <1>7
<1>10. ASSUME Owes(s, i), ~Owes(pr[p], i)
       PROVE  Cardinality(o1) = Cardinality(o) + 1
  <2>1. o = o1 \ {p} /\ p \in o1
    BY <1>5, <1>6, <1>7, <1>10
  <2> QED
    BY SMTT(30), <1>8, <2>1
<1>11. ASSUME ~Owes(s, i), Owes(pr[p], i)
       PROVE  Cardinality(o1) = Cardinality(o) - 1
  <2>1. o1 = o \ {p} /\ p \in o
    BY <1>5, <1>6, <1>7, <1>11
  <2> QED
    BY <1>8, <2>1
<1> QED
  BY <1>2, <1>3, <1>8, <1>9, <1>10, <1>11

\* A step that changes the number of links of one inode, as the calls that owe change.
Relink(i, n) == dino' = [dino EXCEPT ![i].nlink = n]
Counted(r, s, i, n) ==
    /\ \A j \in Inums \ {i} : Owes(s, j) <=> Owes(r, j)
    /\ \/ n = dino[i].nlink + 1 /\ Owes(s, i) /\ ~Owes(r, i)
       \/ n = dino[i].nlink - 1 /\ ~Owes(s, i) /\ Owes(r, i)

\* The steps that count a link: sys_link() before its entry, sys_unlink() after.
LEMMA LinkSteps ==
  ASSUME IInv, NEW p \in Procs, UNCHANGED <<committed, calls>>,
         Link(p) \/ Unlink3(p) \/ LinkBad(p)
  PROVE  IInv'
<1>RelinkTree. ASSUME NEW s, pr' = [pr EXCEPT ![p] = s], dir' = dir,
                      NEW i \in Inums, NEW n \in Int, Relink(i, n), Counted(pr[p], s, i, n)
               PROVE  /\ TreeInv' /\ <<dino, dir>>' \in Trees
                      /\ \A j \in Inums : dino'[j].type = dino[j].type
  <2> USE <1>RelinkTree
  <2>1. /\ dino \in [Inums -> Inode] /\ dir \in [Inums -> [AllNames -> Inums \cup {0}]]
    BY DEF IInv, TypeOK, Trees
  <2>2. /\ dino' \in [Inums -> Inode] /\ \A j \in Inums : dino'[j].type = dino[j].type
        /\ \A j \in Inums \ {i} : dino'[j].nlink = dino[j].nlink
        /\ dino'[i].nlink = n /\ dino[i].nlink \in Int
    BY <2>1 DEF Relink, Inode
  <2>3. <<dino, dir>>' \in Trees
    BY <2>1, <2>2 DEF Trees
  <2>4. /\ Rooted(dino, dir)' /\ EntriesInv'
        /\ \A j \in Inums : Entries(dino, dir, j)' = Entries(dino, dir, j)
    BY <2>2, TypesTree
  <2>7. LinkInv'
    <3> SUFFICES ASSUME NEW j \in Inums, dino'[j].type \in {"file", "dev"}
        PROVE  dino'[j].nlink = Cardinality(Entries(dino, dir, j)') + Cardinality(Owing(j)')
      BY DEF LinkInv
    <3>1. dino[j].nlink = Cardinality(Entries(dino, dir, j)) + Cardinality(Owing(j))
      BY <2>2 DEF IInv, TreeInv, LinkInv
    <3>2. CASE j # i
      <4>1. Owing(j)' = Owing(j)
        BY <3>2, OwingStep DEF Counted
      <4> QED
        BY <2>2, <2>4, <3>1, <3>2, <4>1
    <3>3. CASE j = i
      <4>1. /\ Cardinality(Owing(i)) \in Nat /\ Cardinality(Owing(i)') \in Nat
            /\ \/ n = dino[i].nlink + 1 /\ Cardinality(Owing(i)') = Cardinality(Owing(i)) + 1
               \/ n = dino[i].nlink - 1 /\ Cardinality(Owing(i)') = Cardinality(Owing(i)) - 1
        BY OwingStep DEF Counted
      <4>2. Cardinality(Entries(dino, dir, i)) \in Nat
        <5>1. Entries(dino, dir, i) \in Pool
          BY Pools
        <5> QED
          BY <5>1 DEF IInv, Finite
      <4>3. PICK e, o, o1, m : /\ e = Cardinality(Entries(dino, dir, i)) /\ o = Cardinality(Owing(i))
                               /\ o1 = Cardinality(Owing(i)') /\ m = dino[i].nlink
        OBVIOUS
      <4>4. n = e + o1
        <5>1. /\ e \in Nat /\ o \in Nat /\ o1 \in Nat /\ m = e + o
              /\ (n = m + 1 /\ o1 = o + 1) \/ (n = m - 1 /\ o1 = o - 1)
          BY <3>1, <3>3, <4>1, <4>2, <4>3
        <5> QED
          BY SMTT(30), <5>1
      <4> QED
        BY <2>2, <2>4, <3>3, <4>3, <4>4
    <3> QED
      BY <3>2, <3>3
  <2> QED
    BY <2>2, <2>3, <2>4, <2>7 DEF TreeInv
<1>RelinkStep. ASSUME NEW r, r = pr[p], NEW s \in Frames, pr' = [pr EXCEPT ![p] = s],
                      stopped = "none", UNCHANGED <<dir, cwd, fd, committed, stopped>>,
                      lock' \in [Inums -> Procs \cup {Nobody}],
                      \A j \in Inums, q \in Procs \ {p} : lock'[j] = q <=> lock[j] = q,
                      NEW i \in Inums, NEW l \in Int, Relink(i, l),
                      Counted(r, s, i, l),
                      Shape(s), Label(s) # "unlink2", Fits(p, s, cwd[p], lock'), InHand(s, fd[p]),
                      NEW n, NEW k, Refs(n, k), Owned(r, s, n, k)
               PROVE  IInv'
  <2> USE <1>RelinkStep
  <2>1. mem \in Mem /\ leak \in [Inums -> Nat]
    BY DEF IInv, TypeOK
  <2>2. mem' \in Mem /\ leak' \in [Inums -> Nat]
    BY DEF Refs
  <2>3. Settled(r, s)
    BY <2>1, Balance
  <2>4. Tally(cwd[p], fd[p], r, cwd[p], fd[p], s)
    BY <2>1, <2>2, <2>3, Ledger
  <2>5. /\ TreeInv' /\ <<dino, dir>>' \in Trees
        /\ \A j \in Inums : dino'[j].type = dino[j].type
    BY <1>RelinkTree
  <2>6. \A j \in Inums, q \in Procs \ {p} : lock[j] = q => dir'[j] = dir[j]
    OBVIOUS
  <2> QED
    BY <2>2, <2>4, <2>5, <2>6, TypesKept
\* sys_link() counts the link before it looks for the parent of the new name.
<1>LinkNew. ASSUME NEW r, r = pr[p], r.st = "link", r.x # 0, NEW b, b = Base(p, r.path2),
                   mem' = Iget(Load(mem, r.x), b), Relink(r.x, dino[r.x].nlink + 1),
                   pr' = [pr EXCEPT ![p] = Walk([r EXCEPT !.y = r.x], b, r.path2, TRUE, "link2")],
                   stopped = "none", UNCHANGED <<dir, lock, cwd, fd, leak, committed, stopped>>
            PROVE  IInv'
  <2> USE <1>LinkNew
  <2>1. PICK t : t = [r EXCEPT !.y = r.x]
    OBVIOUS
  <2>2. PICK par \in BOOLEAN : par = TRUE
    OBVIOUS
  <2>3. PICK s : s = Walk(t, b, r.path2, par, "link2")
    OBVIOUS
  <2>4. /\ r \in Frames /\ ShapeAt(r, "link") /\ r.x \in Inums /\ Alloc(r.x) /\ InHand(r, fd[p])
        /\ Label(r) = "link" /\ r.puts = <<>> /\ r.path2 \in Paths /\ r.x \in Inums0
    BY Ready
  <2>5. r.y = 0 /\ r.sym = 0 /\ r.call = "link"
    BY <2>4 DEF ShapeAt, Lookups
  <2>6. b \in Inums /\ b # 0 /\ Alloc(b) /\ "link2" \in Labels
    BY BaseOf DEF Labels
  <2>7. t \in Frames /\ t.call = r.call /\ t.y = r.x /\ t.sym = 0 /\ t.puts = <<>>
    <3>1. t \in Frames
      BY <2>1, <2>4 DEF Frames
    <3> QED
      BY <2>1, <2>4, <2>5, <3>1 DEF Frames
  <2>8. /\ s \in Frames /\ s.call = t.call /\ s.st = "walk" /\ s.x = b /\ s.y = t.y /\ s.sym = t.sym
        /\ s.puts = t.puts /\ s.par = par /\ s.cont = "link2"
    BY SMTT(30), <2>3, <2>4, <2>6, <2>7, WalkFrame
  <2>9. s.call = "link" /\ s.y = r.x /\ s.sym = 0 /\ s.puts = <<>> /\ s.par = TRUE
    BY <2>2, <2>5, <2>7, <2>8
  <2>10. ~Putting(s) /\ Label(s) = "walk" /\ Len(<<>>) <= 2
    BY SMTT(30), <2>8, NoSeq DEF Putting, Label
  <2>11. Shape(s)
    <3>1. ShapeAt(s, "walk")
      BY <2>6, <2>8, <2>9 DEF ShapeAt, Parents, Lookups
    <3> QED
      BY <2>9, <2>10, <3>1 DEF Shape
  <2>12. Put(s, 1) = 0 /\ Put(s, 2) = 0 /\ Put(r, 1) = 0 /\ Put(r, 2) = 0
    BY <2>4, <2>9, PutOfNone
  <2>13. Fits(p, s, cwd[p], lock')
    <3>1. Fits(p, r, cwd[p], lock) /\ ~LocksX(r) /\ ~LocksY(r)
      BY <2>4, Facts DEF LocksX, LocksY
    <3>2. ~LocksX(s) /\ ~LocksY(s) /\ ~HasParent(s) /\ s.call # "symlink" /\ Label(s) # "unlink2"
      BY <2>9, <2>10 DEF LocksX, LocksY, HasParent, Makers
    <3> QED
      BY <3>1, <3>2 DEF Fits
  <2>14. InHand(s, fd[p])
    BY <2>4, <2>6, <2>8, <2>9, <2>12 DEF InHand, Live
  <2>15. /\ \A j \in Inums \ {r.x} : Owes(s, j) <=> Owes(r, j)
         /\ Owes(s, r.x) /\ ~Owes(r, r.x)
    BY <2>4, <2>5, <2>9, ZeroFree DEF Owes
  <2>16. Owned(r, s, b, 0)
    BY SMTT(30), <2>5, <2>8, <2>9, <2>12, ZeroFree DEF Owned, Own, One
  <2>17. Refs(b, 0)
    BY <2>4, <2>6, RefsKept
  <2>18. /\ lock' \in [Inums -> Procs \cup {Nobody}]
         /\ \A j \in Inums, q \in Procs \ {p} : lock'[j] = q <=> lock[j] = q
         /\ dino[r.x].nlink + 1 \in Int
    BY SMTT(30), <2>4 DEF IInv, TypeOK, Trees, Inode
  <2>19. pr' = [pr EXCEPT ![p] = s] /\ Label(s) # "unlink2"
    BY <2>1, <2>2, <2>3, <2>10
  <2>20. PICK l : l = dino[r.x].nlink + 1
    OBVIOUS
  <2>21. l \in Int /\ Relink(r.x, l) /\ Counted(r, s, r.x, l)
    BY <2>15, <2>18, <2>20 DEF Counted
  <2> QED
    BY <2>4, <2>8, <2>11, <2>13, <2>14, <2>16, <2>17, <2>18, <2>19, <2>21, <1>RelinkStep
\* The link count goes down by one: the end of unlink(), or of a link() that failed.
<1>LinkDown. ASSUME NEW r, r = pr[p],
                    \/ r.st = "unlink3" /\ lock' = [lock EXCEPT ![r.y] = Nobody]
                    \/ r.st = "link2" /\ r.x = 0 /\ lock' = lock,
                    Refs(0, 0), Relink(r.y, dino[r.y].nlink - 1),
                    pr' = [pr EXCEPT ![p] = Puts([r EXCEPT !.y = 0], <<r.y>>, "end")],
                    stopped = "none", UNCHANGED <<dir, cwd, fd, committed, stopped>>
             PROVE  IInv'
  <2> USE <1>LinkDown
  <2>1. PICK s : s = Puts([r EXCEPT !.y = 0], <<r.y>>, "end")
    OBVIOUS
  <2>2. /\ r \in Frames /\ ShapeAt(r, r.st) /\ (r.y # 0 => r.y \in Inums /\ Alloc(r.y)) /\ InHand(r, fd[p])
        /\ Label(r) = r.st /\ r.puts = <<>>
    BY Ready
  <2>3. /\ r.y \in Inums /\ Alloc(r.y) /\ r.x = 0 /\ r.sym = 0
        /\ r.call = IF r.st = "link2" THEN "link" ELSE "unlink"
    BY <2>2 DEF ShapeAt
  <2>4. s \in Frames
    <3>1. "put" \in Labels /\ "end" \in Labels /\ <<r.y>> \in Seq(Inums) /\ 0 \in Inums0
      BY SMTT(30), <2>3 DEF Labels, Inums0
    <3> QED
      BY <2>1, <2>2, <3>1 DEF Puts, Frames
  <2>5. /\ s.call = r.call /\ s.st = "put" /\ s.then = "end" /\ s.x = 0 /\ s.y = 0 /\ s.sym = 0
        /\ s.puts = <<r.y>>
    BY <2>1, <2>2, <2>3 DEF Puts, Frames
  <2>6. Putting(s) /\ Label(s) = "end"
    BY <2>5 DEF Putting, Label
  <2>7. Shape(s)
    BY SMTT(30), <2>5, <2>6 DEF Shape, ShapeAt, Parents, Lookups
  <2>8. Put(s, 1) = r.y /\ Put(s, 2) = 0 /\ Put(r, 1) = 0 /\ Put(r, 2) = 0
    BY <2>2, <2>5, PutOfOne, PutOfNone
  <2>9. Fits(p, r, cwd[p], lock) /\ ~LocksX(r) /\ (LocksY(r) <=> r.st = "unlink3")
    BY <2>2, Facts DEF LocksX, LocksY
  <2>10. /\ lock' \in [Inums -> Procs \cup {Nobody}]
         /\ \A j \in Inums, q \in Procs \ {p} : lock'[j] = q <=> lock[j] = q
         /\ \A j \in Inums : lock'[j] # p
    <3>1. CASE lock' = lock /\ r.st = "link2"
      BY <2>9, <3>1 DEF IInv, TypeOK, Fits
    <3>2. CASE lock' = [lock EXCEPT ![r.y] = Nobody] /\ r.st = "unlink3"
      <4>1. Unlocks(p, r.y)
        BY <2>9, <3>2 DEF Fits, Unlocks
      <4> QED
        BY <2>3, <4>1, Released
    <3> QED
      BY <3>1, <3>2
  <2>11. Fits(p, s, cwd[p], lock')
    <3>1. ~LocksX(s) /\ ~LocksY(s) /\ IsDir(cwd[p]) /\ Label(s) # "unlink2" /\ s.call # "symlink"
      BY <2>3, <2>5, <2>6, <2>9 DEF LocksX, LocksY, Fits
    <3> QED
      BY <2>5, <2>10, <3>1 DEF Fits
  <2>12. InHand(s, fd[p])
    BY <2>2, <2>3, <2>5, <2>8 DEF InHand, Live
  <2>13. (\A j \in Inums \ {r.y} : Owes(s, j) <=> Owes(r, j)) /\ ~Owes(s, r.y) /\ Owes(r, r.y)
    BY <2>3, <2>5, ZeroFree DEF Owes
  <2>14. Owned(r, s, 0, 0)
    BY SMTT(30), <2>3, <2>5, <2>8, ZeroFree DEF Owned, Own, One
  <2>15. dino[r.y].nlink - 1 \in Int /\ Label(s) # "unlink2"
    BY SMTT(30), <2>3, <2>6 DEF IInv, TypeOK, Trees, Inode
  <2>16. PICK l : l = dino[r.y].nlink - 1
    OBVIOUS
  <2>17. l \in Int /\ Relink(r.y, l) /\ Counted(r, s, r.y, l)
    BY <2>13, <2>15, <2>16 DEF Counted
  <2> QED
    BY <2>1, <2>3, <2>4, <2>7, <2>10, <2>11, <2>12, <2>14, <2>15, <2>17, <1>RelinkStep
<1>Link. CASE Link(p)
  <2> USE <1>Link
  <2>1. PICK r : r = pr[p]
    OBVIOUS
  <2>2. PICK b : b = Base(p, r.path2)
    OBVIOUS
  <2>3. stopped = "none" /\ r.st = "link" /\ r.x # 0
    BY <2>1 DEF Link, Locks, At
  <2>4. r.x \in Inums /\ Alloc(r.x)
    BY <2>1, <2>3, Ready
  <2>5. ~NoType(r.x)
    BY <2>4 DEF NoType, Alloc
  <2>6. /\ UNCHANGED <<dir, lock, cwd, fd, leak, stopped>>
        /\ \/ /\ mem' = Load(mem, r.x) /\ UNCHANGED dino
              /\ pr' = [pr EXCEPT ![p] = Puts([r EXCEPT !.x = 0], <<r.x>>, "end")]
           \/ /\ mem' = Iget(Load(mem, r.x), b) /\ Relink(r.x, dino[r.x].nlink + 1)
              /\ pr' = [pr EXCEPT ![p] = Walk([r EXCEPT !.y = r.x], b, r.path2, TRUE, "link2")]
    BY <2>1, <2>2, <2>5 DEF Link, Go, Linked, Relink
  <2>7. CASE /\ mem' = Load(mem, r.x) /\ UNCHANGED dino
             /\ pr' = [pr EXCEPT ![p] = Puts([r EXCEPT !.x = 0], <<r.x>>, "end")]
    <3>1. Refs(0, 0) /\ r.st \in {"open", "link", "chdir", "unlink", "up", "name"}
      BY <2>3, <2>4, <2>6, <2>7, RefsKept
    <3> QED
      BY <2>1, <2>3, <2>6, <2>7, <3>1, PutX
  <2>8. CASE /\ mem' = Iget(Load(mem, r.x), b) /\ Relink(r.x, dino[r.x].nlink + 1)
             /\ pr' = [pr EXCEPT ![p] = Walk([r EXCEPT !.y = r.x], b, r.path2, TRUE, "link2")]
    BY <2>1, <2>2, <2>3, <2>6, <2>8, <1>LinkNew
  <2> QED
    BY <2>6, <2>7, <2>8
<1>Unlink3. CASE Unlink3(p)
  <2> USE <1>Unlink3
  <2>1. PICK r : r = pr[p]
    OBVIOUS
  <2>2. /\ stopped = "none" /\ r.st = "unlink3" /\ Relink(r.y, dino[r.y].nlink - 1)
        /\ lock' = [lock EXCEPT ![r.y] = Nobody]
        /\ pr' = [pr EXCEPT ![p] = Puts([r EXCEPT !.y = 0], <<r.y>>, "end")]
        /\ UNCHANGED <<dir, mem, cwd, fd, leak, stopped>>
    BY <2>1 DEF Unlink3, At, Go, Relink
  <2>3. Refs(0, 0)
    BY <2>2, RefsKept
  <2> QED
    BY <2>1, <2>2, <2>3, <1>LinkDown
<1>LinkBad. CASE LinkBad(p)
  <2> USE <1>LinkBad
  <2>1. PICK r : r = pr[p]
    OBVIOUS
  <2>2. /\ stopped = "none" /\ r.st = "link2" /\ r.x = 0 /\ Relink(r.y, dino[r.y].nlink - 1)
        /\ lock' = lock /\ mem' = Load(mem, r.y)
        /\ pr' = [pr EXCEPT ![p] = Puts([r EXCEPT !.y = 0], <<r.y>>, "end")]
        /\ UNCHANGED <<dir, cwd, fd, leak, stopped>>
    BY <2>1 DEF LinkBad, At, Go, Relink, Unlinked
  <2>3. r.y \in Inums
    BY <2>1, <2>2, Ready DEF ShapeAt
  <2>4. Refs(0, 0)
    BY <2>2, <2>3, RefsKept
  <2> QED
    BY <2>1, <2>2, <2>4, <1>LinkDown
<1> QED
  BY <1>Link, <1>Unlink3, <1>LinkBad

-----------------------------------------------------------------------------
(* Panics                                                                  *)

\* After a panic nothing changes.
LEMMA Halt ==
  ASSUME IInv, NEW why, Stop(why), UNCHANGED committed, PanicsKnown'
  PROVE  IInv'
<1>1. UNCHANGED <<dino, dir, mem, lock, pr, cwd, fd, leak, committed>>
  BY DEF Stop, tree
<1>2. TypeOK' /\ CommittedInv' /\ EntriesInv' /\ Rooted(dino, dir)'
  BY <1>1 DEF IInv, TypeOK, CommittedInv, TreeInv, EntriesInv, Rooted, IsDir, Alloc
<1>3. LinkInv' /\ CountInv'
  BY <1>1 DEF IInv, TreeInv, LinkInv, CountInv, Entries, Owing, Owes, Holders, Pointer
<1>4. \A p \in Procs : ProcInv(p)'
  <2> SUFFICES ASSUME NEW p \in Procs
      PROVE  ProcInv(p)'
    OBVIOUS
  <2>1. Shape(pr[p]) /\ Fits(p, pr[p], cwd[p], lock) /\ InHand(pr[p], fd[p])
    BY DEF IInv, ProcInv
  <2>2. Fits(p, pr[p], cwd[p], lock)'
    BY <1>1, <2>1 DEF Fits, IsDir
  <2>3. InHand(pr[p], fd[p])'
    BY <1>1, <2>1 DEF InHand, Live, Alloc
  <2> QED
    BY <1>1, <2>1, <2>2, <2>3 DEF ProcInv
<1> QED
  BY <1>2, <1>3, <1>4, FiniteNext DEF IInv, TreeInv

-----------------------------------------------------------------------------
(* Directory entries                                                       *)

Bit(a, S) == IF a \in S THEN 1 ELSE 0
Debt(r, i) == IF Owes(r, i) THEN 1 ELSE 0

\* Two sets of entries that differ at most in a.
OffBy(E, F, a) == E \cup F \subseteq Inums \X Names /\ F \ {a} = E \ {a}

\* The entry of inode x under name n becomes i, and the calls owe what changes.
Enter(x, n, i) == dir' = [dir EXCEPT ![x][n] = i]
Traded(r, s, u, i) == \A j \in Inums : Debt(s, j) + One(i, j) = Debt(r, j) + One(u, j)

\* Process p may change the entry of directory x under m; a file's inode stays.
Edits(p, x, m) == /\ x \in Inums /\ m \in Names /\ IsDir(x) /\ m \notin {".", ".."}
                  /\ lock[x] \in {Nobody, p}
FilesKept == /\ dino' \in [Inums -> Inode]
             /\ \A j \in Inums : dino'[j].type = dino[j].type
             /\ \A j \in Inums : dino[j].type \in {"file", "dev"} => dino'[j].nlink = dino[j].nlink

\* The steps that make or take away an entry.
LEMMA EntrySteps ==
  ASSUME IInv, NEW p \in Procs, UNCHANGED <<committed, calls>>,
         Unlink2(p) \/ Link2(p)
  PROVE  IInv'
<1>OneEntry. ASSUME NEW E, NEW F, NEW a, OffBy(E, F, a)
             PROVE  /\ Cardinality(E) \in Nat /\ Cardinality(F) \in Nat
                    /\ Cardinality(F) + Bit(a, E) = Cardinality(E) + Bit(a, F)
  <2> USE <1>OneEntry
  <2> USE DEF OffBy
  <2>1. E \in Pool /\ F \in Pool
    BY InPool
  <2>2. /\ Cardinality(E) \in Nat /\ Cardinality(F) \in Nat
        /\ a \in E => Cardinality(E \ {a}) = Cardinality(E) - 1
        /\ a \in F => Cardinality(F \ {a}) = Cardinality(F) - 1
    BY <2>1 DEF IInv, Finite
  <2>3. CASE a \in E /\ a \in F
    <3>1. E = F
      BY SMTT(30), <2>3
    <3> QED
      BY <2>2, <3>1
  <2>4. CASE a \notin E /\ a \notin F
    <3>1. E = F
      BY SMTT(30), <2>4
    <3> QED
      BY <2>2, <3>1
  <2>5. CASE a \in E /\ a \notin F
    <3>1. F = E \ {a}
      BY <2>5
    <3>2. Cardinality(F) = Cardinality(E) - 1
      BY <2>2, <2>5, <3>1
    <3> QED
      BY SMTT(30), <2>2, <2>5, <3>2 DEF Bit
  <2>6. CASE a \notin E /\ a \in F
    <3>1. E = F \ {a}
      BY <2>6
    <3>2. Cardinality(F) = Cardinality(E) + 1
      BY SMTT(30), <2>2, <2>6, <3>1
    <3> QED
      BY SMTT(30), <2>2, <2>6, <3>2 DEF Bit
  <2> QED
    BY <2>3, <2>4, <2>5, <2>6
<1>OwingDebt. ASSUME NEW s, pr' = [pr EXCEPT ![p] = s], NEW i \in Inums
              PROVE  /\ Cardinality(Owing(i)) \in Nat /\ Cardinality(Owing(i)') \in Nat
                     /\ Cardinality(Owing(i)') + Debt(pr[p], i) = Cardinality(Owing(i)) + Debt(s, i)
  <2> USE <1>OwingDebt
  <2>1. PICK n, n1 : n = Cardinality(Owing(i)) /\ n1 = Cardinality(Owing(i)')
    OBVIOUS
  <2>2. /\ n \in Nat /\ n1 \in Nat
        /\ (Owes(s, i) <=> Owes(pr[p], i)) => n1 = n
        /\ Owes(s, i) /\ ~Owes(pr[p], i) => n1 = n + 1
        /\ ~Owes(s, i) /\ Owes(pr[p], i) => n1 = n - 1
    BY <2>1, OwingStep
  <2>3. n1 + Debt(pr[p], i) = n + Debt(s, i)
    BY SMTT(30), <2>2 DEF Debt
  <2> QED
    BY <2>1, <2>2, <2>3
<1>EnterTree. ASSUME NEW r, r = pr[p], NEW s, pr' = [pr EXCEPT ![p] = s],
                     NEW x \in Inums, NEW n \in Names, IsDir(x), NEW i \in Inums0, Live(i), Enter(x, n, i),
                     dino' \in [Inums -> Inode],
                     \A j \in Inums : dino'[j].type = dino[j].type,
                     \A j \in Inums : dino[j].type \in {"file", "dev"} => dino'[j].nlink = dino[j].nlink,
                     NEW u, u = dir[x][n], Traded(r, s, u, i), ~(n \in {".", ".."})
              PROVE  TreeInv' /\ <<dino, dir>>' \in Trees
  <2> USE <1>EnterTree
  <2>1. /\ dino \in [Inums -> Inode] /\ dir \in [Inums -> [AllNames -> Inums \cup {0}]]
        /\ n \in AllNames /\ "." \in AllNames /\ ".." \in AllNames
    BY DEF IInv, TypeOK, Trees, AllNames
  <2>2. /\ dir' \in [Inums -> [AllNames -> Inums \cup {0}]] /\ dir'[x][n] = i
        /\ \A y \in Inums, m \in AllNames : y # x \/ m # n => dir'[y][m] = dir[y][m]
    BY <2>1 DEF Enter, Inums0
  <2>3. <<dino, dir>>' \in Trees
    BY <2>2 DEF Trees
  <2>4. Rooted(dino, dir)'
    <3>1. ROOTINO \in Inums
      BY NamesAssumption
    <3>2. \A y \in Inums, m \in {".", ".."} : dir'[y][m] = dir[y][m] /\ dir[y][m] \in Inums \cup {0}
      BY SMTT(30), <2>1, <2>2
    <3>3. Rooted(dino, dir)
      BY DEF IInv, TreeInv
    <3> QED
      BY SMTT(30), <3>1, <3>2, <3>3 DEF Rooted
  <2>5. EntriesInv'
    <3> SUFFICES ASSUME NEW y \in Inums, NEW m \in AllNames, dino'[y].type = "dir", dir'[y][m] # 0
        PROVE  dino'[dir'[y][m]].type # "none"
      BY DEF EntriesInv, IsDir, Alloc
    <3>1. PICK j \in Inums0 : j = dir'[y][m]
      BY <2>2 DEF Inums0
    <3>2. j \in Inums /\ dino'[j].type = dino[j].type /\ IsDir(y)
      BY <3>1 DEF Inums0, IsDir
    <3>3. CASE y = x /\ m = n
      BY <2>2, <3>1, <3>2, <3>3 DEF Live, Alloc
    <3>4. CASE y # x \/ m # n
      <4>1. j = dir[y][m] /\ j # 0
        BY <2>2, <3>1, <3>4
      <4>2. Alloc(j)
        BY <3>2, <4>1 DEF IInv, TreeInv, EntriesInv
      <4> QED
        BY <3>1, <3>2, <4>2 DEF Alloc
    <3> QED
      BY <3>3, <3>4
  <2>6. LinkInv'
    <3> SUFFICES ASSUME NEW j \in Inums, dino'[j].type \in {"file", "dev"}
        PROVE  dino'[j].nlink = Cardinality(Entries(dino, dir, j)') + Cardinality(Owing(j)')
      BY DEF LinkInv
    <3>1. PICK E : E = Entries(dino, dir, j)
      OBVIOUS
    <3>2. PICK F : F = Entries(dino, dir, j)'
      OBVIOUS
    <3>3. dino'[j].nlink = Cardinality(E) + Cardinality(Owing(j))
      BY <3>1 DEF IInv, TreeInv, LinkInv
    <3>4. E \in SUBSET (Inums \X Names) /\ F \in SUBSET (Inums \X Names)
      BY <3>1, <3>2 DEF Entries
    <3>5. F \ {<<x, n>>} = E \ {<<x, n>>}
      <4>1. ASSUME NEW a \in Inums \X Names, a # <<x, n>>
            PROVE  a \in F <=> a \in E
        <5>1. PICK y \in Inums, m \in Names : a = <<y, m>>
          BY SMTT(30), <4>1
        <5>2. (y # x \/ m # n) /\ m \in AllNames /\ a[1] = y /\ a[2] = m
          BY <4>1, <5>1 DEF AllNames
        <5>3. dir'[y][m] = dir[y][m]
          BY <2>2, <5>2
        <5> QED
          BY <3>1, <3>2, <5>2, <5>3 DEF Entries
      <4> QED
        BY <3>4, <4>1
    <3>6. (<<x, n>> \in E <=> u = j) /\ (<<x, n>> \in F <=> i = j)
      BY <2>2, <3>1, <3>2 DEF Entries, IsDir
    <3>7. Bit(<<x, n>>, E) = One(u, j) /\ Bit(<<x, n>>, F) = One(i, j)
      BY <3>6 DEF Bit, One
    <3>8. OffBy(E, F, <<x, n>>)
      BY <3>4, <3>5 DEF OffBy
    <3>9. /\ Cardinality(E) \in Nat /\ Cardinality(F) \in Nat
          /\ Cardinality(F) + One(u, j) = Cardinality(E) + One(i, j)
      <4>1. /\ Cardinality(E) \in Nat /\ Cardinality(F) \in Nat
            /\ Cardinality(F) + Bit(<<x, n>>, E) = Cardinality(E) + Bit(<<x, n>>, F)
        BY <3>8, <1>OneEntry
      <4> QED
        BY <3>7, <4>1
    <3>10. PICK o, o1 : o = Cardinality(Owing(j)) /\ o1 = Cardinality(Owing(j)')
      OBVIOUS
    <3>11. o \in Nat /\ o1 \in Nat /\ o1 + Debt(r, j) = o + Debt(s, j)
      BY <3>10, <1>OwingDebt
    <3>12. Debt(s, j) + One(i, j) = Debt(r, j) + One(u, j)
      BY DEF Traded
    <3>13. Debt(s, j) \in Nat /\ Debt(r, j) \in Nat /\ One(i, j) \in Nat /\ One(u, j) \in Nat
      BY DEF Debt, One
    <3>14. Cardinality(E) + o = Cardinality(F) + o1
      BY SMTT(30), <3>9, <3>11, <3>12, <3>13
    <3> QED
      BY <3>2, <3>3, <3>10, <3>14
  <2> QED
    BY <2>3, <2>4, <2>5, <2>6 DEF TreeInv
<1>EnterStep. ASSUME NEW r, r = pr[p], NEW s \in Frames, pr' = [pr EXCEPT ![p] = s],
                     stopped = "none", UNCHANGED <<cwd, fd, committed, stopped>>,
                     lock' \in [Inums -> Procs \cup {Nobody}],
                     \A j \in Inums, q \in Procs \ {p} : lock'[j] = q <=> lock[j] = q,
                     NEW x, NEW m, Edits(p, x, m), NEW i \in Inums0, Live(i), Enter(x, m, i), FilesKept,
                     NEW u, u = dir[x][m], Traded(r, s, u, i),
                     Shape(s), Label(s) # "unlink2", Fits(p, s, cwd[p], lock'), InHand(s, fd[p]),
                     NEW n, NEW k, Refs(n, k), Owned(r, s, n, k)
              PROVE  IInv'
  <2> USE <1>EnterStep
  <2>1. mem \in Mem /\ leak \in [Inums -> Nat] /\ dir \in [Inums -> [AllNames -> Inums \cup {0}]]
    BY DEF IInv, TypeOK, Trees
  <2>2. mem' \in Mem /\ leak' \in [Inums -> Nat]
    BY DEF Refs
  <2>3. Settled(r, s)
    BY <2>1, Balance
  <2>4. Tally(cwd[p], fd[p], r, cwd[p], fd[p], s)
    BY <2>1, <2>2, <2>3, Ledger
  <2>5. TreeInv' /\ <<dino, dir>>' \in Trees /\ x \in Inums
    BY <1>EnterTree DEF Edits, FilesKept
  <2>6. \A j \in Inums, q \in Procs \ {p} : lock[j] = q => dir'[j] = dir[j]
    <3>1. \A j \in Inums \ {x} : dir'[j] = dir[j]
      BY <2>1 DEF Enter
    <3> QED
      BY <3>1, NamesAssumption DEF Edits
  <2>7. \A j \in Inums : dino'[j].type = dino[j].type
    BY DEF FilesKept
  <2> QED
    BY <2>2, <2>4, <2>5, <2>6, <2>7, TypesKept
\* A file that an entry names has a link.
<1>Named1. ASSUME NEW x \in Inums, NEW n \in Names, IsDir(x), NEW y \in Inums, dir[x][n] = y,
                  dino[y].type \in {"file", "dev"}
           PROVE  ~(dino[y].nlink < 1)
  <2> USE <1>Named1
  <2>1. PICK e : e = Entries(dino, dir, y)
    OBVIOUS
  <2>2. PICK o : o = Owing(y)
    OBVIOUS
  <2>3. dino[y].nlink = Cardinality(e) + Cardinality(o)
    BY <2>1, <2>2 DEF IInv, TreeInv, LinkInv
  <2>4. e \subseteq Inums \X Names /\ <<x, n>> \in e /\ o \subseteq Procs
    BY <2>1, <2>2 DEF Entries, IsDir, Owing
  <2>5. e \in Pool /\ o \in Pool /\ e # {}
    BY <2>4, InPool
  <2>6. Cardinality(e) \in Nat /\ Cardinality(o) \in Nat
    BY <2>5 DEF IInv, Finite
  <2>7. Cardinality(e) # 0
    BY <2>5 DEF IInv, Finite
  <2> QED
    BY SMTT(30), <2>3, <2>6, <2>7
\* sys_unlink() of a directory that is not empty.
<1>UnlinkFull. ASSUME NEW r, r = pr[p], r.st = "unlink2", Refs(0, 0),
                      pr' = [pr EXCEPT ![p] = Puts([r EXCEPT !.y = 0], <<r.y>>, "unlinkbad")],
                      stopped = "none", UNCHANGED <<dino, dir, lock, cwd, fd, committed, stopped>>
               PROVE  IInv'
  <2> USE <1>UnlinkFull
  <2>1. PICK s : s = Puts([r EXCEPT !.y = 0], <<r.y>>, "unlinkbad")
    OBVIOUS
  <2>2. /\ r \in Frames /\ ShapeAt(r, "unlink2") /\ (r.y # 0 => r.y \in Inums /\ Alloc(r.y)) /\ InDirs(r)
        /\ Label(r) = "unlink2" /\ r.puts = <<>> /\ InHand(r, fd[p])
    BY Ready
  <2>3. r.y \in Inums /\ Alloc(r.y) /\ r.x # 0 /\ r.sym = 0 /\ r.call = "unlink"
    BY <2>2 DEF ShapeAt
  <2>4. s \in Frames
    <3>1. "put" \in Labels /\ "unlinkbad" \in Labels /\ <<r.y>> \in Seq(Inums) /\ 0 \in Inums0
      BY SMTT(30), <2>3 DEF Labels, Inums0
    <3> QED
      BY <2>1, <2>2, <3>1 DEF Puts, Frames
  <2>5. /\ s.call = "unlink" /\ s.st = "put" /\ s.then = "unlinkbad" /\ s.x = r.x /\ s.y = 0 /\ s.sym = 0
        /\ s.puts = <<r.y>>
    BY <2>1, <2>2, <2>3 DEF Puts, Frames
  <2>6. Putting(s) /\ Label(s) = "unlinkbad"
    BY <2>5 DEF Putting, Label
  <2>7. Shape(s)
    BY SMTT(30), <2>3, <2>5, <2>6 DEF Shape, ShapeAt, Parents, Lookups
  <2>8. Put(s, 1) = r.y /\ Put(s, 2) = 0 /\ Put(r, 1) = 0 /\ Put(r, 2) = 0
    BY <2>2, <2>5, PutOfOne, PutOfNone
  <2>9. Fits(p, r, cwd[p], lock) /\ LocksX(r) /\ ~LocksY(r) /\ LocksX(s) /\ ~LocksY(s)
    BY <2>2, <2>6, Facts DEF LocksX, LocksY
  <2>10. Fits(p, s, cwd[p], lock')
    <3>1. Label(s) # "unlink2" /\ IsDir(r.x) /\ lock' = lock
      BY <2>2, <2>3, <2>6 DEF InDirs, HasParent
    <3> QED
      BY <2>5, <2>9, <3>1 DEF Fits
  <2>11. InHand(s, fd[p])
    BY <2>2, <2>3, <2>5, <2>8 DEF InHand, Live
  <2>12. \A j \in Inums : Owes(s, j) <=> Owes(r, j)
    BY <2>3, <2>5 DEF Owes
  <2>13. Owned(r, s, 0, 0)
    BY SMTT(30), <2>3, <2>5, <2>8, ZeroFree DEF Owned, Own, One
  <2>14. /\ lock' \in [Inums -> Procs \cup {Nobody}]
         /\ \A j \in Inums, q \in Procs \ {p} : lock'[j] = q <=> lock[j] = q
    BY DEF IInv, TypeOK
  <2> QED
    BY <2>1, <2>4, <2>7, <2>10, <2>11, <2>12, <2>13, <2>14, LockMove
\* The entry goes, with both inodes locked.
<1>UnlinkEntry. ASSUME NEW r, r = pr[p], r.st = "unlink2", lock[r.y] = Nobody,
                       Refs(0, 0), Enter(r.x, r.nm, 0), NEW l \in Int, Relink(r.x, l),
                       lock' = [lock EXCEPT ![r.x] = Nobody, ![r.y] = p],
                       pr' = [pr EXCEPT ![p] = Puts([r EXCEPT !.x = 0], <<r.x>>, "unlink3")],
                       stopped = "none", UNCHANGED <<cwd, fd, committed, stopped>>
                PROVE  IInv'
  <2> USE <1>UnlinkEntry
  <2>1. PICK s : s = Puts([r EXCEPT !.x = 0], <<r.x>>, "unlink3")
    OBVIOUS
  <2>2. /\ r \in Frames /\ ShapeAt(r, "unlink2") /\ (r.y # 0 => r.y \in Inums /\ Alloc(r.y)) /\ InDirs(r)
        /\ (r.x # 0 => r.x \in Inums /\ Alloc(r.x)) /\ r.nm \in AllNames
        /\ Label(r) = "unlink2" /\ r.puts = <<>> /\ InHand(r, fd[p])
    BY Ready
  <2>3. /\ r.y \in Inums /\ Alloc(r.y) /\ r.x \in Inums /\ Alloc(r.x) /\ r.x # 0 /\ r.y # 0
        /\ r.sym = 0 /\ r.call = "unlink"
    BY <2>2, ZeroFree DEF ShapeAt
  <2>4. IsDir(r.x)
    BY <2>2, <2>3 DEF InDirs, HasParent
  <2>5. /\ lock[r.x] = p /\ r.nm \notin {".", ".."} /\ dir[r.x][r.nm] = r.y /\ IsDir(cwd[p])
        /\ \A j \in Inums : lock[j] = p => r.x = j
    BY SMTT(30), <2>2, Facts DEF Fits, LocksX, LocksY
  <2>6. r.nm \in Names /\ r.x # r.y /\ lock[r.x] \in {Nobody, p}
    BY <2>2, <2>5, NamesAssumption DEF AllNames
  <2>7. s \in Frames
    <3>1. "put" \in Labels /\ "unlink3" \in Labels /\ <<r.x>> \in Seq(Inums) /\ 0 \in Inums0
      BY SMTT(30), <2>3 DEF Labels, Inums0
    <3> QED
      BY <2>1, <2>2, <3>1 DEF Puts, Frames
  <2>8. /\ s.call = "unlink" /\ s.st = "put" /\ s.then = "unlink3" /\ s.x = 0 /\ s.y = r.y /\ s.sym = 0
        /\ s.puts = <<r.x>>
    BY <2>1, <2>2, <2>3 DEF Puts, Frames
  <2>9. Putting(s) /\ Label(s) = "unlink3" /\ Label(s) # "unlink2"
    BY <2>8 DEF Putting, Label
  <2>10. Shape(s)
    BY SMTT(30), <2>3, <2>8, <2>9 DEF Shape, ShapeAt, Parents, Lookups
  <2>11. Put(s, 1) = r.x /\ Put(s, 2) = 0 /\ Put(r, 1) = 0 /\ Put(r, 2) = 0
    BY <2>2, <2>8, PutOfOne, PutOfNone
  <2>12. /\ lock' \in [Inums -> Procs \cup {Nobody}]
         /\ \A j \in Inums, q \in Procs \ {p} : lock'[j] = q <=> lock[j] = q
         /\ lock'[r.y] = p /\ \A j \in Inums : lock'[j] = p => r.y = j
    <3>1. lock \in [Inums -> Procs \cup {Nobody}]
      BY DEF IInv, TypeOK
    <3> QED
      BY <2>3, <2>5, <2>6, <3>1, NamesAssumption
  <2>13. Fits(p, s, cwd[p], lock')
    <3>1. ~LocksX(s) /\ LocksY(s) /\ s.call # "symlink"
      BY <2>8, <2>9 DEF LocksX, LocksY
    <3> QED
      BY <2>5, <2>8, <2>9, <2>12, <3>1 DEF Fits
  <2>14. InHand(s, fd[p])
    BY <2>2, <2>3, <2>8, <2>11 DEF InHand, Live
  <2>15. PICK z \in Inums0 : z = 0
    BY DEF Inums0
  <2>16. Traded(r, s, r.y, z) /\ Live(z) /\ Enter(r.x, r.nm, z)
    BY SMTT(30), <2>3, <2>8, <2>15, ZeroFree DEF Traded, Debt, Owes, One, Live
  <2>17. Owned(r, s, 0, 0)
    BY SMTT(30), <2>3, <2>8, <2>11, ZeroFree DEF Owned, Own, One
  <2>18. FilesKept
    <3>1. dino \in [Inums -> Inode]
      BY DEF IInv, TypeOK, Trees
    <3> QED
      BY <2>3, <2>4, <3>1 DEF Relink, Inode, IsDir, FilesKept
  <2>19. pr' = [pr EXCEPT ![p] = s] /\ r.y = dir[r.x][r.nm] /\ Edits(p, r.x, r.nm)
    BY <2>1, <2>3, <2>4, <2>5, <2>6 DEF Edits
  <2> QED
    <3>1. PICK x, m, u : x = r.x /\ m = r.nm /\ u = r.y
      OBVIOUS
    <3>2. /\ Edits(p, x, m) /\ u = dir[x][m] /\ Traded(r, s, u, z) /\ Enter(x, m, z) /\ Live(z)
          /\ Label(s) # "unlink2" /\ pr' = [pr EXCEPT ![p] = s]
          /\ lock' \in [Inums -> Procs \cup {Nobody}]
          /\ \A j \in Inums, q \in Procs \ {p} : lock'[j] = q <=> lock[j] = q
      BY <2>9, <2>12, <2>16, <2>19, <3>1
    <3> QED
      BY <2>7, <2>10, <2>13, <2>14, <2>17, <2>18, <3>2, <1>EnterStep
<1>PutOfTwo. \A r, w, v : r.puts = <<w, v>> => Put(r, 1) = w /\ Put(r, 2) = v
  <2> TAKE r, w, v
  <2> HAVE r.puts = <<w, v>>
  <2>1. Len(<<w, v>>) = 2 /\ <<w, v>>[1] = w /\ <<w, v>>[2] = v
    OBVIOUS
  <2>2. Len(r.puts) >= 1 /\ Len(r.puts) >= 2
    BY SMTT(30), <2>1
  <2> QED
    BY <2>1, <2>2 DEF Put
\* dirlink() finds the name, and puts its inode with the parent locked.
<1>LinkExists. ASSUME NEW r, r = pr[p], r.st = "link2", r.x # 0, lock[r.x] = Nobody,
                      NEW i \in Inums, Alloc(i),
                      mem' = Iget(Load(mem, r.x), i), lock' = [lock EXCEPT ![r.x] = p],
                      pr' = [pr EXCEPT ![p] = Puts(r, <<i>>, "linkfail")],
                      stopped = "none", UNCHANGED <<dino, dir, cwd, fd, leak, committed, stopped>>
               PROVE  IInv'
  <2> USE <1>LinkExists
  <2>1. PICK s : s = Puts(r, <<i>>, "linkfail")
    OBVIOUS
  <2>2. /\ r \in Frames /\ ShapeAt(r, "link2") /\ InDirs(r) /\ r.x \in Inums
        /\ Label(r) = "link2" /\ r.puts = <<>> /\ InHand(r, fd[p])
    BY Ready
  <2>3. r.y # 0 /\ r.sym = 0 /\ r.call = "link" /\ IsDir(r.x)
    BY <2>2 DEF ShapeAt, InDirs, HasParent
  <2>4. s \in Frames
    <3>1. "put" \in Labels /\ "linkfail" \in Labels /\ <<i>> \in Seq(Inums)
      BY SMTT(30) DEF Labels
    <3> QED
      BY <2>1, <2>2, <3>1 DEF Puts, Frames
  <2>5. /\ s.call = "link" /\ s.st = "put" /\ s.then = "linkfail" /\ s.x = r.x /\ s.y = r.y /\ s.sym = 0
        /\ s.puts = <<i>>
    BY <2>1, <2>2, <2>3 DEF Puts, Frames
  <2>6. Putting(s) /\ Label(s) = "linkfail"
    BY <2>5 DEF Putting, Label
  <2>7. Shape(s)
    BY SMTT(30), <2>3, <2>5, <2>6 DEF Shape, ShapeAt, Parents, Lookups
  <2>8. Put(s, 1) = i /\ Put(s, 2) = 0 /\ Put(r, 1) = 0 /\ Put(r, 2) = 0
    BY <2>2, <2>5, PutOfOne, PutOfNone
  <2>9. /\ lock' \in [Inums -> Procs \cup {Nobody}] /\ lock'[r.x] = p
        /\ \A j \in Inums, q \in Procs \ {p} : lock'[j] = q <=> lock[j] = q
        /\ \A j \in Inums : lock'[j] = p => j = r.x \/ lock[j] = p
    BY <2>2, Taken
  <2>10. Fits(p, s, cwd[p], lock')
    <3>1. Fits(p, r, cwd[p], lock) /\ ~LocksX(r) /\ ~LocksY(r) /\ LocksX(s) /\ ~LocksY(s)
      BY <2>2, <2>6, Facts DEF LocksX, LocksY
    <3>2. \A j \in Inums : lock'[j] = p => j = r.x
      BY <2>9, <3>1 DEF Fits
    <3>3. IsDir(cwd[p]) /\ Label(s) # "unlink2" /\ s.call # "symlink"
      BY <2>5, <2>6, <3>1 DEF Fits
    <3> QED
      BY <2>3, <2>5, <2>9, <3>1, <3>2, <3>3 DEF Fits
  <2>11. InHand(s, fd[p])
    BY <2>2, <2>5, <2>8 DEF InHand, Live
  <2>12. \A j \in Inums : Owes(s, j) <=> Owes(r, j)
    BY <2>3, <2>5 DEF Owes
  <2>13. Owned(r, s, i, 0)
    BY SMTT(30), <2>3, <2>5, <2>8, ZeroFree DEF Owned, Own, One
  <2>14. Refs(i, 0)
    BY <2>2, RefsKept
  <2> QED
    BY <2>1, <2>4, <2>7, <2>9, <2>10, <2>11, <2>12, <2>13, <2>14, LockMove
\* dirlink(): the new entry, which sys_link() has counted.
<1>LinkEntry. ASSUME NEW r, r = pr[p], r.st = "link2", r.x # 0, lock[r.x] = Nobody,
                     dir[r.x][r.nm] = 0, mem' = Load(mem, r.x), Enter(r.x, r.nm, r.y),
                     pr' = [pr EXCEPT ![p] = Puts([r EXCEPT !.x = 0, !.y = 0], <<r.x, r.y>>, "end")],
                     stopped = "none", UNCHANGED <<dino, lock, cwd, fd, leak, committed, stopped>>
              PROVE  IInv'
  <2> USE <1>LinkEntry
  <2>1. PICK s : s = Puts([r EXCEPT !.x = 0, !.y = 0], <<r.x, r.y>>, "end")
    OBVIOUS
  <2>2. /\ r \in Frames /\ ShapeAt(r, "link2") /\ (r.y # 0 => r.y \in Inums /\ Alloc(r.y)) /\ InDirs(r)
        /\ r.x \in Inums /\ Alloc(r.x) /\ r.nm \in AllNames /\ r.y \in Inums0
        /\ Label(r) = "link2" /\ r.puts = <<>> /\ InHand(r, fd[p])
    BY Ready
  <2>3. r.y \in Inums /\ Alloc(r.y) /\ r.sym = 0 /\ r.call = "link"
    BY <2>2 DEF ShapeAt
  <2>4. IsDir(r.x)
    BY <2>2 DEF InDirs, HasParent
  <2>5. Edits(p, r.x, r.nm)
    <3>1. r.nm \notin {".", ".."}
      BY <2>2, <2>4 DEF IInv, TreeInv, Rooted, IsDir
    <3> QED
      BY <2>2, <2>4, <3>1 DEF Edits, AllNames
  <2>6. s \in Frames
    <3>1. "put" \in Labels /\ "end" \in Labels /\ <<r.x, r.y>> \in Seq(Inums) /\ 0 \in Inums0
      BY SMTT(30), <2>2, <2>3 DEF Labels, Inums0
    <3>2. PICK w : w = <<r.x, r.y>>
      OBVIOUS
    <3>3. PICK t : t = [r EXCEPT !.x = 0, !.y = 0]
      OBVIOUS
    <3>4. t \in Frames
      BY <2>2, <3>1, <3>3 DEF Frames
    <3>5. s = Puts(t, w, "end")
      BY <2>1, <3>2, <3>3
    <3> QED
      BY <3>1, <3>2, <3>4, <3>5 DEF Puts, Frames
  <2>7. /\ s.call = "link" /\ s.st = "put" /\ s.then = "end" /\ s.x = 0 /\ s.y = 0 /\ s.sym = 0
        /\ s.puts = <<r.x, r.y>>
    BY <2>1, <2>2, <2>3 DEF Puts, Frames
  <2>8. Putting(s) /\ Label(s) = "end" /\ Label(s) # "unlink2"
    BY <2>7 DEF Putting, Label
  <2>9. Shape(s)
    BY SMTT(30), <2>7, <2>8 DEF Shape, ShapeAt, Parents, Lookups
  <2>10. Put(s, 1) = r.x /\ Put(s, 2) = r.y /\ Put(r, 1) = 0 /\ Put(r, 2) = 0
    BY SMTT(30), <2>2, <2>7, <1>PutOfTwo, PutOfNone
  <2>11. Fits(p, s, cwd[p], lock')
    <3>1. Fits(p, r, cwd[p], lock) /\ ~LocksX(r) /\ ~LocksY(r)
      BY <2>2, Facts DEF LocksX, LocksY
    <3>2. ~LocksX(s) /\ ~LocksY(s) /\ s.call # "symlink"
      BY <2>7, <2>8 DEF LocksX, LocksY
    <3> QED
      BY <2>7, <2>8, <3>1, <3>2 DEF Fits
  <2>12. InHand(s, fd[p])
    BY <2>2, <2>3, <2>7, <2>10 DEF InHand, Live
  <2>13. Traded(r, s, 0, r.y) /\ Live(r.y)
    BY SMTT(30), <2>3, <2>7, ZeroFree DEF Traded, Debt, Owes, One, Live
  <2>14. Owned(r, s, 0, 0)
    BY SMTT(30), <2>3, <2>7, <2>10, ZeroFree DEF Owned, Own, One
  <2>15. FilesKept
    BY DEF IInv, TypeOK, Trees, FilesKept
  <2>16. /\ lock' \in [Inums -> Procs \cup {Nobody}]
         /\ \A j \in Inums, q \in Procs \ {p} : lock'[j] = q <=> lock[j] = q
    BY DEF IInv, TypeOK
  <2>17. Refs(0, 0)
    BY <2>2, RefsKept
  <2> QED
    <3>1. PICK x, m, u, i : x = r.x /\ m = r.nm /\ u = 0 /\ i = r.y
      OBVIOUS
    <3>2. /\ Edits(p, x, m) /\ u = dir[x][m] /\ Traded(r, s, u, i) /\ Enter(x, m, i) /\ Live(i)
          /\ Label(s) # "unlink2" /\ pr' = [pr EXCEPT ![p] = s] /\ i \in Inums0
      BY <2>1, <2>2, <2>5, <2>8, <2>13, <3>1
    <3> QED
      BY <2>6, <2>9, <2>11, <2>12, <2>14, <2>15, <2>16, <2>17, <3>2, <1>EnterStep
<1>Unlink2. CASE Unlink2(p)
  <2> USE <1>Unlink2
  <2>1. PICK r : r = pr[p]
    OBVIOUS
  <2>2. stopped = "none" /\ r.st = "unlink2" /\ lock[r.y] = Nobody
    BY <2>1 DEF Unlink2, Locks, At
  <2>3. /\ ShapeAt(r, "unlink2") /\ (r.y # 0 => r.y \in Inums /\ Alloc(r.y)) /\ InDirs(r)
        /\ (r.x # 0 => r.x \in Inums) /\ r.nm \in AllNames /\ Label(r) = "unlink2"
    BY <2>1, <2>2, Ready
  <2>4. r.y \in Inums /\ Alloc(r.y) /\ r.x \in Inums /\ IsDir(r.x)
    BY <2>3, ZeroFree DEF ShapeAt, InDirs, HasParent
  <2>5. ~NoType(r.y)
    BY <2>4 DEF NoType, Alloc
  <2>6. PICK l : l = dino[r.x].nlink - (IF dino[r.y].type = "dir" THEN 1 ELSE 0)
    OBVIOUS
  <2>7. \/ Stop("unlink: nlink < 1") /\ dino[r.y].nlink < 1
        \/ /\ mem' = Load(mem, r.y) /\ UNCHANGED <<cwd, fd, leak, stopped>>
           /\ \/ /\ pr' = [pr EXCEPT ![p] = Puts([r EXCEPT !.y = 0], <<r.y>>, "unlinkbad")]
                 /\ UNCHANGED <<dino, dir, lock>>
              \/ /\ Enter(r.x, r.nm, 0) /\ Relink(r.x, l)
                 /\ lock' = [lock EXCEPT ![r.x] = Nobody, ![r.y] = p]
                 /\ pr' = [pr EXCEPT ![p] = Puts([r EXCEPT !.x = 0], <<r.x>>, "unlink3")]
    BY <2>1, <2>5, <2>6 DEF Unlink2, Go, Enter, Relink, tree
  <2>8. CASE Stop("unlink: nlink < 1") /\ dino[r.y].nlink < 1
    <3>1. dir[r.x][r.nm] = r.y /\ r.nm \in Names
      BY <2>1, <2>3, Facts DEF Fits, AllNames
    <3>2. dino[r.y].type \notin {"file", "dev"}
      BY <2>4, <2>8, <3>1, <1>Named1
    <3>3. dino[r.y].type \in {"symlink", "dir"}
      <4>1. dino[r.y].type \in Types
        BY <2>4 DEF IInv, TypeOK, Trees, Inode
      <4> QED
        BY <2>4, <3>2, <4>1 DEF Types, Alloc
    <3>4. pr' = pr /\ dino' = dino /\ stopped' = "unlink: nlink < 1"
      BY <2>8 DEF Stop, tree
    <3>5. PanicsKnown'
      BY <2>1, <2>2, <3>3, <3>4 DEF PanicsKnown
    <3> QED
      BY <2>8, <3>5, Halt
  <2>9. CASE /\ mem' = Load(mem, r.y) /\ UNCHANGED <<cwd, fd, leak, stopped>>
             /\ pr' = [pr EXCEPT ![p] = Puts([r EXCEPT !.y = 0], <<r.y>>, "unlinkbad")]
             /\ UNCHANGED <<dino, dir, lock>>
    <3>1. Refs(0, 0)
      BY <2>4, <2>9, RefsKept
    <3> QED
      BY <2>1, <2>2, <2>9, <3>1, <1>UnlinkFull
  <2>10. CASE /\ mem' = Load(mem, r.y) /\ UNCHANGED <<cwd, fd, leak, stopped>>
              /\ Enter(r.x, r.nm, 0) /\ Relink(r.x, l)
              /\ lock' = [lock EXCEPT ![r.x] = Nobody, ![r.y] = p]
              /\ pr' = [pr EXCEPT ![p] = Puts([r EXCEPT !.x = 0], <<r.x>>, "unlink3")]
    <3>1. Refs(0, 0)
      BY <2>4, <2>10, RefsKept
    <3>2. l \in Int
      BY SMTT(30), <2>4, <2>6 DEF IInv, TypeOK, Trees, Inode
    <3> QED
      BY <2>1, <2>2, <2>10, <3>1, <3>2, <1>UnlinkEntry
  <2> QED
    BY <2>7, <2>8, <2>9, <2>10
<1>Link2. CASE Link2(p)
  <2> USE <1>Link2
  <2>1. PICK r : r = pr[p]
    OBVIOUS
  <2>2. PICK i : i = dir[r.x][r.nm]
    OBVIOUS
  <2>3. stopped = "none" /\ r.st = "link2" /\ r.x # 0 /\ lock[r.x] = Nobody
    BY <2>1 DEF Link2, Locks, At
  <2>4. InDirs(r) /\ r.x \in Inums /\ r.nm \in AllNames /\ Label(r) = "link2"
    BY <2>1, <2>3, Ready
  <2>5. i \in Inums0 /\ (i # 0 => i \in Inums /\ Alloc(i))
    <3>1. IsDir(r.x)
      BY <2>3, <2>4 DEF InDirs, HasParent
    <3> QED
      BY <2>2, <2>4, <3>1, EntryIs
  <2>6. /\ UNCHANGED <<dino, cwd, fd, leak, stopped>>
        /\ \/ /\ i # 0 /\ mem' = Iget(Load(mem, r.x), i)
              /\ lock' = [lock EXCEPT ![r.x] = p] /\ UNCHANGED dir
              /\ pr' = [pr EXCEPT ![p] = Puts(r, <<i>>, "linkfail")]
           \/ /\ i = 0 /\ mem' = Load(mem, r.x) /\ Enter(r.x, r.nm, r.y) /\ UNCHANGED lock
              /\ pr' = [pr EXCEPT ![p] = Puts([r EXCEPT !.x = 0, !.y = 0], <<r.x, r.y>>, "end")]
    BY <2>1, <2>2 DEF Link2, Go, Enter
  <2>7. CASE /\ i # 0 /\ mem' = Iget(Load(mem, r.x), i)
             /\ lock' = [lock EXCEPT ![r.x] = p] /\ UNCHANGED dir
             /\ pr' = [pr EXCEPT ![p] = Puts(r, <<i>>, "linkfail")]
    BY <2>1, <2>3, <2>5, <2>6, <2>7, <1>LinkExists
  <2>8. CASE /\ i = 0 /\ mem' = Load(mem, r.x) /\ Enter(r.x, r.nm, r.y) /\ UNCHANGED lock
             /\ pr' = [pr EXCEPT ![p] = Puts([r EXCEPT !.x = 0, !.y = 0], <<r.x, r.y>>, "end")]
    BY <2>1, <2>2, <2>3, <2>6, <2>8, <1>LinkEntry
  <2> QED
    BY <2>6, <2>7, <2>8
<1> QED
  BY <1>Unlink2, <1>Link2

-----------------------------------------------------------------------------
(* New inodes                                                              *)

\* Inode i, which was free, is made under the name n in directory x.
Born(x, n, i) ==
    /\ ~Alloc(i) /\ <<dino, dir>>' \in Trees
    /\ \A j \in Inums \ {i} : dino'[j].type = dino[j].type
    /\ \A j \in Inums \ {i} : dino[j].type \in {"file", "dev"} => dino'[j].nlink = dino[j].nlink
    /\ dino'[i].type # "none" /\ (dino'[i].type \in {"file", "dev"} => dino'[i].nlink = 1)
    /\ dir[x][n] = 0 /\ dir'[x][n] = i
    /\ \A j \in Inums \ {i}, m \in AllNames : j # x \/ m # n => dir'[j][m] = dir[j][m]
    /\ dino'[i].type = "dir" =>
         dir'[i]["."] = i /\ dir'[i][".."] = x /\ \A m \in AllNames : dir'[i][m] \in {0, i, x}

\* A new file, directory or device, locked until create() returns.
RowsKept(x, i) == \A j \in Inums : j # i /\ j # x => dir'[j] = dir[j]

\* The steps that make an inode.
LEMMA NewSteps ==
  ASSUME IInv, NEW p \in Procs, UNCHANGED <<committed, calls>>,
         CreateNew(p) \/ Symlink2(p)
  PROVE  IInv'
\* ialloc() finds a free inode.
<1>FreshIs. ASSUME FreeInums # {}
            PROVE  Fresh \in Inums /\ ~Alloc(Fresh)
  <2> USE <1>FreshIs
  <2>1. FreeInums \in SUBSET Inums /\ \A i \in FreeInums : ~Alloc(i)
    BY DEF FreeInums, Alloc
  <2>2. PICK m \in FreeInums : \A k \in FreeInums : m <= k
    BY <2>1 DEF IInv, Finite
  <2>3. Fresh \in FreeInums
    BY <2>2 DEF Fresh
  <2> QED
    BY <2>1, <2>3
\* Nothing names it and no call has it in hand.
<1>FreeAlone. ASSUME NEW i \in Inums, ~Alloc(i)
              PROVE  Entries(dino, dir, i) = {} /\ Owing(i) = {} /\ i # ROOTINO
  <2> USE <1>FreeAlone
  <2>1. ASSUME NEW a \in Entries(dino, dir, i)
        PROVE  FALSE
    <3>1. PICK y \in Inums, m \in Names : a = <<y, m>>
      BY SMTT(30) DEF Entries
    <3>2. dino[y].type = "dir" /\ dir[y][m] = i /\ m \in AllNames
      BY <3>1 DEF Entries, AllNames
    <3> QED
      BY <3>2, ZeroFree DEF IInv, TreeInv, EntriesInv, IsDir
  <2>2. ASSUME NEW q \in Owing(i)
        PROVE  FALSE
    <3>1. q \in Procs /\ pr[q].y = i
      BY DEF Owing, Owes
    <3>2. Live(pr[q].y)
      BY <3>1 DEF IInv, ProcInv, InHand
    <3> QED
      BY <3>1, <3>2, ZeroFree DEF Live
  <2>3. i # ROOTINO
    BY DEF IInv, TreeInv, Rooted, Alloc
  <2> QED
    BY <2>1, <2>2, <2>3
<1>BornTree. ASSUME NEW r, r = pr[p], NEW s, pr' = [pr EXCEPT ![p] = s],
                    NEW x, NEW n, Edits(p, x, n), NEW i \in Inums, Born(x, n, i),
                    \A j \in Inums : Owes(s, j) <=> Owes(r, j)
             PROVE  TreeInv'
  <2> USE <1>BornTree
  <2>1. /\ dir \in [Inums -> [AllNames -> Inums \cup {0}]] /\ dir' \in [Inums -> [AllNames -> Inums \cup {0}]]
    BY DEF IInv, TypeOK, Trees, Born
  <2>2. /\ x \in Inums /\ n \in Names /\ n \in AllNames /\ IsDir(x) /\ x # i
        /\ "." \in AllNames /\ ".." \in AllNames /\ n # "." /\ n # ".."
    BY DEF Edits, Born, IsDir, Alloc, AllNames
  <2>3. dino'[x].type = "dir"
    BY <2>2 DEF Born, IsDir
  <2>4. Rooted(dino, dir)'
    <3>1. Rooted(dino, dir) /\ ROOTINO \in Inums /\ i # ROOTINO
      BY NamesAssumption, <1>FreeAlone DEF IInv, TreeInv, Born
    <3>2. dino'[ROOTINO].type = "dir"
      BY <3>1 DEF Rooted, Born
    <3>3. ASSUME NEW y \in Inums, dino'[y].type = "dir", NEW m \in {".", ".."}
          PROVE  dir'[y][m] # 0 /\ dino'[dir'[y][m]].type = "dir"
      <4>1. CASE y = i
        <5>1. dir'[y][m] \in {i, x}
          BY <3>3, <4>1 DEF Born
        <5> QED
          BY <2>2, <2>3, <3>3, <4>1, <5>1, ZeroFree
      <4>2. CASE y # i
        <5>1. /\ dino[y].type = "dir" /\ dir'[y][m] = dir[y][m] /\ m \in AllNames
          BY SMTT(30), <2>2, <3>3, <4>2 DEF Born
        <5>2. dir[y][m] \in Inums /\ dino[dir[y][m]].type = "dir"
          BY SMTT(30), <2>1, <3>1, <5>1 DEF Rooted
        <5>3. dir[y][m] # i
          BY <5>2 DEF Born, Alloc
        <5> QED
          BY <5>1, <5>2, <5>3, ZeroFree DEF Born
      <4> QED
        BY <4>1, <4>2
    <3> QED
      BY <3>2, <3>3 DEF Rooted
  <2>5. EntriesInv'
    <3> SUFFICES ASSUME NEW y \in Inums, NEW m \in AllNames, dino'[y].type = "dir", dir'[y][m] # 0
        PROVE  dino'[dir'[y][m]].type # "none"
      BY DEF EntriesInv, IsDir, Alloc
    <3>1. CASE dir'[y][m] \in {i, x}
      BY <2>3, <3>1 DEF Born
    <3>2. CASE dir'[y][m] \notin {i, x}
      <4>1. y # i /\ (y # x \/ m # n)
        BY <3>2 DEF Born
      <4>2. dir'[y][m] = dir[y][m] /\ dino[y].type = "dir"
        BY <4>1 DEF Born
      <4>3. dir[y][m] \in Inums /\ dino[dir[y][m]].type # "none"
        BY SMTT(30), <2>1, <4>2 DEF IInv, TreeInv, EntriesInv, IsDir, Alloc
      <4> QED
        BY <3>2, <4>2, <4>3 DEF Born
    <3> QED
      BY <3>1, <3>2
  <2>6. LinkInv'
    <3> SUFFICES ASSUME NEW j \in Inums, dino'[j].type \in {"file", "dev"}
        PROVE  dino'[j].nlink = Cardinality(Entries(dino, dir, j)') + Cardinality(Owing(j)')
      BY DEF LinkInv
    <3>1. PICK E : E = Entries(dino, dir, j)
      OBVIOUS
    <3>2. PICK F : F = Entries(dino, dir, j)'
      OBVIOUS
    <3>3. Owing(j)' = Owing(j)
      BY OwingStep
    <3>4. E \subseteq Inums \X Names /\ F \subseteq Inums \X Names
      BY <3>1, <3>2 DEF Entries
    <3>5. ASSUME NEW a \in Inums \X Names
          PROVE  a \in F <=> a \in E \/ (j = i /\ a = <<x, n>>)
      <4>1. PICK y \in Inums, m \in Names : a = <<y, m>>
        BY SMTT(30)
      <4>2. m \in AllNames /\ (a \in E <=> dino[y].type = "dir" /\ dir[y][m] = j)
            /\ (a \in F <=> dino'[y].type = "dir" /\ dir'[y][m] = j)
        BY <3>1, <3>2, <4>1 DEF Entries, AllNames
      <4>3. CASE y = i
        <5>1. a \notin E
          BY <4>2, <4>3 DEF Born, Alloc
        <5>2. a \notin F
          BY <2>3, <4>2, <4>3, ZeroFree DEF Born
        <5> QED
          BY <2>2, <4>1, <4>3, <5>1, <5>2
      <4>4. CASE y # i /\ (y # x \/ m # n)
        BY <4>1, <4>2, <4>4 DEF Born
      <4>5. CASE y = x /\ m = n
        BY <2>2, <2>3, <4>1, <4>2, <4>5, ZeroFree DEF Born, IsDir
      <4> QED
        BY <4>3, <4>4, <4>5
    <3>6. CASE j = i
      <4>1. F = {<<x, n>>} /\ Owing(j)' = {}
        BY SMTT(30), <2>2, <3>1, <3>3, <3>4, <3>5, <3>6, <1>FreeAlone DEF Born
      <4>2. Cardinality({<<x, n>>}) = 1 /\ Cardinality({}) = 0
        <5>1. PICK S : S = {<<x, n>>}
          OBVIOUS
        <5>2. S \in Pool /\ {} \in Pool /\ <<x, n>> \in S /\ S \ {<<x, n>>} = {}
          <6>1. S \subseteq Inums \X Names /\ <<x, n>> \in S /\ S \ {<<x, n>>} = {}
            BY SMTT(30), <2>2, <5>1
          <6> QED
            BY <6>1, InPool, Pools
        <5>3. Cardinality({}) = 0 /\ Cardinality(S) \in Nat /\ Cardinality({}) = Cardinality(S) - 1
          BY <5>2 DEF IInv, Finite
        <5>4. PICK m : m = Cardinality(S)
          OBVIOUS
        <5>5. m = 1
          BY SMTT(30), <5>3, <5>4
        <5> QED
          BY <5>1, <5>3, <5>4, <5>5
      <4>3. dino'[j].nlink = 1 + 0
        BY SMTT(30), <3>6 DEF Born
      <4> QED
        BY <3>2, <4>1, <4>2, <4>3
    <3>7. CASE j # i
      <4>1. F = E
        BY <3>4, <3>5, <3>7
      <4>2. dino'[j].nlink = dino[j].nlink /\ dino[j].type \in {"file", "dev"}
        BY <3>7 DEF Born
      <4>3. dino[j].nlink = Cardinality(E) + Cardinality(Owing(j))
        BY <3>1, <4>2 DEF IInv, TreeInv, LinkInv
      <4> QED
        BY <3>2, <3>3, <4>1, <4>2, <4>3
    <3> QED
      BY <3>6, <3>7
  <2> QED
    BY <2>4, <2>5, <2>6 DEF TreeInv
<1>BornStep. ASSUME NEW r, r = pr[p], NEW s \in Frames, pr' = [pr EXCEPT ![p] = s],
                    stopped = "none", UNCHANGED <<cwd, fd, committed, stopped>>,
                    lock' \in [Inums -> Procs \cup {Nobody}],
                    \A j \in Inums, q \in Procs \ {p} : lock'[j] = q <=> lock[j] = q,
                    \A j \in Inums, q \in Procs \ {p} : lock[j] = q => dir'[j] = dir[j],
                    NEW x, NEW n, Edits(p, x, n), NEW i \in Inums, Born(x, n, i),
                    \A j \in Inums : Owes(s, j) <=> Owes(r, j),
                    Shape(s), Fits(p, s, cwd[p], lock)', InHand(s, fd[p])',
                    NEW g, NEW k, Refs(g, k), Owned(r, s, g, k)
             PROVE  IInv'
  <2> USE <1>BornStep
  <2>1. mem \in Mem /\ leak \in [Inums -> Nat]
    BY DEF IInv, TypeOK
  <2>2. mem' \in Mem /\ leak' \in [Inums -> Nat]
    BY DEF Refs
  <2>3. Settled(r, s)
    BY <2>1, Balance
  <2>4. Tally(cwd[p], fd[p], r, cwd[p], fd[p], s)
    BY <2>1, <2>2, <2>3, Ledger
  <2>5. TreeInv' /\ <<dino, dir>>' \in Trees
    <3>1. TreeInv'
      BY <1>BornTree
    <3> QED
      BY <3>1 DEF Born
  <2>6. /\ TypeOK' /\ cwd'[p] = cwd[p] /\ fd'[p] = fd[p] /\ stopped' = "none"
        /\ \A q \in Procs \ {p} : cwd'[q] = cwd[q] /\ fd'[q] = fd[q]
    BY <2>2, <2>5 DEF IInv, TypeOK
  <2>7. Apart(p)
    <3>1. \A j \in Inums : (IsDir(j) => IsDir(j)') /\ (Alloc(j) => Alloc(j)')
      BY DEF Born, IsDir, Alloc
    <3> QED
      BY <3>1 DEF Apart
  <2>8. CommittedInv'
    BY DEF IInv, CommittedInv
  <2> QED
    BY <2>4, <2>5, <2>6, <2>7, <2>8, StepOf DEF Tally
<1>CreateEntry. ASSUME NEW r, r = pr[p], r.st \in Makers, r.x # 0, lock[r.x] = Nobody,
                       NEW i \in Inums, lock[i] = Nobody, Born(r.x, r.nm, i), leak' = leak,
                       RowsKept(r.x, i),
                       mem' = Load(Iget(Load(mem, r.x), i), i), lock' = [lock EXCEPT ![i] = p],
                       pr' = [pr EXCEPT ![p] = Puts([r EXCEPT !.x = 0, !.y = i], <<r.x>>, "made")],
                       stopped = "none", UNCHANGED <<cwd, fd, committed, stopped>>
                PROVE  IInv'
  <2> USE <1>CreateEntry
  <2>1. PICK s : s = Puts([r EXCEPT !.x = 0, !.y = i], <<r.x>>, "made")
    OBVIOUS
  <2>2. /\ r \in Frames /\ ShapeAt(r, r.st) /\ InDirs(r) /\ mem \in Mem /\ leak \in [Inums -> Nat]
        /\ r.x \in Inums /\ Alloc(r.x) /\ r.nm \in AllNames
        /\ Label(r) = r.st /\ r.puts = <<>> /\ InHand(r, fd[p])
    BY Ready DEF Makers
  <2>3. r.y = 0 /\ r.sym = 0 /\ r.call \in Makers
    BY <2>2 DEF ShapeAt, Makers, Parents
  <2>4. IsDir(r.x)
    BY <2>2 DEF InDirs, HasParent
  <2>5. Edits(p, r.x, r.nm)
    <3>1. r.nm \notin {".", ".."}
      BY <2>2, <2>4 DEF IInv, TreeInv, Rooted, IsDir, Born
    <3> QED
      BY <2>2, <2>4, <3>1 DEF Edits, AllNames
  <2>6. s \in Frames
    <3>1. "put" \in Labels /\ "made" \in Labels /\ <<r.x>> \in Seq(Inums) /\ 0 \in Inums0 /\ i \in Inums0
      BY SMTT(30), <2>2 DEF Labels, Inums0
    <3> QED
      BY <2>1, <2>2, <3>1 DEF Puts, Frames
  <2>7. /\ s.call = r.call /\ s.st = "put" /\ s.then = "made" /\ s.x = 0 /\ s.y = i /\ s.sym = 0
        /\ s.puts = <<r.x>>
    BY <2>1, <2>2, <2>3 DEF Puts, Frames
  <2>8. Putting(s) /\ Label(s) = "made"
    BY <2>7 DEF Putting, Label
  <2>9. Shape(s)
    BY SMTT(30), <2>3, <2>7, <2>8, ZeroFree DEF Shape, ShapeAt, Parents, Lookups, Makers
  <2>10. Put(s, 1) = r.x /\ Put(s, 2) = 0 /\ Put(r, 1) = 0 /\ Put(r, 2) = 0
    BY <2>2, <2>7, PutOfOne, PutOfNone
  <2>11. /\ lock' \in [Inums -> Procs \cup {Nobody}] /\ lock'[i] = p
         /\ \A j \in Inums, q \in Procs \ {p} : lock'[j] = q <=> lock[j] = q
         /\ \A j \in Inums : lock'[j] = p => j = i \/ lock[j] = p
    BY Taken
  <2>12. \A j \in Inums : (IsDir(j) => IsDir(j)') /\ (Alloc(j) => Alloc(j)') /\ Alloc(i)'
    BY DEF Born, IsDir, Alloc
  <2>13. Fits(p, s, cwd[p], lock)'
    <3>1. Fits(p, r, cwd[p], lock) /\ ~LocksX(r) /\ ~LocksY(r) /\ cwd[p] \in Inums
      BY <2>2, Facts DEF LocksX, LocksY, Makers
    <3>2. /\ ~LocksX(s) /\ LocksY(s) /\ s.call # "symlink" /\ ~HasParent(s) /\ Label(s) # "unlink2"
      BY <2>3, <2>7, <2>8 DEF LocksX, LocksY, Makers, HasParent
    <3>3. IsDir(cwd[p])' /\ cwd'[p] = cwd[p]
      BY <2>12, <3>1 DEF Fits, IsDir
    <3>4. \A j \in Inums : lock'[j] = p => s.y = j
      BY <2>7, <2>11, <3>1 DEF Fits
    <3> QED
      BY <2>7, <2>11, <3>2, <3>3, <3>4 DEF Fits, IsDir
  <2>14. InHand(s, fd[p])'
    <3>1. fd[p] \in Inums0 /\ Live(fd[p]) /\ fd'[p] = fd[p]
      BY <2>2, Facts DEF InHand
    <3> QED
      BY <2>2, <2>7, <2>10, <2>12, <3>1 DEF InHand, Live, Inums0, Alloc
  <2>15. \A j \in Inums : Owes(s, j) <=> Owes(r, j)
    BY <2>3, <2>7 DEF Owes, Makers
  <2>16. Owned(r, s, i, 0)
    BY SMTT(30), <2>3, <2>7, <2>10, ZeroFree DEF Owned, Own, One
  <2>17. Refs(i, 0)
    <3>1. PICK m : m = mem'
      OBVIOUS
    <3>2. Gets(m, i)
      BY <2>2, <3>1, MemRefs
    <3>3. \A j \in Inums : leak[j] = leak[j] + One(0, j)
      BY SMTT(30), <2>2, ZeroFree DEF One
    <3> QED
      BY <2>2, <3>1, <3>2, <3>3 DEF Refs, Gets
  <2>18. \A j \in Inums, q \in Procs \ {p} : lock[j] = q => dir'[j] = dir[j]
    BY NamesAssumption DEF RowsKept
  <2> QED
    <3>1. PICK x, n : x = r.x /\ n = r.nm
      OBVIOUS
    <3>2. Edits(p, x, n) /\ Born(x, n, i) /\ pr' = [pr EXCEPT ![p] = s]
      BY <2>1, <2>5, <3>1
    <3> QED
      BY <2>6, <2>9, <2>11, <2>13, <2>14, <2>15, <2>16, <2>17, <2>18, <3>2, <1>BornStep
\* A new symbolic link, which has no links and whose reference nobody will put.
<1>SymlinkEntry. ASSUME NEW r, r = pr[p], r.st = "symlink2", lock[r.y] = Nobody,
                        NEW i \in Inums, Born(r.y, r.nm, i), leak' = [leak EXCEPT ![i] = @ + 1],
                        \A j \in Inums : j # r.y => dir'[j] = dir[j],
                        mem' = Load(Iget(Load(mem, r.y), i), i),
                        pr' = [pr EXCEPT ![p] = Puts([r EXCEPT !.y = 0], <<r.y>>, "end")],
                        stopped = "none", UNCHANGED <<lock, cwd, fd, committed, stopped>>
                 PROVE  IInv'
  <2> USE <1>SymlinkEntry
  <2>1. PICK s : s = Puts([r EXCEPT !.y = 0], <<r.y>>, "end")
    OBVIOUS
  <2>2. /\ r \in Frames /\ ShapeAt(r, "symlink2") /\ InDirs(r) /\ r.nm \in AllNames
        /\ (r.y # 0 => r.y \in Inums /\ Alloc(r.y))
        /\ Label(r) = "symlink2" /\ r.puts = <<>> /\ InHand(r, fd[p])
    BY Ready
  <2>3. r.sym = 0 /\ r.call = "symlink" /\ r.x = 0 /\ r.y \in Inums /\ r.y # 0 /\ Alloc(r.y)
    BY <2>2 DEF ShapeAt, Parents, Lookups
  <2>4. IsDir(r.y)
    BY <2>2, <2>3 DEF InDirs
  <2>5. Edits(p, r.y, r.nm)
    <3>1. r.nm \notin {".", ".."}
      BY <2>3, <2>4 DEF IInv, TreeInv, Rooted, IsDir, Born
    <3> QED
      BY <2>2, <2>3, <2>4, <3>1 DEF Edits, AllNames
  <2>6. s \in Frames
    <3>1. "put" \in Labels /\ "end" \in Labels /\ 0 \in Inums0 /\ <<r.y>> \in Seq(Inums)
      BY SMTT(30), <2>3 DEF Labels, Inums0
    <3> QED
      BY <2>1, <2>2, <3>1 DEF Puts, Frames
  <2>7. /\ s.call = "symlink" /\ s.st = "put" /\ s.then = "end" /\ s.x = 0 /\ s.y = 0
        /\ s.sym = 0 /\ s.puts = <<r.y>>
    BY <2>1, <2>2, <2>3 DEF Puts, Frames
  <2>8. Putting(s) /\ Label(s) = "end"
    BY <2>7 DEF Putting, Label
  <2>9. Shape(s)
    BY SMTT(30), <2>7, <2>8 DEF Shape, ShapeAt, Parents, Lookups
  <2>10. Put(s, 1) = r.y /\ Put(s, 2) = 0 /\ Put(r, 1) = 0 /\ Put(r, 2) = 0
    BY SMTT(30), <2>2, <2>7, PutOfOne, PutOfNone
  <2>11. \A j \in Inums : (IsDir(j) => IsDir(j)') /\ (Alloc(j) => Alloc(j)')
    BY DEF Born, IsDir, Alloc
  <2>12. Fits(p, s, cwd[p], lock)'
    <3>1. Fits(p, r, cwd[p], lock) /\ ~LocksX(r) /\ ~LocksY(r) /\ cwd[p] \in Inums
      BY <2>2, Facts DEF LocksX, LocksY
    <3>2. ~LocksX(s) /\ ~LocksY(s) /\ s.y = 0 /\ ~HasParent(s) /\ Label(s) # "unlink2"
      BY <2>7, <2>8 DEF LocksX, LocksY, Makers, HasParent
    <3>3. IsDir(cwd[p])' /\ cwd'[p] = cwd[p] /\ \A j \in Inums : lock'[j] # p
      BY <2>11, <3>1 DEF Fits, IsDir
    <3> QED
      BY <3>2, <3>3 DEF Fits, IsDir
  <2>13. InHand(s, fd[p])'
    <3>1. fd[p] \in Inums0 /\ Live(fd[p]) /\ fd'[p] = fd[p]
      BY <2>2, Facts DEF InHand
    <3> QED
      BY <2>3, <2>7, <2>10, <2>11, <3>1 DEF InHand, Live, Inums0, Alloc
  <2>14. \A j \in Inums : Owes(s, j) <=> Owes(r, j)
    BY <2>3, <2>7 DEF Owes
  <2>15. Owned(r, s, i, i)
    BY SMTT(30), <2>3, <2>7, <2>10, ZeroFree DEF Owned, Own, One
  <2>16. Refs(i, i)
    BY <2>3, RefsLeak
  <2>17. \A j \in Inums, q \in Procs \ {p} : lock[j] = q => dir'[j] = dir[j]
    BY NamesAssumption
  <2>18. /\ lock' \in [Inums -> Procs \cup {Nobody}]
         /\ \A j \in Inums, q \in Procs \ {p} : lock'[j] = q <=> lock[j] = q
    BY DEF IInv, TypeOK
  <2> QED
    <3>1. PICK x, n : x = r.y /\ n = r.nm
      OBVIOUS
    <3>2. Edits(p, x, n) /\ Born(x, n, i) /\ pr' = [pr EXCEPT ![p] = s]
      BY <2>1, <2>5, <3>1
    <3> QED
      BY <2>6, <2>9, <2>12, <2>13, <2>14, <2>15, <2>16, <2>17, <2>18, <3>2, <1>BornStep
<1>NewIs. ASSUME NEW t \in Types, NEW path \in Paths
          PROVE  /\ New(t, path) \in Inode /\ New(t, path).type = t
                 /\ New(t, path).nlink = IF t = "symlink" THEN 0 ELSE 1
  <2> USE <1>NewIs
  <2>1. <<>> \in Paths /\ "none" \in Types
    BY SMTT(30), NoSeq DEF Paths, Types
  <2>2. Free \in Inode
    BY SMTT(30), <2>1 DEF Free, Inode
  <2>3. PICK l \in Int : l = IF t = "symlink" THEN 0 ELSE 1
    BY SMTT(30)
  <2>4. [Free EXCEPT !.type = t, !.nlink = l, !.target = path] \in Inode
    BY <2>2 DEF Inode
  <2>5. PICK w \in Inode : w = New(t, path) /\ w = [Free EXCEPT !.type = t, !.nlink = l, !.target = path]
    BY <2>3, <2>4 DEF New
  <2>6. w.type = t /\ w.nlink = l
    BY <2>5 DEF Free
  <2> QED
    BY <2>3, <2>5, <2>6
\* sys_symlink() of a name that exists.
<1>SymlinkOld. ASSUME NEW r, r = pr[p], r.st = "symlink2", NEW i \in Inums,
                      mem' = Iget(Load(mem, r.y), i), leak' = [leak EXCEPT ![i] = @ + 1],
                      pr' = [pr EXCEPT ![p] = Puts([r EXCEPT !.y = 0], <<r.y>>, "end")],
                      stopped = "none", UNCHANGED <<dino, dir, lock, cwd, fd, committed, stopped>>
               PROVE  IInv'
  <2> USE <1>SymlinkOld
  <2>1. PICK s : s = Puts([r EXCEPT !.y = 0], <<r.y>>, "end")
    OBVIOUS
  <2>2. /\ r \in Frames /\ ShapeAt(r, "symlink2") /\ (r.y # 0 => r.y \in Inums /\ Alloc(r.y))
    BY Ready
  <2>3. r.sym = 0 /\ r.call = "symlink" /\ r.x = 0 /\ r.y \in Inums /\ Alloc(r.y)
    BY <2>2 DEF ShapeAt, Parents, Lookups
  <2>4. s \in Frames
    <3>1. "put" \in Labels /\ "end" \in Labels /\ 0 \in Inums0 /\ <<r.y>> \in Seq(Inums)
      BY SMTT(30), <2>3 DEF Labels, Inums0
    <3> QED
      BY <2>1, <2>2, <3>1 DEF Puts, Frames
  <2>5. /\ s.call = "symlink" /\ s.st = "put" /\ s.then = "end" /\ s.x = 0 /\ s.y = 0
        /\ s.sym = 0 /\ s.puts = <<r.y>>
    BY <2>1, <2>2, <2>3 DEF Puts, Frames
  <2>6. /\ ShapeAt(s, s.then) /\ s.then \notin LockLabels /\ r.st \notin {"put", "drop"} \cup LockLabels
    BY <2>5 DEF ShapeAt, Parents, Lookups, LockLabels
  <2>7. InDirs(s) /\ Live(s.x) /\ Live(s.y) /\ Live(s.sym)
    BY <2>5 DEF InDirs, Live
  <2>8. \A j \in Inums : Owes(s, j) <=> Owes(r, j)
    BY <2>3, <2>5 DEF Owes
  <2>9. Even(r, s, r.y, i, i)
    BY SMTT(30), <2>3, <2>5, ZeroFree DEF Even, Own3, One
  <2>10. Refs(i, i)
    BY <2>3, RefsLeak
  <2> QED
    BY <2>1, <2>3, <2>4, <2>5, <2>6, <2>7, <2>8, <2>9, <2>10, ToPut
<1>CreateNew. CASE CreateNew(p)
  <2> USE <1>CreateNew
  <2>1. PICK r : r = pr[p]
    OBVIOUS
  <2>2. /\ stopped = "none" /\ r.st \in Makers /\ r.x # 0 /\ lock[r.x] = Nobody /\ dir[r.x][r.nm] = 0
    BY <2>1 DEF CreateNew, Locks, At, Makers
  <2>3. /\ ShapeAt(r, r.st) /\ InDirs(r) /\ r.x \in Inums /\ r.nm \in AllNames /\ Label(r) = r.st
    BY <2>1, <2>2, Ready DEF Makers
  <2>4. IsDir(r.x) /\ r.call \in Makers
    BY <2>2, <2>3 DEF InDirs, HasParent, ShapeAt, Makers, Parents
  <2>5. CASE FreeInums = {}
    <3>1. Stop("ialloc: no inodes")
      BY <2>5 DEF CreateNew
    <3>2. PanicsKnown'
      BY <3>1 DEF Stop, PanicsKnown
    <3> QED
      BY <3>1, <3>2, Halt
  <2>6. CASE FreeInums # {}
    <3>1. PICK i \in Inums : i = Fresh /\ ~Alloc(i)
      BY <2>6, <1>FreshIs
    <3>2. PICK t : t = NewType(r.call)
      OBVIOUS
    <3>3. PICK w : w = New(t, <<>>)
      OBVIOUS
    <3>4. PICK e : e = IF t = "dir" THEN DotDot(i, r.x) ELSE NoDir
      OBVIOUS
    <3>5. PICK l : l = IF t = "dir" THEN 1 ELSE 0
      OBVIOUS
    <3>6. /\ lock[i] = Nobody /\ mem' = Load(Iget(Load(mem, r.x), i), i) /\ lock' = [lock EXCEPT ![i] = p]
          /\ pr' = [pr EXCEPT ![p] = Puts([r EXCEPT !.x = 0, !.y = i], <<r.x>>, "made")]
          /\ UNCHANGED <<cwd, fd, leak, committed, stopped>>
      BY <2>1, <2>6, <3>1 DEF CreateNew, Go
    <3>16. /\ dino' = [dino EXCEPT ![i] = w, ![r.x].nlink = @ + l]
           /\ dir' = [dir EXCEPT ![r.x][r.nm] = i, ![i] = e]
      BY <2>1, <2>6, <3>1, <3>2, <3>3, <3>4, <3>5 DEF CreateNew
    <3>7. /\ dino \in [Inums -> Inode] /\ dir \in [Inums -> [AllNames -> Inums \cup {0}]]
      BY DEF IInv, TypeOK, Trees
    <3>8. t \in {"file", "dir", "dev"}
      BY <2>4, <3>2 DEF NewType, Makers
    <3>9. w \in Inode /\ w.type = t /\ w.nlink = 1
      <4>1. <<>> \in Paths /\ t \in Types /\ t # "symlink"
        BY SMTT(30), <3>8, NoSeq DEF Paths, Types
      <4> QED
        BY <3>3, <4>1, <1>NewIs
    <3>10. /\ e \in [AllNames -> Inums \cup {0}]
           /\ t = "dir" => e["."] = i /\ e[".."] = r.x /\ \A m \in AllNames : e[m] \in {0, i, r.x}
      BY <2>3, <3>4 DEF DotDot, NoDir, AllNames
    <3>11. r.x # i
      BY <2>4, <3>1 DEF IsDir, Alloc
    <3>12. /\ dino' \in [Inums -> Inode] /\ dino'[i] = w /\ dino'[r.x].type = "dir"
           /\ \A j \in Inums \ {i} : dino'[j].type = dino[j].type
           /\ \A j \in Inums \ {i} : dino[j].type \in {"file", "dev"} => dino'[j].nlink = dino[j].nlink
      <4>1. PICK d : d = [dino EXCEPT ![i] = w]
        OBVIOUS
      <4>2. d \in [Inums -> Inode] /\ d[i] = w /\ \A j \in Inums \ {i} : d[j] = dino[j]
        BY <3>7, <3>9, <4>1
      <4>3. PICK k : k = dino[r.x].nlink + l
        OBVIOUS
      <4>4. dino' = [d EXCEPT ![r.x].nlink = k]
        BY <3>7, <3>11, <3>16, <4>1, <4>3
      <4>6. k \in Int
        BY SMTT(30), <2>3, <3>5, <3>7, <4>3 DEF Inode
      <4>5. /\ dino' \in [Inums -> Inode] /\ \A j \in Inums : dino'[j].type = d[j].type
            /\ \A j \in Inums \ {r.x} : dino'[j] = d[j]
        BY <2>3, <4>2, <4>4, <4>6 DEF Inode
      <4> QED
        BY <2>3, <2>4, <3>11, <4>2, <4>5 DEF IsDir
    <3>13. /\ dir' \in [Inums -> [AllNames -> Inums \cup {0}]] /\ dir'[i] = e /\ dir'[r.x][r.nm] = i
           /\ \A j \in Inums \ {i}, m \in AllNames : j # r.x \/ m # r.nm => dir'[j][m] = dir[j][m]
           /\ \A j \in Inums : j # i /\ j # r.x => dir'[j] = dir[j]
      BY <2>3, <3>7, <3>10, <3>11, <3>16
    <3>14. <<dino, dir>>' \in Trees
      BY <3>12, <3>13 DEF Trees
    <3>15. Born(r.x, r.nm, i)
      BY <2>2, <3>1, <3>8, <3>9, <3>10, <3>12, <3>13, <3>14 DEF Born
    <3> QED
      <4>1. RowsKept(r.x, i)
        BY <3>13 DEF RowsKept
      <4> QED
        BY <2>1, <2>2, <3>6, <3>15, <4>1, <1>CreateEntry
  <2> QED
    BY <2>5, <2>6
<1>Symlink2. CASE Symlink2(p)
  <2> USE <1>Symlink2
  <2>1. PICK r : r = pr[p]
    OBVIOUS
  <2>2. PICK old : old = dir[r.y][r.nm]
    OBVIOUS
  <2>3. stopped = "none" /\ r.st = "symlink2" /\ lock[r.y] = Nobody
    BY <2>1 DEF Symlink2, Locks, At
  <2>4. /\ ShapeAt(r, "symlink2") /\ InDirs(r) /\ r.nm \in AllNames /\ r.path2 \in Paths
        /\ (r.y # 0 => r.y \in Inums /\ Alloc(r.y))
    BY <2>1, <2>3, Ready
  <2>5. r.y \in Inums /\ IsDir(r.y)
    BY <2>4 DEF ShapeAt, InDirs
  <2>6. old \in Inums0 /\ (old # 0 => old \in Inums)
    BY <2>2, <2>4, <2>5, EntryIs
  <2>7. CASE old = 0 /\ FreeInums = {}
    <3>1. Stop("ialloc: no inodes")
      BY <2>1, <2>2, <2>7 DEF Symlink2
    <3>2. PanicsKnown'
      BY <3>1 DEF Stop, PanicsKnown
    <3> QED
      BY <3>1, <3>2, Halt
  <2>8. CASE old # 0
    <3>1. /\ mem' = Iget(Load(mem, r.y), old) /\ leak' = [leak EXCEPT ![old] = @ + 1]
          /\ pr' = [pr EXCEPT ![p] = Puts([r EXCEPT !.y = 0], <<r.y>>, "end")]
          /\ UNCHANGED <<dino, dir, lock, cwd, fd, stopped>>
      BY <2>1, <2>2, <2>8 DEF Symlink2, Go, tree
    <3> QED
      BY <2>1, <2>3, <2>6, <2>8, <3>1, <1>SymlinkOld
  <2>9. CASE old = 0 /\ FreeInums # {}
    <3>1. PICK i \in Inums : i = Fresh /\ ~Alloc(i)
      BY <2>9, <1>FreshIs
    <3>2. PICK w : w = New("symlink", r.path2)
      OBVIOUS
    <3>3. /\ mem' = Load(Iget(Load(mem, r.y), i), i) /\ leak' = [leak EXCEPT ![i] = @ + 1]
          /\ dino' = [dino EXCEPT ![i] = w] /\ dir' = [dir EXCEPT ![r.y][r.nm] = i]
          /\ pr' = [pr EXCEPT ![p] = Puts([r EXCEPT !.y = 0], <<r.y>>, "end")]
          /\ UNCHANGED <<lock, cwd, fd, stopped>>
      BY <2>1, <2>2, <2>9, <3>1, <3>2 DEF Symlink2, Go
    <3>4. /\ dino \in [Inums -> Inode] /\ dir \in [Inums -> [AllNames -> Inums \cup {0}]]
      BY DEF IInv, TypeOK, Trees
    <3>5. w \in Inode /\ w.type = "symlink"
      <4>1. "symlink" \in Types
        BY DEF Types
      <4> QED
        BY <2>4, <3>2, <4>1, <1>NewIs
    <3>6. /\ dino' \in [Inums -> Inode] /\ dino'[i].type = "symlink"
          /\ \A j \in Inums \ {i} : dino'[j] = dino[j]
      BY <3>3, <3>4, <3>5
    <3>7. /\ dir' \in [Inums -> [AllNames -> Inums \cup {0}]] /\ dir'[r.y][r.nm] = i
          /\ \A j \in Inums \ {i}, m \in AllNames : j # r.y \/ m # r.nm => dir'[j][m] = dir[j][m]
          /\ \A j \in Inums : j # r.y => dir'[j] = dir[j]
      BY <2>4, <2>5, <3>3, <3>4
    <3>8. <<dino, dir>>' \in Trees
      BY <3>6, <3>7 DEF Trees
    <3>9. Born(r.y, r.nm, i)
      BY <2>2, <2>9, <3>1, <3>6, <3>7, <3>8 DEF Born
    <3> QED
      BY <2>1, <2>3, <3>3, <3>7, <3>9, <1>SymlinkEntry
  <2> QED
    BY <2>7, <2>8, <2>9
<1> QED
  BY <1>CreateNew, <1>Symlink2

-----------------------------------------------------------------------------
(* iput(), with the lock                                                   *)

\* The call, when the check has been made.
Checked(r, s) == s = [r EXCEPT !.st = "drop"]

\* iput(): the check for the last reference, which frees the inode, and the drop.
LEMMA PutSteps ==
  ASSUME IInv, NEW p \in Procs, UNCHANGED <<committed, calls>>,
         PutDrop(p) \/ PutCheck(p)
  PROVE  IInv'
\* A frame that differs only in what it is putting.
<1>SameCall. ASSUME NEW r, NEW s, NEW c, NEW lk, Label(s) = Label(r), s.call = r.call, s.x = r.x, s.y = r.y,
                    s.sym = r.sym, s.nm = r.nm, s.par = r.par, s.cont = r.cont
             PROVE  /\ ShapeAt(r, Label(r)) => ShapeAt(s, Label(s))
                    /\ Fits(p, r, c, lk) => Fits(p, s, c, lk)
                    /\ \A i : Owes(s, i) <=> Owes(r, i)
    BY <1>SameCall DEF ShapeAt, Fits, LocksX, LocksY, HasParent, Owes
\* A list of one or two inodes.
<1>Few. \A w \in Seq(Inums) : w # <<>> /\ Len(w) <= 2 =>
           /\ Head(w) \in Inums /\ Head(w) = w[1] /\ Tail(w) \in Seq(Inums)
           /\ \/ Len(w) = 1 /\ Tail(w) = <<>>
              \/ Len(w) = 2 /\ Tail(w) # <<>> /\ Len(Tail(w)) = 1 /\ Tail(w)[1] = w[2]
  <2> TAKE w \in Seq(Inums)
  <2> HAVE w # <<>> /\ Len(w) <= 2
  <2>1. Len(w) \in Nat \ {0}
    BY NoSeq
  <2>2. /\ Head(w) \in Inums /\ Tail(w) \in Seq(Inums) /\ Len(Tail(w)) = Len(w) - 1
        /\ \A i \in 1 .. Len(Tail(w)) : Tail(w)[i] = w[i + 1]
    BY HeadTail
  <2>3. Head(w) = w[1]
    BY SMTT(30), <2>1
  <2>4. CASE Len(w) = 1
    <3>1. Len(Tail(w)) = 0
      BY SMTT(30), <2>2, <2>4
    <3>2. 0 \notin Nat \ {0}
      OBVIOUS
    <3>3. Tail(w) = <<>>
      BY <2>2, <3>1, <3>2, NoSeq
    <3> QED
      BY <2>2, <2>3, <2>4, <3>3
  <2>5. CASE Len(w) = 2
    <3>1. Len(Tail(w)) = 1
      BY SMTT(30), <2>2, <2>5
    <3>2. 1 \in 1 .. 1 /\ 1 + 1 = 2 /\ 1 # 0
      BY SMTT(30)
    <3>3. Tail(w)[1] = w[2]
      BY <2>2, <3>1, <3>2
    <3>4. Tail(w) # <<>>
      BY <3>1, <3>2, NoSeq
    <3> QED
      BY <2>2, <2>3, <2>5, <3>1, <3>3, <3>4
  <2>6. Len(w) = 1 \/ Len(w) = 2
    <3>1. PICK n \in Nat \ {0} : n = Len(w) /\ n <= 2
      BY <2>1
    <3>2. n = 1 \/ n = 2
      BY SMTT(30), <3>1
    <3> QED
      BY <3>1, <3>2
  <2> QED
    BY <2>4, <2>5, <2>6
<1>DropRef. \A m, i : m \in Mem /\ i \in Inums =>
               Dropped(m, i) \in Mem /\ \A j \in Inums : Dropped(m, i)[j].ref = m[j].ref - One(i, j)
    BY SMTT(30) DEF Mem, One, Dropped
<1>MineInt. \A c, f, r, i : Mine(c, f, r, i) \in Int /\ One(c, i) \in Int
    BY SMTT(30) DEF Mine, One
<1>DropFrame. ASSUME NEW r, r = pr[p], r.st = "put", NEW s, Checked(r, s)
              PROVE  /\ s \in Frames /\ Shape(s) /\ s.st = "drop" /\ Label(s) = Label(r) /\ s.call = r.call
                     /\ s.x = r.x /\ s.y = r.y /\ s.sym = r.sym /\ s.nm = r.nm
                     /\ Put(s, 1) = Put(r, 1) /\ Put(s, 2) = Put(r, 2)
                     /\ Fits(p, s, cwd[p], lock) /\ InHand(r, fd[p]) /\ \A i \in Inums : Owes(s, i) <=> Owes(r, i)
                     /\ Head(r.puts) \in Inums /\ Put(r, 1) = Head(r.puts)
  <2> USE <1>DropFrame
  <2>1. r \in Frames /\ Shape(r) /\ Fits(p, r, cwd[p], lock) /\ InHand(r, fd[p])
    BY Facts
  <2>2. s \in Frames
    <3>1. "drop" \in Labels
      BY DEF Labels
    <3> QED
      BY <2>1, <3>1 DEF Frames, Checked
  <2>3. /\ s.call = r.call /\ s.st = "drop" /\ s.x = r.x /\ s.y = r.y /\ s.sym = r.sym /\ s.nm = r.nm
        /\ s.par = r.par /\ s.cont = r.cont /\ s.then = r.then /\ s.puts = r.puts
    BY <2>1 DEF Frames, Checked
  <2>4. Label(s) = Label(r) /\ Putting(s) /\ Putting(r)
    BY <2>3 DEF Label, Putting
  <2>5. Shape(s) /\ Fits(p, s, cwd[p], lock) /\ \A i \in Inums : Owes(s, i) <=> Owes(r, i)
    BY <2>1, <2>3, <2>4, <1>SameCall DEF Shape
  <2>6. Put(s, 1) = Put(r, 1) /\ Put(s, 2) = Put(r, 2)
    BY <2>3 DEF Put
  <2>7. Head(r.puts) \in Inums /\ Put(r, 1) = Head(r.puts)
    <3>1. r.puts \in Seq(Inums) /\ r.puts # <<>> /\ Len(r.puts) <= 2
      BY <2>1, <2>4 DEF Frames, Shape
    <3>2. Head(r.puts) \in Inums /\ Head(r.puts) = r.puts[1] /\ (Len(r.puts) = 1 \/ Len(r.puts) = 2)
      BY <3>1, <1>Few
    <3>3. Len(r.puts) >= 1
      BY SMTT(30), <3>2
    <3> QED
      BY <3>2, <3>3 DEF Put
  <2> QED
    BY <2>1, <2>2, <2>3, <2>4, <2>5, <2>6, <2>7
<1>DropTally. ASSUME NEW r, NEW s, mem \in Mem, leak \in [Inums -> Nat], Refs(0, 0),
                     s.x = r.x, s.y = r.y, s.sym = r.sym, Put(s, 1) = Put(r, 1), Put(s, 2) = Put(r, 2)
              PROVE  Tally(cwd[p], fd[p], r, cwd[p], fd[p], s)
  <2> USE <1>DropTally
  <2>1. Owned(r, s, 0, 0)
    BY DEF Owned, Own
  <2>2. mem' \in Mem /\ leak' \in [Inums -> Nat]
    BY DEF Refs
  <2>3. Settled(r, s)
    BY <2>1, Balance
  <2> QED
    BY <2>2, <2>3, Ledger
\* The last reference to an inode is the one that is being put.
<1>LastHolder. ASSUME NEW i \in Inums, Put(pr[p], 1) = i, mem[i].ref = 1
               PROVE  \A q \in Procs, t \in Tags : Pointer(q, t) = i => q = p /\ t = "put1"
  <2> USE <1>LastHolder
  <2>1. PICK H : H = Holders(i)
    OBVIOUS
  <2>2. PICK a : a = <<p, "put1">>
    OBVIOUS
  <2>3. "put1" \in Tags
    BY DEF Tags
  <2>4. Pointer(p, "put1") = i
    BY DEF Pointer
  <2>5. a \in H
    <3>1. a \in Procs \X Tags /\ a[1] = p /\ a[2] = "put1"
      BY <2>2, <2>3
    <3> QED
      BY <2>1, <2>4, <3>1 DEF Holders
  <2>6. H \in Pool /\ H \ {a} \in Pool
    <3>1. H \subseteq Procs \X Tags
      BY <2>1 DEF Holders
    <3> QED
      BY <3>1, InPool
  <2>7. Cardinality(H \ {a}) = Cardinality(H) - 1 /\ Cardinality(H) \in Nat /\ Cardinality(H \ {a}) \in Nat
    BY <2>5, <2>6 DEF IInv, Finite
  <2>8. mem[i].ref = Cardinality(H) + leak[i] + (IF i = ROOTINO THEN 1 ELSE 0) /\ leak[i] \in Nat
    BY <2>1 DEF IInv, CountInv, TypeOK
  <2>9. Cardinality(H \ {a}) = 0
    BY SMTT(30), <2>7, <2>8
  <2>10. H \ {a} = {}
    BY <2>6, <2>9 DEF IInv, Finite
  <2> SUFFICES ASSUME NEW q \in Procs, NEW t \in Tags, Pointer(q, t) = i
      PROVE  q = p /\ t = "put1"
    OBVIOUS
  <2>11. <<q, t>> \in H
    <3>1. <<q, t>> \in Procs \X Tags /\ <<q, t>>[1] = q /\ <<q, t>>[2] = t
      OBVIOUS
    <3> QED
      BY <2>1, <3>1 DEF Holders
  <2> QED
    BY SMTT(30), <2>2, <2>10, <2>11
\* A file without links is in no directory, and no call owes it one.
<1>NoLinks. ASSUME NEW i \in Inums, dino[i].type \in {"file", "dev"}, dino[i].nlink = 0
            PROVE  \A y \in Inums, n \in AllNames : IsDir(y) => dir[y][n] # i
  <2> USE <1>NoLinks
  <2>1. PICK E, o : E = Entries(dino, dir, i) /\ o = Owing(i)
    OBVIOUS
  <2>2. dino[i].nlink = Cardinality(E) + Cardinality(o)
    BY <2>1 DEF IInv, TreeInv, LinkInv
  <2>3. E \in Pool /\ o \in Pool
    BY <2>1, Pools
  <2>4. E = {}
    <3>1. Cardinality(E) \in Nat /\ Cardinality(o) \in Nat
      BY <2>3 DEF IInv, Finite
    <3>2. Cardinality(E) = 0
      BY SMTT(30), <2>2, <3>1
    <3> QED
      BY <2>3, <3>2 DEF IInv, Finite
  <2> SUFFICES ASSUME NEW y \in Inums, NEW n \in AllNames, IsDir(y), dir[y][n] = i
      PROVE  FALSE
    OBVIOUS
  <2>5. CASE n \in {".", ".."}
    BY <2>5 DEF IInv, TreeInv, Rooted, IsDir
  <2>6. CASE n \in Names
    <3>1. <<y, n>> \in E
      BY <2>1, <2>6 DEF Entries, IsDir
    <3> QED
      BY <2>4, <3>1
  <2> QED
    BY <2>5, <2>6 DEF AllNames
\* iput() frees the inode.
<1>FreeStep. ASSUME NEW r, r = pr[p], r.st = "put", stopped = "none",
                    NEW i, i = Head(r.puts), LastPut(i), dino[i].type \in {"none", "file", "dev"},
                    NEW s, Checked(r, s), pr' = [pr EXCEPT ![p] = s],
                    dino' = [dino EXCEPT ![i] = Free], mem' = [mem EXCEPT ![i].valid = FALSE],
                    UNCHANGED <<dir, lock, cwd, fd, leak, stopped, committed>>
             PROVE  IInv'
  <2> USE <1>FreeStep
  <2>1. /\ s \in Frames /\ Shape(s) /\ s.st = "drop"
        /\ s.x = r.x /\ s.y = r.y /\ s.sym = r.sym
        /\ Put(s, 1) = Put(r, 1) /\ Put(s, 2) = Put(r, 2)
        /\ Fits(p, s, cwd[p], lock) /\ InHand(r, fd[p]) /\ \A j \in Inums : Owes(s, j) <=> Owes(r, j)
        /\ i \in Inums /\ Put(r, 1) = i
    BY <1>DropFrame
  <2>2. Alloc(i) /\ i # 0
    BY <2>1, ZeroFree DEF InHand, Live
  <2>3. dino[i].type \in {"file", "dev"} /\ dino[i].nlink = 0 /\ mem[i].ref = 1
    BY <2>2 DEF Alloc, LastPut
  <2>4. \A q \in Procs, t \in Tags : Pointer(q, t) = i => q = p /\ t = "put1"
    BY <2>1, <2>3, <1>LastHolder
  <2>5. \A q \in Procs : /\ cwd[q] # i /\ fd[q] # i /\ pr[q].x # i /\ pr[q].y # i /\ pr[q].sym # i
                         /\ Put(pr[q], 2) # i /\ (q # p => Put(pr[q], 1) # i)
    <3>1. /\ "cwd" \in Tags /\ "fd" \in Tags /\ "x" \in Tags /\ "y" \in Tags /\ "sym" \in Tags
          /\ "put1" \in Tags /\ "put2" \in Tags
      BY DEF Tags
    <3> QED
      BY <2>4, <3>1 DEF Pointer
  <2>6. \A y \in Inums, n \in AllNames : IsDir(y) => dir[y][n] # i
    BY <2>1, <2>3, <1>NoLinks
  <2>7. /\ dino \in [Inums -> Inode] /\ dir \in [Inums -> [AllNames -> Inums \cup {0}]]
        /\ mem \in Mem /\ leak \in [Inums -> Nat] /\ cwd[p] \in Inums /\ fd[p] \in Inums0
    BY DEF IInv, TypeOK, Trees
  <2>8. /\ dino' \in [Inums -> Inode] /\ dino'[i].type = "none"
        /\ \A j \in Inums : j # i => dino'[j] = dino[j]
    <3>1. Free \in Inode
      BY SMTT(30), NoSeq DEF Free, Inode, Types, Paths
    <3>2. Free.type = "none"
      BY DEF Free
    <3> QED
      BY <2>1, <2>7, <3>1, <3>2
  <2>9. /\ mem' \in Mem /\ \A j \in Inums : mem'[j].ref = mem[j].ref
    BY <2>1, <2>7 DEF Mem
  <2>10. \A j \in Inums : (IsDir(j)' <=> IsDir(j)) /\ (j # i => (Alloc(j)' <=> Alloc(j)))
    BY <2>3, <2>8 DEF IsDir, Alloc
  <2>11. Tally(cwd[p], fd[p], r, cwd[p], fd[p], s)
    <3>1. Refs(0, 0)
      BY SMTT(30), <2>7, <2>9, ZeroFree DEF Refs, One, Mem
    <3> QED
      BY <2>1, <2>7, <3>1, <1>DropTally
  <2>12. Rooted(dino, dir)' /\ EntriesInv'
    <3>1. ROOTINO \in Inums /\ "." \in AllNames /\ ".." \in AllNames
      BY NamesAssumption DEF AllNames
    <3>2. Rooted(dino, dir)'
      BY SMTT(30), <2>3, <2>6, <2>7, <2>8, <3>1 DEF IInv, TreeInv, Rooted, IsDir
    <3>3. EntriesInv'
      BY <2>6, <2>7, <2>10 DEF IInv, TreeInv, EntriesInv
    <3> QED
      BY <3>2, <3>3
  <2>13. LinkInv'
    <3> SUFFICES ASSUME NEW j \in Inums, dino'[j].type \in {"file", "dev"}
        PROVE  dino'[j].nlink = Cardinality(Entries(dino, dir, j)') + Cardinality(Owing(j)')
      BY DEF LinkInv
    <3>1. j # i /\ dino'[j] = dino[j]
      BY <2>8
    <3>2. Entries(dino, dir, j)' = Entries(dino, dir, j)
      BY <2>10 DEF Entries, IsDir
    <3>3. Owing(j)' = Owing(j)
      BY <2>1, OwingStep
    <3>4. dino[j].nlink = Cardinality(Entries(dino, dir, j)) + Cardinality(Owing(j))
      BY <3>1 DEF IInv, TreeInv, LinkInv
    <3> QED
      BY <3>1, <3>2, <3>3, <3>4
  <2>14. TypeOK' /\ TreeInv' /\ CommittedInv' /\ stopped' = "none"
    <3>1. <<dino, dir>>' \in Trees
      BY <2>7, <2>8 DEF Trees
    <3> QED
      BY <2>1, <2>9, <2>12, <2>13, <3>1 DEF IInv, TypeOK, TreeInv, CommittedInv
  <2>15. Apart(p)
    BY <2>5, <2>10 DEF Apart
  <2>16. /\ s.x \in Inums0 /\ s.y \in Inums0 /\ s.sym \in Inums0 /\ s.puts \in Seq(Inums)
    BY <2>1 DEF Frames
  <2>17. Fits(p, s, cwd[p], lock)'
    BY <2>1, <2>7, <2>10, <2>16 DEF Fits, Inums0
  <2>18. InHand(s, fd[p])'
    <3>1. Put(s, 2) \in Inums0
      BY SMTT(30), <2>16 DEF Put, Inums0
    <3>2. r.x # i /\ r.y # i /\ r.sym # i /\ Put(r, 2) # i /\ fd[p] # i
      BY <2>5
    <3> QED
      BY <2>1, <2>7, <2>10, <2>16, <3>1, <3>2 DEF InHand, Live, Inums0
  <2> QED
    BY <2>1, <2>11, <2>14, <2>15, <2>17, <2>18, StepOf DEF Tally
<1>PutDrop. CASE PutDrop(p)
  <2> USE <1>PutDrop
  <2>1. PICK r : r = pr[p]
    OBVIOUS
  <2>2. PICK s : s = [r EXCEPT !.puts = Tail(@), !.st = IF Len(r.puts) > 1 THEN "put" ELSE r.then]
    OBVIOUS
  <2>3. /\ stopped = "none" /\ r.st = "drop" /\ pr' = [pr EXCEPT ![p] = s]
        /\ mem' = [mem EXCEPT ![Head(r.puts)].ref = @ - 1]
        /\ UNCHANGED <<dino, dir, leak, lock, cwd, fd, committed, stopped>>
    BY <2>1, <2>2 DEF PutDrop, At, Go, tree
  <2>4. r \in Frames /\ Shape(r) /\ Fits(p, r, cwd[p], lock) /\ InHand(r, fd[p])
    BY <2>1, Facts
  <2>5. /\ r.puts \in Seq(Inums) /\ r.puts # <<>> /\ Len(r.puts) <= 2 /\ Putting(r)
        /\ Label(r) = r.then /\ r.then \notin {"put", "drop"} /\ r.then \in Labels
    <3>1. Putting(r) /\ Label(r) = r.then
      BY <2>3 DEF Putting, Label
    <3> QED
      BY <2>4, <3>1 DEF Frames, Shape, ShapeAt
  <2>6. /\ s.call = r.call /\ s.st = (IF Len(r.puts) > 1 THEN "put" ELSE r.then) /\ s.x = r.x
        /\ s.y = r.y /\ s.sym = r.sym /\ s.nm = r.nm /\ s.par = r.par /\ s.cont = r.cont
        /\ s.then = r.then /\ s.puts = Tail(r.puts)
    BY <2>2, <2>4 DEF Frames
  <2>7. /\ Head(r.puts) \in Inums /\ Put(r, 1) = Head(r.puts) /\ Put(s, 1) = Put(r, 2)
        /\ Put(s, 2) = 0 /\ Tail(r.puts) \in Seq(Inums) /\ Len(Tail(r.puts)) <= 2
        /\ IF Len(r.puts) > 1 THEN Tail(r.puts) # <<>> ELSE Tail(r.puts) = <<>>
    <3>1. /\ Head(r.puts) \in Inums /\ Head(r.puts) = r.puts[1] /\ Tail(r.puts) \in Seq(Inums)
          /\ \/ Len(r.puts) = 1 /\ Tail(r.puts) = <<>>
             \/ Len(r.puts) = 2 /\ Tail(r.puts) # <<>> /\ Len(Tail(r.puts)) = 1
                /\ Tail(r.puts)[1] = r.puts[2]
      BY <2>5, <1>Few
    <3>2. CASE Len(r.puts) = 1
      <4>1. ~(Len(r.puts) > 1) /\ Len(r.puts) >= 1 /\ ~(Len(r.puts) >= 2) /\ 0 <= 2
        BY SMTT(30), <3>2
      <4>2. Put(r, 1) = r.puts[1] /\ Put(r, 2) = 0
        BY <4>1 DEF Put
      <4>3. Tail(r.puts) = <<>>
        BY SMTT(30), <3>1, <3>2
      <4>4. Put(s, 1) = 0 /\ Put(s, 2) = 0 /\ Len(Tail(r.puts)) = 0
        BY <2>6, <4>3, PutOfNone, NoSeq
      <4> QED
        BY <3>1, <3>2, <4>1, <4>2, <4>3, <4>4
    <3>3. CASE Len(r.puts) = 2
      <4>1. Len(r.puts) > 1 /\ Len(r.puts) >= 1 /\ Len(r.puts) >= 2
        BY SMTT(30), <3>3
      <4>2. Put(r, 1) = r.puts[1] /\ Put(r, 2) = r.puts[2]
        BY <4>1 DEF Put
      <4>3. Tail(r.puts) # <<>> /\ Len(Tail(r.puts)) = 1 /\ Tail(r.puts)[1] = r.puts[2]
        BY SMTT(30), <3>1, <3>3
      <4>4. 1 >= 1 /\ ~(1 >= 2) /\ 1 <= 2
        BY SMTT(30)
      <4>5. Put(s, 1) = r.puts[2] /\ Put(s, 2) = 0
        BY <2>6, <4>3, <4>4 DEF Put
      <4> QED
        BY <3>1, <4>1, <4>2, <4>3, <4>4, <4>5
    <3> QED
      BY <3>1, <3>2, <3>3
  <2>8. s \in Frames
    <3>1. "put" \in Labels
      BY DEF Labels
    <3>2. (IF Len(r.puts) > 1 THEN "put" ELSE r.then) \in Labels
      BY <2>5, <3>1
    <3> QED
      BY <2>2, <2>4, <2>7, <3>2 DEF Frames
  <2>9. Label(s) = Label(r) /\ (Putting(s) <=> s.puts # <<>>) /\ Len(s.puts) <= 2
    <3>1. CASE Len(r.puts) > 1
      BY <2>5, <2>6, <2>7, <3>1 DEF Label, Putting
    <3>2. CASE ~(Len(r.puts) > 1)
      BY <2>5, <2>6, <2>7, <3>2 DEF Label, Putting
    <3> QED
      BY <3>1, <3>2
  <2>10. Shape(s) /\ Fits(p, s, cwd[p], lock) /\ \A i \in Inums : Owes(s, i) <=> Owes(pr[p], i)
    BY <2>1, <2>4, <2>6, <2>9, <1>SameCall DEF Shape
  <2>11. InHand(s, fd[p])
    BY <2>4, <2>6, <2>7 DEF InHand, Live
  <2>12. mem \in Mem /\ mem' \in Mem /\ \A i \in Inums : mem'[i].ref = mem[i].ref - One(Put(r, 1), i)
    <3>1. mem \in Mem
      BY <2>1, Facts
    <3> QED
      <4>1. mem' = Dropped(mem, Put(r, 1)) /\ Put(r, 1) \in Inums
        BY <2>3, <2>7 DEF Dropped
      <4> QED
        BY <3>1, <4>1, <1>DropRef
  <2>13. \A i \in Inums : Mine(cwd[p], fd[p], s, i) = Mine(cwd[p], fd[p], r, i) - One(Put(r, 1), i)
    BY SMTT(30), <2>6, <2>7, ZeroFree DEF Mine, One
  <2>14. Tally(cwd[p], fd[p], pr[p], cwd[p], fd[p], s)
    <3> SUFFICES ASSUME NEW i \in Inums
        PROVE  mem'[i].ref - leak'[i] - Mine(cwd[p], fd[p], s, i)
                 = mem[i].ref - leak[i] - Mine(cwd[p], fd[p], pr[p], i)
      BY DEF Tally
    <3>1. /\ mem[i].ref \in Int /\ leak[i] \in Int /\ leak'[i] = leak[i] /\ One(Put(r, 1), i) \in Int
          /\ Mine(cwd[p], fd[p], r, i) \in Int
      <4>1. mem \in Mem /\ leak \in [Inums -> Nat]
        BY <2>1, Facts
      <4>2. mem[i].ref \in Int /\ leak[i] \in Int
        BY SMTT(30), <4>1 DEF Mem
      <4> QED
        BY <2>3, <4>2, <1>MineInt
    <3> QED
      BY SMTT(30), <2>1, <2>12, <2>13, <3>1
  <2> QED
    BY <2>1, <2>3, <2>8, <2>10, <2>11, <2>12, <2>14, Facts, Quiet
<1>PutCheck. CASE PutCheck(p)
  <2> USE <1>PutCheck
  <2>1. PICK r, i : r = pr[p] /\ i = Head(r.puts)
    OBVIOUS
  <2>2. stopped = "none" /\ r.st = "put"
    BY <2>1 DEF PutCheck, At
  <2>3. CASE LastPut(i) /\ (dino[i].type = "dir" \/ dino[i].stamped)
    <3>1. Stop("incorrect blockno")
      BY <2>1, <2>3 DEF PutCheck
    <3>2. PanicsKnown'
      BY <3>1 DEF Stop, PanicsKnown
    <3> QED
      BY <3>1, <3>2, Halt
  <2>4. CASE ~(LastPut(i) /\ (dino[i].type = "dir" \/ dino[i].stamped))
    <3>1. PICK s : s = [r EXCEPT !.st = "drop"]
      OBVIOUS
    <3>2. /\ pr' = [pr EXCEPT ![p] = s] /\ UNCHANGED <<dir, lock, cwd, fd, leak, stopped, committed>>
          /\ LastPut(i) => dino' = [dino EXCEPT ![i] = Free] /\ mem' = [mem EXCEPT ![i].valid = FALSE]
          /\ ~LastPut(i) => dino' = dino /\ mem' = mem
      BY <2>1, <2>4, <3>1 DEF PutCheck, Go
    <3>3. Checked(r, s)
      BY <3>1 DEF Checked
    <3>4. /\ s \in Frames /\ Shape(s) /\ s.st = "drop"
          /\ s.x = r.x /\ s.y = r.y /\ s.sym = r.sym
          /\ Put(s, 1) = Put(r, 1) /\ Put(s, 2) = Put(r, 2)
          /\ Fits(p, s, cwd[p], lock) /\ InHand(r, fd[p]) /\ \A j \in Inums : Owes(s, j) <=> Owes(r, j)
          /\ i \in Inums
      BY <2>1, <2>2, <3>3, <1>DropFrame
    <3>5. CASE LastPut(i)
      <4>1. dino[i].type # "symlink"
        BY <2>1, <3>5 DEF PutCheck
      <4>2. dino[i].type \in {"none", "file", "dev"}
        BY <2>4, <3>4, <3>5, <4>1 DEF IInv, TypeOK, Trees, Inode, Types
      <4> QED
        BY <2>1, <2>2, <3>2, <3>3, <3>5, <4>2, <1>FreeStep
    <3>6. CASE ~LastPut(i)
      <4>1. Refs(0, 0)
        BY <3>2, <3>6, RefsKept
      <4>2. mem \in Mem /\ leak \in [Inums -> Nat] /\ mem' \in Mem /\ leak' \in [Inums -> Nat]
        BY <4>1 DEF IInv, TypeOK, Refs
      <4>3. Tally(cwd[p], fd[p], r, cwd[p], fd[p], s)
        BY <3>4, <4>1, <4>2, <1>DropTally
      <4>4. InHand(s, fd[p])
        BY <3>4 DEF InHand
      <4> QED
        BY <2>1, <2>2, <3>2, <3>4, <3>6, <4>2, <4>3, <4>4, Quiet
    <3> QED
      BY <3>5, <3>6
  <2> QED
    BY <2>3, <2>4
<1> QED
  BY <1>PutDrop, <1>PutCheck

-----------------------------------------------------------------------------
(* fileread(), filewrite() and end_op()                                    *)

\* fileread() and filewrite() stamp the inode.
LEMMA WriteFileStep ==
  ASSUME IInv, NEW p \in Procs, WriteFile(p), UNCHANGED committed
  PROVE  IInv'
<1>1. PICK s, i : s = pr[p] /\ i = fd[p]
  OBVIOUS
<1>2. /\ stopped = "none" /\ s.st = "idle" /\ i # 0 /\ dino' = [dino EXCEPT ![i].stamped = TRUE]
      /\ UNCHANGED <<dir, mem, lock, pr, cwd, fd, leak, stopped, committed>>
  BY <1>1 DEF WriteFile, At
<1>3. /\ s \in Frames /\ Shape(s) /\ Fits(p, s, cwd[p], lock) /\ InHand(s, fd[p])
      /\ i \in Inums0 /\ mem \in Mem /\ leak \in [Inums -> Nat]
  BY <1>1, Facts
<1>4. pr' = [pr EXCEPT ![p] = s]
  BY <1>1, <1>2 DEF IInv, TypeOK
<1>5. i \in Inums
  BY <1>2, <1>3 DEF Inums0
<1>6. /\ dino \in [Inums -> Inode] /\ dir \in [Inums -> [AllNames -> Inums \cup {0}]]
      /\ lock \in [Inums -> Procs \cup {Nobody}]
  BY DEF IInv, TypeOK, Trees
<1>7. dino' \in [Inums -> Inode]
  BY <1>2, <1>5, <1>6 DEF Inode
<1>8. \A j \in Inums : dino'[j].type = dino[j].type /\ dino'[j].nlink = dino[j].nlink
  BY <1>2, <1>5, <1>6 DEF Inode
<1>9. TreeInv'
  <2>1. \A j \in Inums : Owes(s, j) <=> Owes(pr[p], j)
    BY <1>1
  <2> QED
    BY <1>2, <1>4, <1>8, <2>1, TreeKept
<1>10. Tally(cwd[p], fd[p], pr[p], cwd[p], fd[p], s)
  BY <1>1, <1>2 DEF Tally
<1>11. Label(s) # "unlink2"
  BY <1>2 DEF Label, Putting
<1>12. <<dino, dir>>' \in Trees
  BY <1>2, <1>6, <1>7 DEF Trees
<1> QED
  BY <1>2, <1>3, <1>4, <1>6, <1>8, <1>9, <1>10, <1>11, <1>12, TypesKept

\* end_op(): the last call to leave commits.
LEMMA EndStep ==
  ASSUME IInv, NEW p \in Procs, End(p)
  PROVE  IInv'
\* What the last call to leave commits is a file system: no call owes an entry.
<1>CommitTree. ASSUME pr[p].st = "end", Commits(p)
               PROVE  FileSystem(dino, dir) /\ Rooted(dino, dir)
  <2> USE <1>CommitTree
  <2>1. ASSUME NEW i \in Inums, NEW q \in Procs
        PROVE  ~Owes(pr[q], i)
    <3>1. PICK r : r = pr[q]
      OBVIOUS
    <3>2. r.st \in {"idle", "end"} => ShapeAt(r, r.st)
      BY <3>1, Ready
    <3>3. CASE q = p
      BY <3>1, <3>2, <3>3, ZeroFree DEF ShapeAt, Owes
    <3>4. CASE q # p
      <4>1. r.st = "idle" \/ r.call = "getcwd"
        BY <3>1, <3>4 DEF Commits, InOp
      <4> QED
        BY <3>1, <3>2, <4>1 DEF ShapeAt, Owes
    <3> QED
      BY <3>3, <3>4
  <2>2. ASSUME NEW i \in Inums, dino[i].type \in {"file", "dev"}
        PROVE  dino[i].nlink = Cardinality(Entries(dino, dir, i))
    <3>1. PICK n, E : n = dino[i].nlink /\ E = Entries(dino, dir, i)
      OBVIOUS
    <3>2. Owing(i) = {}
      BY <2>1 DEF Owing
    <3>3. E \in Pool /\ {} \in Pool
      BY <3>1, Pools
    <3>4. Cardinality({}) = 0 /\ Cardinality(E) \in Nat
      BY <3>3 DEF IInv, Finite
    <3>5. n = Cardinality(E) + Cardinality(Owing(i))
      BY <2>2, <3>1 DEF IInv, TreeInv, LinkInv
    <3>6. n = Cardinality(E) + 0
      BY <3>2, <3>4, <3>5
    <3>7. n = Cardinality(E)
      BY SMTT(30), <3>4, <3>6
    <3> QED
      BY <3>1, <3>7
  <2> QED
    BY <2>2 DEF FileSystem, IInv, TreeInv, EntriesInv, IsDir, Alloc
<1>1. PICK r, s : r = pr[p] /\ s = Idle
  OBVIOUS
<1>2. /\ stopped = "none" /\ r.st = "end" /\ pr' = [pr EXCEPT ![p] = s]
      /\ UNCHANGED <<dino, dir, mem, lock, cwd, fd, leak, stopped>>
      /\ committed' = committed \/ (Commits(p) /\ committed' = <<dino, dir>>)
  BY <1>1 DEF End, Durable, At, Go, tree
<1>3. /\ r \in Frames /\ ShapeAt(r, "end") /\ r.puts = <<>> /\ Label(r) = "end" /\ InHand(r, fd[p])
      /\ mem \in Mem /\ leak \in [Inums -> Nat]
  BY <1>1, <1>2, Ready
<1>4. /\ s \in Frames /\ s.st = "idle" /\ s.call = "none" /\ s.x = 0 /\ s.y = 0 /\ s.sym = 0 /\ s.puts = <<>>
  BY <1>1, IdleFrame DEF Idle
<1>5. Fits(p, r, cwd[p], lock)
  BY <1>1, Facts
<1>6. ~Putting(s) /\ Label(s) = "idle" /\ Shape(s)
  BY SMTT(30), <1>4, NoSeq DEF Putting, Label, Shape, ShapeAt, Parents, Lookups
<1>7. Fits(p, s, cwd[p], lock)
  BY <1>3, <1>4, <1>5, <1>6 DEF Fits, HasParent, LocksX, LocksY, Makers
<1>8. Put(s, 1) = 0 /\ Put(s, 2) = 0 /\ Put(r, 1) = 0 /\ Put(r, 2) = 0
  BY <1>3, <1>4, PutOfNone
<1>9. InHand(s, fd[p])
  BY <1>3, <1>4, <1>8 DEF InHand, Live
<1>10. \A i \in Inums : Owes(s, i) <=> Owes(r, i)
  BY <1>3, <1>4, ZeroFree DEF Owes, ShapeAt
<1>11. CommittedInv' /\ committed' \in Trees
  <2>1. CASE committed' = committed
    BY <2>1 DEF IInv, CommittedInv, TypeOK
  <2>2. CASE Commits(p) /\ committed' = <<dino, dir>>
    <3>1. FileSystem(dino, dir) /\ Rooted(dino, dir)
      BY <1>1, <1>2, <2>2, <1>CommitTree
    <3>2. committed'[1] = dino /\ committed'[2] = dir
      BY <2>2
    <3>3. committed' \in Trees
      BY <2>2 DEF IInv, TypeOK
    <3> QED
      BY <3>1, <3>2, <3>3 DEF CommittedInv
  <2> QED
    BY <1>2, <2>1, <2>2
<1>12. TreeInv'
  BY <1>1, <1>2, <1>10, TreeKept
<1>13. Apart(p)
  BY <1>2 DEF Apart, IsDir, Alloc
<1>14. Fits(p, s, cwd[p], lock)' /\ InHand(s, fd[p])'
  <2>1. Fits(p, s, cwd[p], lock)'
    BY <1>2, <1>7 DEF Fits, IsDir
  <2>2. InHand(s, fd[p])'
    BY <1>2, <1>9 DEF InHand, Live, Alloc
  <2> QED
    BY <2>1, <2>2
<1>15. TypeOK'
  BY <1>2, <1>4, <1>11 DEF IInv, TypeOK
<1>16. Tally(cwd[p], fd[p], r, cwd[p], fd[p], s)
  <2>1. r.x = 0 /\ r.y = 0 /\ r.sym = 0
    BY <1>3 DEF ShapeAt
  <2> QED
    BY <1>2, <1>4, <1>8, <2>1 DEF Tally, Mine
<1> QED
  BY <1>1, <1>2, <1>4, <1>6, <1>11, <1>12, <1>13, <1>14, <1>15, <1>16, StepOf DEF Tally

=============================================================================
