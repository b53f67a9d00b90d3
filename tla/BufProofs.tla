----------------------------- MODULE BufProofs -----------------------------
(***************************************************************************)
(* Proofs about the buffer cache for any number of users, buffers and       *)
(* blocks, in three layers.  IInv is inductive by itself, failing disk and   *)
(* kill() included.  PinInv adds that few enough buffers are pinned, so that *)
(* bget() finds one.  CopyInv adds, for a disk that does not fail, that a    *)
(* valid buffer that is not dirty is a copy of its block.                    *)
(***************************************************************************)
EXTENDS BufCache, FiniteSetTheorems, TLAPS

\* Steps that need arithmetic or the theory of functions cite SMT.
USE ZenonT(30)

Places == {"out", "lock", "locksleep", "lockwoken", "rw", "iosleep", "iowoken", "have", "rel"}

TypeOK ==
    /\ blockno \in [Bufs -> Blocks \cup {None}]
    /\ valid \in [Bufs -> BOOLEAN] /\ dirty \in [Bufs -> BOOLEAN]
    /\ refcnt \in [Bufs -> Int]
    /\ data \in [Bufs -> Vals]
    /\ owner \in [Bufs -> Users \cup {None}]
    /\ lru \in [Bufs -> Bufs]
    /\ idequeue \in Seq(Bufs)
    /\ device \in {"idle", "busy", "done", "failed"}
    /\ disk \in [Blocks -> Vals]
    /\ pc \in [Users -> Places]
    /\ buf \in [Users -> Bufs \cup {0}]

\* A user has a buffer, of a block, exactly while it is in a call.
PlaceInv == \A u \in Users :
    IF pc[u] = "out" THEN buf[u] = 0 ELSE buf[u] \in Bufs /\ blockno[buf[u]] \in Blocks

\* A request in the queue, or about to be there, still has something to do; who has got
\* its buffer has it valid; who is woken early finds its request still in the queue.
RequestInv ==
    /\ \A i \in 1..Len(idequeue) : ~valid[idequeue[i]] \/ dirty[idequeue[i]]
    /\ \A u \in Users :
          /\ pc[u] = "rw" => ~valid[buf[u]] \/ dirty[buf[u]]
          /\ pc[u] = "have" => valid[buf[u]]
          /\ pc[u] = "iowoken" => \/ valid[buf[u]] /\ ~dirty[buf[u]]
                                 \/ buf[u] \in Range(idequeue)

IInv == /\ TypeOK /\ PlaceInv /\ RequestInv
        /\ OneBufferPerBlock /\ RefcntCountsUsers /\ LockExcludes
        /\ QueueIsWork /\ SleepersHaveWaker

\* The dirty buffers that nobody is writing are the ones the log pins.
Writing(b) == \E u \in Users : buf[u] = b /\ pc[u] \in {"rw", "iosleep", "iowoken"}
Pinned == {b \in Bufs : dirty[b] /\ ~Writing(b)}
PinInv == Cardinality(Pinned) <= MaxPinned

\* The users that refer to a buffer.
Holders == {u \in Users : buf[u] \in Bufs}

\* A valid buffer that is not dirty is a copy of the disk's block.
CopyInv ==
    /\ \A b \in Bufs : valid[b] \/ dirty[b] => blockno[b] \in Blocks
    /\ \A b \in Bufs : valid[b] /\ ~dirty[b] => data[b] = disk[blockno[b]]
    /\ device = "done" /\ dirty[Head(idequeue)] =>
          disk[blockno[Head(idequeue)]] = data[Head(idequeue)]
    /\ device # "failed"

-----------------------------------------------------------------------------
(* Facts about one state                                                    *)

LEMMA Consts == None \notin Users /\ None \notin Blocks /\ IsFiniteSet(Users) /\ NBUF \in Nat \ {0}
BY BufAssumption

LEMMA Owned ==
  ASSUME IInv, NEW u \in Users, NEW w \in Users, HasLock(u), HasLock(w), buf[u] = buf[w]
  PROVE  u = w
BY DEF IInv, LockExcludes

LEMMA FreeHasNoUser ==
  ASSUME IInv, NEW b \in Bufs, refcnt[b] = 0, NEW u \in Users
  PROVE  buf[u] # b
<1> DEFINE S == {w \in Users : buf[w] = b}
<1>1. IsFiniteSet(S)
  BY Consts, FS_Subset
<1>2. Cardinality(S) = 0
  BY DEF IInv, RefcntCountsUsers
<1>3. S = {}
  BY <1>1, <1>2, FS_EmptySet
<1> QED
  BY <1>3

LEMMA RefUp ==
  ASSUME TypeOK, RefcntCountsUsers, NEW u \in Users, NEW b \in Bufs, buf[u] = 0,
         refcnt' = [refcnt EXCEPT ![b] = @ + 1], buf' = [buf EXCEPT ![u] = b]
  PROVE  RefcntCountsUsers'
<1> SUFFICES ASSUME NEW c \in Bufs PROVE refcnt'[c] = Cardinality({w \in Users : buf'[w] = c})
  BY DEF RefcntCountsUsers
<1> DEFINE S == {w \in Users : buf[w] = c}
<1>1. IsFiniteSet(S) /\ refcnt[c] = Cardinality(S) /\ u \notin S
  BY SMTT(30), Consts, FS_Subset DEF RefcntCountsUsers, Bufs
<1>2. CASE c = b
  <2>1. {w \in Users : buf'[w] = c} = S \cup {u}
    BY <1>2 DEF TypeOK
  <2>2. Cardinality(S \cup {u}) = Cardinality(S) + 1
    BY <1>1, FS_AddElement
  <2>3. refcnt'[c] = refcnt[c] + 1
    BY <1>2 DEF TypeOK
  <2> QED
    BY <1>1, <2>1, <2>2, <2>3
<1>3. CASE c # b
  <2>1. {w \in Users : buf'[w] = c} = S
    BY <1>1, <1>3 DEF TypeOK
  <2> QED
    BY <1>1, <1>3, <2>1 DEF TypeOK
<1> QED
  BY <1>2, <1>3

LEMMA RefDown ==
  ASSUME TypeOK, RefcntCountsUsers, NEW u \in Users, NEW b \in Bufs, buf[u] = b,
         refcnt' = [refcnt EXCEPT ![b] = @ - 1], buf' = [buf EXCEPT ![u] = 0]
  PROVE  RefcntCountsUsers'
<1> SUFFICES ASSUME NEW c \in Bufs PROVE refcnt'[c] = Cardinality({w \in Users : buf'[w] = c})
  BY DEF RefcntCountsUsers
<1> DEFINE S == {w \in Users : buf[w] = c}
<1>1. IsFiniteSet(S) /\ refcnt[c] = Cardinality(S) /\ c # 0
  BY SMTT(30), Consts, FS_Subset DEF RefcntCountsUsers, Bufs
<1>2. CASE c = b
  <2>1. {w \in Users : buf'[w] = c} = S \ {u}
    BY <1>1, <1>2 DEF TypeOK
  <2>2. Cardinality(S \ {u}) = Cardinality(S) - 1
    BY <1>1, <1>2, FS_RemoveElement
  <2>3. refcnt'[c] = refcnt[c] - 1
    BY <1>2 DEF TypeOK
  <2> QED
    BY <1>1, <2>1, <2>2, <2>3
<1>3. CASE c # b
  <2>1. {w \in Users : buf'[w] = c} = S
    BY <1>1, <1>3 DEF TypeOK
  <2> QED
    BY <1>1, <1>3, <2>1 DEF TypeOK
<1> QED
  BY <1>2, <1>3

\* What is left alone stays right.
LEMMA Frame ==
  ASSUME IInv, UNCHANGED <<blockno, refcnt, buf>>
  PROVE  OneBufferPerBlock' /\ RefcntCountsUsers'
BY DEF IInv, OneBufferPerBlock, RefcntCountsUsers

LEMMA FrameQueue ==
  ASSUME IInv, UNCHANGED <<idequeue, device, buf>>,
         \A u \in Users : pc[u] \in {"iosleep", "iowoken"} => pc'[u] \in {"iosleep", "iowoken"}
  PROVE  QueueIsWork'
BY DEF IInv, QueueIsWork

LEMMA Waiter ==
  ASSUME IInv, NEW i \in 1..Len(idequeue)
  PROVE  /\ idequeue[i] \in Bufs
         /\ \E w \in Users : buf[w] = idequeue[i] /\ pc[w] \in {"iosleep", "iowoken"}
<1>1. idequeue \in Seq(Bufs) /\ i \in DOMAIN idequeue
  BY SMTT(30) DEF IInv, TypeOK
<1> QED
  BY SMTT(30), <1>1 DEF IInv, QueueIsWork

\* A user that bget() gives buffer b, which may be recycled only if nobody uses it.
LEMMA EnterInv ==
  ASSUME IInv, NEW u \in Users, pc[u] = "out", NEW b \in Bufs, blockno'[b] \in Blocks,
         blockno' \in [Bufs -> Blocks \cup {None}],
         valid' \in [Bufs -> BOOLEAN], dirty' \in [Bufs -> BOOLEAN],
         \A c \in Bufs : (\E w \in Users : buf[w] = c) =>
            blockno'[c] = blockno[c] /\ valid'[c] = valid[c] /\ dirty'[c] = dirty[c],
         OneBufferPerBlock',
         refcnt' = [refcnt EXCEPT ![b] = @ + 1], buf' = [buf EXCEPT ![u] = b],
         pc' = [pc EXCEPT ![u] = "lock"],
         UNCHANGED <<data, owner, lru, idequeue, device, disk>>
  PROVE  IInv'
<1> USE DEF IInv
<1>1. TypeOK'
  BY SMTT(30) DEF TypeOK, Places
<1>2. buf[u] = 0 /\ \A w \in Users \ {u} : buf'[w] = buf[w] /\ pc'[w] = pc[w]
  BY DEF PlaceInv, TypeOK
<1>3. PlaceInv'
  BY <1>2 DEF PlaceInv, TypeOK
<1>4. ASSUME NEW i \in 1..Len(idequeue) PROVE \E w \in Users \ {u} : buf[w] = idequeue[i] /\ pc[w] \in {"iosleep", "iowoken"}
  BY Waiter, pc[u] = "out"
<1>5. RequestInv'
  <2>1. ASSUME NEW i \in 1..Len(idequeue) PROVE ~valid'[idequeue[i]] \/ dirty'[idequeue[i]]
    <3>1. PICK w \in Users \ {u} : buf[w] = idequeue[i]
      BY <1>4
    <3>2. idequeue[i] \in Bufs /\ (~valid[idequeue[i]] \/ dirty[idequeue[i]])
      BY Waiter DEF RequestInv
    <3> QED
      BY <3>1, <3>2
  <2>2. ASSUME NEW w \in Users, pc'[w] \in {"rw", "have", "iowoken"}
        PROVE  pc[w] = pc'[w] /\ buf'[w] = buf[w] /\ buf[w] \in Bufs
               /\ valid'[buf[w]] = valid[buf[w]] /\ dirty'[buf[w]] = dirty[buf[w]]
    BY <1>2, <2>2 DEF PlaceInv, TypeOK
  <2> QED
    BY SMTT(30), <2>1, <2>2 DEF RequestInv
<1>6. RefcntCountsUsers'
  BY <1>2, RefUp
<1>7. LockExcludes'
  BY <1>2 DEF LockExcludes, HasLock, TypeOK
<1>8. QueueIsWork'
  <2>1. \A w \in Users : pc[w] \in {"iosleep", "iowoken"} => pc'[w] = pc[w] /\ buf'[w] = buf[w]
    BY <1>2
  <2> QED
    BY SMTT(30), <2>1 DEF QueueIsWork
<1>9. SleepersHaveWaker'
  BY <1>2 DEF SleepersHaveWaker, TypeOK
<1> QED
  BY <1>1, <1>3, <1>5, <1>6, <1>7, <1>8, <1>9

LEMMA BgetHitInv == ASSUME IInv, NEW u \in Users, NEW blk \in Blocks, BgetHit(u, blk) PROVE IInv'
<1>1. PICK i \in Bufs : /\ lru[i] \in Cached(blk) /\ refcnt' = Ref(lru[i])
                        /\ buf' = [buf EXCEPT ![u] = lru[i]]
  BY DEF BgetHit
<1>2. lru[i] \in Bufs /\ blockno[lru[i]] = blk
  BY <1>1 DEF Cached
<1>3. UNCHANGED <<blockno, valid, dirty>> /\ OneBufferPerBlock'
  BY DEF BgetHit, IInv, OneBufferPerBlock, flags
<1>4. /\ blockno' \in [Bufs -> Blocks \cup {None}]
      /\ valid' \in [Bufs -> BOOLEAN] /\ dirty' \in [Bufs -> BOOLEAN]
  BY <1>3 DEF IInv, TypeOK
<1>5. /\ pc[u] = "out" /\ pc' = [pc EXCEPT ![u] = "lock"]
      /\ UNCHANGED <<data, owner, lru, idequeue, device, disk>>
  BY DEF BgetHit, Goto
<1> QED
  BY <1>1, <1>2, <1>3, <1>4, <1>5, EnterInv DEF Ref

LEMMA PanicInv == ASSUME IInv, Panic PROVE IInv'
BY SMTT(30) DEF Panic, bufVars, flags, IInv, TypeOK, PlaceInv, RequestInv, OneBufferPerBlock, RefcntCountsUsers,
       LockExcludes, HasLock, QueueIsWork, SleepersHaveWaker

LEMMA BgetRecycleInv == ASSUME IInv, NEW u \in Users, NEW blk \in Blocks, BgetRecycle(u, blk) PROVE IInv'
<1>1. CASE Panic
  BY <1>1, PanicInv
<1>2. CASE ~Panic
  <2>1. PICK i \in Bufs : /\ Unused(lru[i])
                          /\ blockno' = [blockno EXCEPT ![lru[i]] = blk]
                          /\ valid' = [valid EXCEPT ![lru[i]] = FALSE]
                          /\ dirty' = [dirty EXCEPT ![lru[i]] = FALSE]
                          /\ refcnt' = [refcnt EXCEPT ![lru[i]] = 1]
                          /\ buf' = [buf EXCEPT ![u] = lru[i]]
    BY <1>2 DEF BgetRecycle
  <2>2. lru[i] \in Bufs /\ refcnt[lru[i]] = 0
    BY <2>1 DEF IInv, TypeOK, Unused
  <2> DEFINE b == lru[i]
  <2>3. blockno'[b] \in Blocks /\ blockno' \in [Bufs -> Blocks \cup {None}]
    BY <2>1, <2>2 DEF IInv, TypeOK
  <2>4. valid' \in [Bufs -> BOOLEAN] /\ dirty' \in [Bufs -> BOOLEAN]
    BY <2>1, <2>2 DEF IInv, TypeOK
  <2>5. \A c \in Bufs : (\E w \in Users : buf[w] = c) => c # b
    BY <2>2, FreeHasNoUser
  <2>6. \A c \in Bufs \ {b} : blockno'[c] = blockno[c] /\ valid'[c] = valid[c] /\ dirty'[c] = dirty[c]
    BY <2>1, <2>2 DEF IInv, TypeOK
  <2>7. OneBufferPerBlock'
    BY <1>2, <2>1, <2>2 DEF IInv, TypeOK, OneBufferPerBlock, BgetRecycle, Cached
  <2>8. refcnt' = [refcnt EXCEPT ![b] = @ + 1]
    BY SMTT(30), <2>1, <2>2 DEF IInv, TypeOK
  <2>9. /\ pc[u] = "out" /\ pc' = [pc EXCEPT ![u] = "lock"]
        /\ UNCHANGED <<data, owner, lru, idequeue, device, disk>>
    BY <1>2 DEF BgetRecycle, Goto
  <2> HIDE DEF b
  <2> QED
    BY <2>1, <2>2, <2>3, <2>4, <2>5, <2>6, <2>7, <2>8, <2>9, EnterInv DEF b
<1> QED
  BY <1>1, <1>2

LEMMA AcquireInv == ASSUME IInv, NEW u \in Users, Acquire(u) PROVE IInv'
<1> USE DEF IInv
<1>1. /\ owner[buf[u]] = None /\ owner' = [owner EXCEPT ![buf[u]] = u]
      /\ pc' = [pc EXCEPT ![u] = IF ~valid[buf[u]] THEN "rw" ELSE "have"]
      /\ pc[u] \in {"lock", "lockwoken"}
      /\ UNCHANGED <<blockno, valid, dirty, refcnt, data, lru, idequeue, device, disk, buf>>
  BY DEF Acquire, LockFree, Goto, NeedRead, flags
<1>2. /\ buf[u] \in Bufs /\ \A w \in Users \ {u} : pc'[w] = pc[w]
      /\ pc'[u] \in {"rw", "have"} /\ (pc'[u] = "rw" <=> ~valid[buf[u]])
  BY <1>1 DEF TypeOK, PlaceInv
<1>3. TypeOK'
  BY <1>1, <1>2 DEF TypeOK, Places
<1>4. PlaceInv'
  BY <1>1, <1>2 DEF PlaceInv
<1>5. RequestInv'
  BY <1>1, <1>2 DEF RequestInv
<1>6. OneBufferPerBlock' /\ RefcntCountsUsers'
  BY <1>1, Frame
<1>7. LockExcludes'
  <2>1. ASSUME NEW w \in Users, w # u, HasLock(w) PROVE buf[w] \in Bufs /\ buf[w] # buf[u] /\ owner[buf[w]] = w
    BY <1>1, <2>1, Consts DEF LockExcludes, HasLock, PlaceInv
  <2>2. \A w \in Users : HasLock(w)' => w = u \/ HasLock(w)
    BY <1>2 DEF HasLock
  <2> QED
    BY <1>1, <1>2, <2>1, <2>2 DEF LockExcludes, TypeOK
<1>8. QueueIsWork'
  BY <1>1, <1>2, FrameQueue
<1>9. SleepersHaveWaker'
  <2>1. \A b \in Bufs : owner[b] # None => owner'[b] # None
    BY <1>1, Consts DEF TypeOK
  <2> QED
    BY <1>1, <1>2, <2>1 DEF SleepersHaveWaker, PlaceInv
<1> QED
  BY <1>3, <1>4, <1>5, <1>6, <1>7, <1>8, <1>9

LEMMA AcquireSleepsInv == ASSUME IInv, NEW u \in Users, AcquireSleeps(u) PROVE IInv'
<1> USE DEF IInv
<1>1. /\ owner[buf[u]] # None /\ pc' = [pc EXCEPT ![u] = "locksleep"]
      /\ pc[u] \in {"lock", "lockwoken"}
      /\ UNCHANGED <<blockno, valid, dirty, refcnt, data, owner, lru, idequeue, device, disk, buf>>
  BY DEF AcquireSleeps, LockFree, Goto, flags, bufVars
<1>2. pc'[u] = "locksleep" /\ \A w \in Users \ {u} : pc'[w] = pc[w]
  BY <1>1 DEF TypeOK
<1>3. TypeOK'
  BY <1>1 DEF TypeOK, Places
<1>4. PlaceInv'
  BY <1>1, <1>2 DEF PlaceInv
<1>5. RequestInv'
  BY <1>1, <1>2 DEF RequestInv
<1>6. OneBufferPerBlock' /\ RefcntCountsUsers'
  BY <1>1, Frame
<1>7. LockExcludes'
  BY <1>1, <1>2 DEF LockExcludes, HasLock
<1>8. QueueIsWork'
  BY <1>1, <1>2, FrameQueue
<1>9. SleepersHaveWaker'
  BY <1>1, <1>2 DEF SleepersHaveWaker
<1> QED
  BY <1>3, <1>4, <1>5, <1>6, <1>7, <1>8, <1>9

\* bwrite() and log_write(): the holder changes the data of its buffer and marks it dirty.
LEMMA ModifyInv == ASSUME IInv, NEW u \in Users, Bwrite(u) \/ Pin(u) PROVE IInv'
<1> USE DEF IInv
<1>1. /\ pc[u] = "have" /\ dirty' = [dirty EXCEPT ![buf[u]] = TRUE]
      /\ \E v \in Vals : data' = [data EXCEPT ![buf[u]] = v]
      /\ pc' = [pc EXCEPT ![u] = "rw"] \/ pc' = pc
      /\ UNCHANGED <<blockno, valid, refcnt, owner, lru, idequeue, device, disk, buf>>
  BY DEF Bwrite, Pin, Goto
<1>2. /\ buf[u] \in Bufs /\ \A w \in Users \ {u} : pc'[w] = pc[w]
      /\ pc'[u] \in {"rw", "have"} /\ dirty'[buf[u]]
      /\ \A b \in Bufs : b # buf[u] => dirty'[b] = dirty[b]
  BY <1>1 DEF TypeOK, PlaceInv
<1>3. TypeOK'
  <2>1. dirty' \in [Bufs -> BOOLEAN] /\ data' \in [Bufs -> Vals]
    BY SMTT(30), <1>1, <1>2 DEF TypeOK
  <2>2. pc' \in [Users -> Places]
    BY <1>1 DEF TypeOK, Places
  <2> QED
    BY <1>1, <2>1, <2>2 DEF TypeOK
<1>4. PlaceInv'
  BY <1>1, <1>2 DEF PlaceInv
<1>5. RequestInv'
  <2>1. ASSUME NEW i \in 1..Len(idequeue) PROVE ~valid[idequeue[i]] \/ dirty'[idequeue[i]]
    BY <1>2, Waiter DEF RequestInv
  <2>2. ASSUME NEW w \in Users, w # u, pc[w] = "iowoken" PROVE buf[w] \in Bufs /\ buf[w] # buf[u]
    BY <1>1, <2>2, Owned DEF HasLock, PlaceInv
  <2>3. ASSUME NEW w \in Users, w # u, pc[w] = "rw" PROVE ~valid[buf[w]] \/ dirty'[buf[w]]
    BY <1>2, <2>3 DEF RequestInv, PlaceInv
  <2> QED
    BY <1>1, <1>2, <2>1, <2>2, <2>3 DEF RequestInv
<1>6. OneBufferPerBlock' /\ RefcntCountsUsers'
  BY <1>1, Frame
<1>7. LockExcludes'
  BY <1>1, <1>2 DEF LockExcludes, HasLock
<1>8. QueueIsWork'
  BY <1>1, <1>2, FrameQueue
<1>9. SleepersHaveWaker'
  BY <1>1, <1>2 DEF SleepersHaveWaker
<1> QED
  BY <1>3, <1>4, <1>5, <1>6, <1>7, <1>8, <1>9

LEMMA ReleasesleepInv == ASSUME IInv, NEW u \in Users, Releasesleep(u) PROVE IInv'
<1> USE DEF IInv
<1>1. /\ pc[u] = "have" /\ owner' = [owner EXCEPT ![buf[u]] = None]
      /\ pc' = [Wakeup(pc, "locksleep", "lockwoken", buf[u]) EXCEPT ![u] = "rel"]
      /\ UNCHANGED <<blockno, valid, dirty, refcnt, data, lru, idequeue, device, disk, buf>>
  BY DEF Releasesleep, flags
<1>2. /\ pc'[u] = "rel" /\ buf[u] \in Bufs
      /\ \A w \in Users \ {u} : pc'[w] = IF pc[w] = "locksleep" /\ buf[w] = buf[u] THEN "lockwoken" ELSE pc[w]
  BY <1>1 DEF TypeOK, Wakeup, PlaceInv
<1>3. TypeOK'
  BY <1>1, <1>2 DEF TypeOK, Places, Wakeup
<1>4. PlaceInv'
  BY SMTT(30), <1>1, <1>2 DEF PlaceInv
<1>5. RequestInv'
  BY SMTT(30), <1>1, <1>2 DEF RequestInv
<1>6. OneBufferPerBlock' /\ RefcntCountsUsers'
  BY <1>1, Frame
<1>7. LockExcludes'
  <2>1. ASSUME NEW w \in Users, HasLock(w)' PROVE HasLock(w) /\ w # u /\ buf[w] \in Bufs /\ buf[w] # buf[u]
    BY SMTT(30), <1>1, <1>2, <2>1, Owned DEF HasLock, PlaceInv
  <2> QED
    BY <1>1, <2>1 DEF LockExcludes, TypeOK
<1>8. QueueIsWork'
  BY <1>1, <1>2, FrameQueue
<1>9. SleepersHaveWaker'
  BY SMTT(30), <1>1, <1>2 DEF SleepersHaveWaker, PlaceInv, TypeOK
<1> QED
  BY <1>3, <1>4, <1>5, <1>6, <1>7, <1>8, <1>9

LEMMA ToFrontIn ==
  ASSUME lru \in [Bufs -> Bufs], NEW b \in Bufs
  PROVE  ToFront(b) \in [Bufs -> Bufs]
<1> DEFINE at == CHOOSE i \in Bufs : lru[i] = b
<1> HIDE DEF at
<1>1. \A i \in Bufs : i # 1 => i - 1 \in Bufs
  BY SMTT(30), Consts DEF Bufs
<1>2. [i \in Bufs |-> IF i = 1 THEN b ELSE IF i <= at THEN lru[i - 1] ELSE lru[i]] \in [Bufs -> Bufs]
  BY <1>1
<1> QED
  BY <1>2 DEF ToFront, at

LEMMA BrelseInv == ASSUME IInv, NEW u \in Users, Brelse(u) PROVE IInv'
<1> USE DEF IInv
<1>1. /\ pc[u] = "rel" /\ refcnt' = [refcnt EXCEPT ![buf[u]] = @ - 1]
      /\ lru' = IF refcnt[buf[u]] = 1 THEN ToFront(buf[u]) ELSE lru
      /\ buf' = [buf EXCEPT ![u] = 0] /\ pc' = [pc EXCEPT ![u] = "out"]
      /\ UNCHANGED <<blockno, valid, dirty, data, owner, idequeue, device, disk>>
  BY DEF Brelse, flags, Goto
<1>2. /\ pc'[u] = "out" /\ buf[u] \in Bufs /\ buf'[u] = 0
      /\ \A w \in Users \ {u} : pc'[w] = pc[w] /\ buf'[w] = buf[w]
  BY <1>1 DEF TypeOK, PlaceInv
<1>3. TypeOK'
  <2>1. lru' \in [Bufs -> Bufs]
    BY <1>1, <1>2, ToFrontIn DEF TypeOK
  <2> QED
    BY SMTT(30), <1>1, <1>2, <2>1 DEF TypeOK, Places
<1>4. PlaceInv'
  BY <1>1, <1>2 DEF PlaceInv
<1>5. RequestInv'
  BY <1>1, <1>2 DEF RequestInv
<1>6. OneBufferPerBlock'
  BY <1>1 DEF OneBufferPerBlock
<1>7. RefcntCountsUsers'
  BY <1>1, <1>2, RefDown
<1>8. LockExcludes'
  BY <1>1, <1>2 DEF LockExcludes, HasLock
<1>9. QueueIsWork'
  <2>1. \A w \in Users : pc[w] \in {"iosleep", "iowoken"} => pc'[w] = pc[w] /\ buf'[w] = buf[w]
    BY <1>1, <1>2
  <2> QED
    BY SMTT(30), <1>1, <2>1 DEF QueueIsWork
<1>10. SleepersHaveWaker'
  BY <1>1, <1>2 DEF SleepersHaveWaker
<1> QED
  BY <1>3, <1>4, <1>5, <1>6, <1>7, <1>8, <1>9, <1>10

LEMMA IderwInv == ASSUME IInv, NEW u \in Users, Iderw(u) PROVE IInv'
<1> USE DEF IInv
<1>1. CASE Panic
  BY <1>1, PanicInv
<1>2. ASSUME ~Panic PROVE IInv'
  <2>1. /\ pc[u] = "rw" /\ (~valid[buf[u]] \/ dirty[buf[u]])
        /\ idequeue' = Append(idequeue, buf[u])
        /\ device' = IF idequeue = <<>> THEN "busy" ELSE device
        /\ pc' = [pc EXCEPT ![u] = "iosleep"]
        /\ UNCHANGED <<blockno, valid, dirty, refcnt, data, owner, lru, disk, buf>>
    BY <1>2 DEF Iderw, Goto, Starts, bufVars, flags, TypeOK, PlaceInv
  <2>2. pc'[u] = "iosleep" /\ buf[u] \in Bufs /\ \A w \in Users \ {u} : pc'[w] = pc[w]
    BY <2>1 DEF TypeOK, PlaceInv
  <2>3. /\ idequeue \in Seq(Bufs) /\ Len(idequeue) \in Nat
        /\ idequeue' \in Seq(Bufs) /\ Len(idequeue') = Len(idequeue) + 1
        /\ \A i \in 1..Len(idequeue) : idequeue'[i] = idequeue[i]
        /\ idequeue'[Len(idequeue) + 1] = buf[u]
        /\ DOMAIN idequeue = 1..Len(idequeue) /\ DOMAIN idequeue' = 1..(Len(idequeue) + 1)
    BY SMTT(30), <2>1, <2>2 DEF TypeOK
  <2>4. ASSUME NEW i \in 1..Len(idequeue) PROVE idequeue[i] # buf[u]
    <3>1. PICK w \in Users : buf[w] = idequeue[i] /\ pc[w] \in {"iosleep", "iowoken"}
      BY Waiter
    <3> QED
      BY <2>1, <3>1, Owned DEF HasLock
  <2>5. TypeOK'
    BY <2>1, <2>2, <2>3 DEF TypeOK, Places
  <2>6. PlaceInv'
    BY <2>1, <2>2 DEF PlaceInv
  <2>7. /\ \A x \in Range(idequeue) : x \in Range(idequeue')
        /\ buf[u] \in Range(idequeue')
    BY SMTT(30), <2>3 DEF Range
  <2>8. RequestInv'
    <3>1. ASSUME NEW i \in 1..Len(idequeue') PROVE ~valid'[idequeue'[i]] \/ dirty'[idequeue'[i]]
      <4>1. CASE i = Len(idequeue) + 1
        BY <2>1, <2>3, <4>1
      <4>2. CASE i \in 1..Len(idequeue)
        BY <2>1, <2>3, <4>2 DEF RequestInv
      <4> QED
        BY SMTT(30), <2>3, <4>1, <4>2
    <3> QED
      BY <2>1, <2>2, <2>7, <3>1 DEF RequestInv
  <2>9. OneBufferPerBlock' /\ RefcntCountsUsers'
    BY <2>1, Frame
  <2>10. LockExcludes'
    BY <2>1, <2>2 DEF LockExcludes, HasLock
  <2>11. QueueIsWork'
    <3>1. IsInjective(idequeue')
      <4>1. \A i, j \in 1..Len(idequeue) : idequeue[i] = idequeue[j] => i = j
        BY <2>3 DEF QueueIsWork, IsInjective
      <4>2. \A i, j \in 1..(Len(idequeue) + 1) : idequeue'[i] = idequeue'[j] => i = j
        BY SMTT(30), <2>3, <2>4, <4>1
      <4> QED
        BY <2>3, <4>2 DEF IsInjective
    <3>2. (device' = "idle") = (idequeue' = <<>>)
      BY SMTT(30), <2>1, <2>3 DEF QueueIsWork, TypeOK
    <3>3. ASSUME NEW i \in 1..(Len(idequeue) + 1)
          PROVE  \E w \in Users : buf'[w] = idequeue'[i] /\ pc'[w] \in {"iosleep", "iowoken"}
      <4>1. CASE i = Len(idequeue) + 1
        BY <2>1, <2>2, <2>3, <4>1
      <4>2. CASE i \in 1..Len(idequeue)
        BY SMTT(30), <2>1, <2>2, <2>3, <4>2, Waiter
      <4> QED
        BY SMTT(30), <2>3, <4>1, <4>2
    <3> QED
      BY SMTT(30), <2>3, <3>1, <3>2, <3>3 DEF QueueIsWork
  <2>12. SleepersHaveWaker'
    BY <2>1, <2>2, <2>7 DEF SleepersHaveWaker
  <2> QED
    BY <2>5, <2>6, <2>8, <2>9, <2>10, <2>11, <2>12
<1> QED
  BY <1>1, <1>2

\* A sleeper wakes, in iderw() or because of kill(), or the disk is done: only places and
\* the device's state change.
LEMMA WakeInv == ASSUME IInv, NEW u \in Users, IderwWoken(u) \/ Kill(u) PROVE IInv'
<1> USE DEF IInv
<1>1. /\ \/ pc[u] = "iowoken" /\ pc' = [pc EXCEPT ![u] = IF valid[buf[u]] /\ ~dirty[buf[u]] THEN "have" ELSE "iosleep"]
         \/ pc[u] = "locksleep" /\ pc' = [pc EXCEPT ![u] = "lockwoken"]
         \/ pc[u] = "iosleep" /\ pc' = [pc EXCEPT ![u] = "iowoken"]
      /\ UNCHANGED <<blockno, valid, dirty, refcnt, data, owner, lru, idequeue, device, disk, buf>>
  BY DEF IderwWoken, Kill, Goto, bufVars, flags
<1>2. /\ \A w \in Users \ {u} : pc'[w] = pc[w]
      /\ \/ pc[u] = "iowoken" /\ pc'[u] = IF valid[buf[u]] /\ ~dirty[buf[u]] THEN "have" ELSE "iosleep"
         \/ pc[u] = "locksleep" /\ pc'[u] = "lockwoken"
         \/ pc[u] = "iosleep" /\ pc'[u] = "iowoken"
  BY <1>1 DEF TypeOK
<1>3. TypeOK'
  BY <1>1 DEF TypeOK, Places
<1>4. PlaceInv'
  BY <1>1, <1>2 DEF PlaceInv
<1>5. RequestInv'
  BY <1>1, <1>2 DEF RequestInv, SleepersHaveWaker
<1>6. OneBufferPerBlock' /\ RefcntCountsUsers'
  BY <1>1, Frame
<1>7. LockExcludes'
  BY <1>1, <1>2 DEF LockExcludes, HasLock
<1>8. QueueIsWork'
  <2>1. ASSUME NEW i \in 1..Len(idequeue)
        PROVE  \E w \in Users : buf[w] = idequeue[i] /\ pc'[w] \in {"iosleep", "iowoken"}
    <3>1. PICK w \in Users : buf[w] = idequeue[i] /\ pc[w] \in {"iosleep", "iowoken"}
      BY Waiter
    <3>2. ~(valid[buf[w]] /\ ~dirty[buf[w]])
      BY <3>1 DEF RequestInv
    <3> QED
      BY <1>2, <3>1, <3>2
  <2>2. DOMAIN idequeue = 1..Len(idequeue)
    BY SMTT(30) DEF TypeOK
  <2> QED
    BY <1>1, <2>1, <2>2 DEF QueueIsWork
<1>9. SleepersHaveWaker'
  BY <1>1, <1>2 DEF SleepersHaveWaker, RequestInv
<1> QED
  BY <1>3, <1>4, <1>5, <1>6, <1>7, <1>8, <1>9

LEMMA HeadWaiter ==
  ASSUME IInv, idequeue # <<>>
  PROVE  /\ Head(idequeue) \in Bufs /\ Head(idequeue) = idequeue[1] /\ 1 \in 1..Len(idequeue)
         /\ \E w \in Users : buf[w] = Head(idequeue) /\ pc[w] \in {"iosleep", "iowoken"}
<1>1. idequeue \in Seq(Bufs)
  BY DEF IInv, TypeOK
<1>2. Head(idequeue) = idequeue[1] /\ 1 \in 1..Len(idequeue)
  BY SMTT(30), <1>1
<1> QED
  BY <1>2, Waiter

LEMMA DeviceInv == ASSUME IInv, DiskDone \/ DiskFails PROVE IInv'
<1> USE DEF IInv
<1>1. /\ device = "busy" /\ device' \in {"done", "failed"}
      /\ UNCHANGED <<blockno, valid, dirty, refcnt, data, owner, lru, idequeue, pc, buf>>
  BY DEF DiskDone, DiskFails, bufVars, flags
<1>2. idequeue # <<>>
  BY <1>1 DEF QueueIsWork
<1>3. TypeOK'
  <2>1. Head(idequeue) \in Bufs /\ blockno[Head(idequeue)] \in Blocks
    BY <1>2, HeadWaiter DEF PlaceInv
  <2>4. disk' \in [Blocks -> Vals]
    BY <2>1 DEF TypeOK, DiskDone, DiskFails
  <2> QED
    BY <1>1, <2>4 DEF TypeOK
<1>4. PlaceInv' /\ RequestInv' /\ LockExcludes' /\ SleepersHaveWaker'
  BY <1>1 DEF PlaceInv, RequestInv, LockExcludes, HasLock, SleepersHaveWaker
<1>5. OneBufferPerBlock' /\ RefcntCountsUsers'
  BY <1>1, Frame
<1>6. QueueIsWork'
  BY <1>1, <1>2 DEF QueueIsWork
<1> QED
  BY <1>3, <1>4, <1>5, <1>6

LEMMA IdeintrInv == ASSUME IInv, Ideintr PROVE IInv'
<1> USE DEF IInv
<1> DEFINE b == Head(idequeue)
<1>1. /\ device \in {"done", "failed"} /\ idequeue' = Tail(idequeue)
      /\ data' = IF ~dirty[b] /\ device = "done" THEN [data EXCEPT ![b] = disk[blockno[b]]] ELSE data
      /\ valid' = [valid EXCEPT ![b] = TRUE] /\ dirty' = [dirty EXCEPT ![b] = FALSE]
      /\ pc' = Wakeup(pc, "iosleep", "iowoken", b)
      /\ device' = IF Tail(idequeue) = <<>> THEN "idle" ELSE "busy"
      /\ UNCHANGED <<blockno, refcnt, owner, lru, disk, buf>>
  BY DEF Ideintr, StartNext
<1>2. idequeue # <<>> /\ idequeue \in Seq(Bufs)
  BY <1>1 DEF QueueIsWork, TypeOK
<1>3. PICK h \in Users : buf[h] = b /\ pc[h] \in {"iosleep", "iowoken"}
  BY <1>2, HeadWaiter
<1>4. b \in Bufs /\ blockno[b] \in Blocks
  BY <1>2, <1>3, HeadWaiter DEF PlaceInv
<1>5. /\ Len(idequeue) \in Nat /\ Len(idequeue) > 0 /\ b = idequeue[1]
      /\ idequeue' \in Seq(Bufs) /\ Len(idequeue') = Len(idequeue) - 1
      /\ \A i \in 1..(Len(idequeue) - 1) : idequeue'[i] = idequeue[i + 1]
      /\ DOMAIN idequeue = 1..Len(idequeue) /\ DOMAIN idequeue' = 1..(Len(idequeue) - 1)
  BY SMTT(30), <1>1, <1>2
<1>6. \A i, j \in 1..Len(idequeue) : idequeue[i] = idequeue[j] => i = j
  BY <1>5 DEF QueueIsWork, IsInjective
<1>7. /\ valid'[b] /\ ~dirty'[b]
      /\ \A c \in Bufs : c # b => valid'[c] = valid[c] /\ dirty'[c] = dirty[c]
  BY <1>1, <1>4 DEF TypeOK
<1>8. \A w \in Users : pc'[w] = IF pc[w] = "iosleep" /\ buf[w] = b THEN "iowoken" ELSE pc[w]
  BY <1>1 DEF Wakeup
<1>9. \A w \in Users : HasLock(w) /\ buf[w] = b => w = h
  BY <1>3, Owned DEF HasLock
<1> HIDE DEF b
<1>10. TypeOK'
  <2>1. data' \in [Bufs -> Vals]
    BY <1>1, <1>4 DEF TypeOK
  <2>2. pc' \in [Users -> Places]
    BY <1>1 DEF TypeOK, Wakeup, Places
  <2>3. valid' \in [Bufs -> BOOLEAN] /\ dirty' \in [Bufs -> BOOLEAN]
    BY <1>1, <1>4 DEF TypeOK
  <2> QED
    BY <1>1, <1>5, <2>1, <2>2, <2>3 DEF TypeOK
<1>11. PlaceInv'
  BY <1>1, <1>8 DEF PlaceInv
<1>12. ASSUME NEW i \in 1..(Len(idequeue) - 1)
       PROVE  i + 1 \in 1..Len(idequeue) /\ idequeue'[i] = idequeue[i + 1] /\ idequeue'[i] # b
  BY SMTT(30), <1>5, <1>6
<1>13. \A x \in Range(idequeue) : x # b => x \in Range(idequeue')
  <2> SUFFICES ASSUME NEW x \in Range(idequeue), x # b PROVE x \in Range(idequeue')
    OBVIOUS
  <2>1. PICK i \in 1..Len(idequeue) : x = idequeue[i]
    BY <1>5 DEF Range
  <2>2. i # 1 /\ i - 1 \in 1..(Len(idequeue) - 1)
    BY SMTT(30), <1>5, <2>1
  <2>3. idequeue'[i - 1] = x
    BY SMTT(30), <1>5, <2>1, <2>2
  <2> QED
    BY <1>5, <2>2, <2>3 DEF Range
<1>14. RequestInv'
  <2>1. ASSUME NEW i \in 1..Len(idequeue') PROVE ~valid'[idequeue'[i]] \/ dirty'[idequeue'[i]]
    <3>1. idequeue'[i] \in Bufs /\ idequeue'[i] # b /\ (~valid[idequeue'[i]] \/ dirty[idequeue'[i]])
      BY <1>5, <1>12, Waiter DEF RequestInv
    <3> QED
      BY <1>7, <3>1
  <2>2. ASSUME NEW w \in Users, pc'[w] = "rw" PROVE ~valid'[buf[w]] \/ dirty'[buf[w]]
    BY <1>3, <1>7, <1>8, <1>9, <2>2 DEF RequestInv, HasLock, PlaceInv
  <2>3. ASSUME NEW w \in Users, pc'[w] = "have" PROVE valid'[buf[w]]
    BY <1>7, <1>8, <2>3 DEF RequestInv, PlaceInv
  <2>4. ASSUME NEW w \in Users, pc'[w] = "iowoken"
        PROVE  (valid'[buf[w]] /\ ~dirty'[buf[w]]) \/ buf[w] \in Range(idequeue')
    BY <1>7, <1>8, <1>13, <2>4 DEF RequestInv, PlaceInv
  <2> QED
    BY <1>1, <2>1, <2>2, <2>3, <2>4 DEF RequestInv
<1>15. OneBufferPerBlock' /\ RefcntCountsUsers'
  BY <1>1, Frame
<1>16. LockExcludes'
  BY <1>1, <1>8 DEF LockExcludes, HasLock
<1>17. QueueIsWork'
  <2>1. IsInjective(idequeue')
    <3>1. \A i, j \in 1..(Len(idequeue) - 1) : idequeue'[i] = idequeue'[j] => i = j
      BY SMTT(30), <1>5, <1>6, <1>12
    <3> QED
      BY <1>5, <3>1 DEF IsInjective
  <2>2. ASSUME NEW i \in 1..(Len(idequeue) - 1)
        PROVE  \E w \in Users : buf'[w] = idequeue'[i] /\ pc'[w] \in {"iosleep", "iowoken"}
    BY SMTT(30), <1>1, <1>8, <1>12, Waiter
  <2>3. (device' = "idle") = (idequeue' = <<>>)
    BY <1>1
  <2> QED
    BY <1>5, <2>1, <2>2, <2>3 DEF QueueIsWork
<1>18. SleepersHaveWaker'
  <2>1. ASSUME NEW w \in Users, pc'[w] = "iosleep" PROVE buf[w] \in Range(idequeue')
    BY <1>8, <1>13, <2>1 DEF SleepersHaveWaker
  <2> QED
    BY <1>1, <1>8, <2>1 DEF SleepersHaveWaker
<1> QED
  BY <1>10, <1>11, <1>14, <1>15, <1>16, <1>17, <1>18

LEMMA InitInv == Init => IInv
<1> SUFFICES ASSUME Init PROVE IInv
  OBVIOUS
<1>1. TypeOK
  BY SMTT(30), Consts DEF Init, TypeOK, Places, Bufs
<1>2. RefcntCountsUsers
  <2>1. \A b \in Bufs : {u \in Users : buf[u] = b} = {}
    BY SMTT(30) DEF Init, Bufs
  <2> QED
    BY <2>1, FS_EmptySet DEF Init, RefcntCountsUsers
<1>3. PlaceInv /\ RequestInv /\ OneBufferPerBlock /\ LockExcludes /\ SleepersHaveWaker
  BY DEF Init, PlaceInv, RequestInv, OneBufferPerBlock, LockExcludes, HasLock, SleepersHaveWaker
<1>4. QueueIsWork
  BY SMTT(30) DEF Init, QueueIsWork, IsInjective
<1> QED
  BY <1>1, <1>2, <1>3, <1>4 DEF IInv

LEMMA StutterInv == ASSUME IInv, UNCHANGED vars PROVE IInv'
BY SMTT(30) DEF vars, bufVars, flags, IInv, TypeOK, PlaceInv, RequestInv, OneBufferPerBlock, RefcntCountsUsers,
       LockExcludes, HasLock, QueueIsWork, SleepersHaveWaker

LEMMA NextInv == ASSUME IInv, [Next]_vars PROVE IInv'
BY BgetHitInv, BgetRecycleInv, AcquireInv, AcquireSleepsInv, ModifyInv, ReleasesleepInv, BrelseInv,
   IderwInv, WakeInv, DeviceInv, IdeintrInv, StutterInv DEF Next, Bget, Step, Disk

\* The cache and the disk queue agree with their users in every reachable state, for any
\* number of users, buffers and blocks, failing disk and kill() included: a block has one
\* buffer, a reference count its users, a sleep lock its holder, a queued request its
\* waiter, and nobody sleeps on a lock that is free or on a request that is done.
THEOREM CacheAgrees ==
  Spec => [](/\ OneBufferPerBlock /\ RefcntCountsUsers /\ LockExcludes
             /\ QueueIsWork /\ SleepersHaveWaker)
<1>1. IInv => /\ OneBufferPerBlock /\ RefcntCountsUsers /\ LockExcludes
              /\ QueueIsWork /\ SleepersHaveWaker
  BY DEF IInv
<1> QED
  BY InitInv, NextInv, <1>1, PTL DEF Spec

-----------------------------------------------------------------------------
(* When bget() finds no buffer                                              *)

\* Users and pins together then take every buffer.
LEMMA AllTaken ==
  ASSUME IInv, PinInv, \A b \in Bufs : ~Unused(b)
  PROVE  NBUF <= Cardinality(Holders) + MaxPinned
<1> DEFINE S == Holders
           T == {b \in Bufs : \E w \in S : buf[w] = b}
           f == [w \in S |-> buf[w]]
<1>1. IsFiniteSet(Bufs) /\ Cardinality(Bufs) = NBUF
  BY SMTT(30), Consts, FS_Interval DEF Bufs
<1>3. IsFiniteSet(S)
  BY Consts, FS_Subset DEF Holders
<1>4. f \in Surjection(S, T)
  BY DEF Surjection, Holders
<1>5. IsFiniteSet(T) /\ Cardinality(T) <= Cardinality(S)
  <2> HIDE DEF S, T, f
  <2> QED
    BY <1>3, <1>4, FS_Surjection
<1>6. IsFiniteSet(Pinned)
  BY <1>1, FS_Subset DEF Pinned
<1>7. ASSUME NEW b \in Bufs PROVE b \in Pinned \cup T
  <2>1. refcnt[b] # 0 \/ dirty[b]
    BY DEF Unused
  <2>2. ASSUME NEW w \in Users, buf[w] = b PROVE b \in T
    BY <2>2 DEF Holders
  <2>3. ASSUME refcnt[b] # 0 PROVE \E w \in Users : buf[w] = b
    <3>1. refcnt[b] = Cardinality({w \in Users : buf[w] = b})
      BY DEF IInv, RefcntCountsUsers
    <3> QED
      BY <2>3, <3>1, FS_EmptySet
  <2> HIDE DEF T
  <2>4. ASSUME dirty[b], b \notin Pinned PROVE \E w \in Users : buf[w] = b
    BY <2>4 DEF Pinned, Writing
  <2> QED
    BY <2>1, <2>2, <2>3, <2>4
<1> HIDE DEF S, T, f
<1>8. Cardinality(Bufs) <= Cardinality(Pinned \cup T) /\ IsFiniteSet(Pinned \cup T)
  BY <1>5, <1>6, <1>7, FS_Union, FS_Subset
<1>9. /\ Cardinality(Pinned \cup T) = Cardinality(Pinned) + Cardinality(T) - Cardinality(Pinned \cap T)
      /\ Cardinality(Pinned \cap T) \in Nat
  BY <1>5, <1>6, FS_Union, FS_Intersection, FS_CardinalityType
<1>10. /\ Cardinality(Pinned) \in Nat /\ Cardinality(T) \in Nat /\ Cardinality(S) \in Nat
       /\ MaxPinned \in Nat
  BY <1>3, <1>5, <1>6, FS_CardinalityType, BufAssumption
<1> QED
  BY SMTT(30), <1>1, <1>5, <1>8, <1>9, <1>10, Consts DEF PinInv, S

\* A step that makes no buffer dirty but one being written, and ends a write only with the
\* buffer clean, pins nothing.
LEMMA PinsNothing ==
  ASSUME IInv, PinInv,
         \A b \in Bufs : dirty'[b] => dirty[b] \/ Writing(b)',
         \A b \in Bufs : Writing(b) /\ dirty'[b] => Writing(b)'
  PROVE  PinInv'
<1>1. Pinned' \subseteq Pinned
  BY DEF Pinned
<1>2. IsFiniteSet(Pinned)
  <2>1. IsFiniteSet(Bufs)
    BY SMTT(30), Consts, FS_Interval DEF Bufs
  <2> QED
    BY <2>1, FS_Subset DEF Pinned
<1>3. Cardinality(Pinned') <= Cardinality(Pinned) /\ Cardinality(Pinned) \in Nat /\ Cardinality(Pinned') \in Nat
  BY <1>1, <1>2, FS_Subset, FS_CardinalityType
<1> QED
  BY SMTT(30), <1>3, BufAssumption DEF PinInv

LEMMA PinInvNext == ASSUME IInv, PinInv, [Next]_vars PROVE PinInv'
<1> DEFINE Io == {"rw", "iosleep", "iowoken"}
<1>1. ASSUME NEW u \in Users, NEW blk \in Blocks, Bget(u, blk) PROVE PinInv'
  <2>1. /\ \A b \in Bufs : dirty'[b] => dirty[b]
        /\ \A w \in Users : pc[w] \in Io => pc'[w] = pc[w] /\ buf'[w] = buf[w]
    BY <1>1 DEF IInv, TypeOK, Bget, BgetHit, BgetRecycle, Panic, bufVars, flags, Goto
  <2> QED
    BY <2>1, PinsNothing DEF Writing
<1>2. ASSUME NEW u \in Users,
             Acquire(u) \/ AcquireSleeps(u) \/ Releasesleep(u) \/ Brelse(u) \/ Iderw(u) \/ Kill(u)
      PROVE  PinInv'
  <2>1. /\ UNCHANGED dirty
        /\ \A w \in Users : pc[w] \in Io => pc'[w] \in Io /\ buf'[w] = buf[w]
    BY <1>2 DEF IInv, TypeOK, Acquire, AcquireSleeps, Releasesleep, Wakeup, Brelse, Iderw, Kill, Panic,
                bufVars, flags, Goto
  <2> QED
    BY <2>1, PinsNothing DEF Writing
<1>3. ASSUME NEW u \in Users, IderwWoken(u) PROVE PinInv'
  <2>1. /\ UNCHANGED <<dirty, buf>>
        /\ \A w \in Users : pc[w] \in Io => pc'[w] \in Io \/ (w = u /\ ~dirty[buf[u]])
    BY <1>3 DEF IInv, TypeOK, IderwWoken, bufVars, flags, Goto
  <2> QED
    BY <2>1, PinsNothing DEF Writing
<1>4. ASSUME NEW u \in Users, Bwrite(u) PROVE PinInv'
  <2>1. /\ UNCHANGED buf /\ pc[u] = "have" /\ pc'[u] = "rw" /\ \A w \in Users \ {u} : pc'[w] = pc[w]
        /\ \A b \in Bufs : b # buf[u] => dirty'[b] = dirty[b]
    BY <1>4 DEF IInv, TypeOK, Bwrite, Goto
  <2> QED
    BY <2>1, PinsNothing DEF Writing
<1>5. ASSUME NEW u \in Users, Pin(u) PROVE PinInv'
  <2> DEFINE D == {b \in Bufs : dirty[b]} \cup {buf[u]}
  <2>1. Pinned' \subseteq D
    BY SMTT(30), <1>5 DEF Pinned, Pin, IInv, TypeOK
  <2>2. IsFiniteSet(D)
    <3>1. IsFiniteSet({b \in Bufs : dirty[b]})
      BY SMTT(30), Consts, FS_Interval, FS_Subset DEF Bufs
    <3> QED
      BY <3>1, FS_AddElement
  <2>3. Cardinality(D) <= MaxPinned
    BY <1>5 DEF Pin
  <2> HIDE DEF D
  <2>4. Cardinality(Pinned') <= Cardinality(D) /\ Cardinality(D) \in Nat /\ Cardinality(Pinned') \in Nat
    BY <2>1, <2>2, FS_Subset, FS_CardinalityType
  <2> QED
    BY SMTT(30), <2>3, <2>4, BufAssumption DEF PinInv
<1>6. ASSUME DiskDone \/ DiskFails \/ UNCHANGED vars PROVE PinInv'
  <2>1. UNCHANGED <<dirty, pc, buf>>
    BY <1>6 DEF DiskDone, DiskFails, vars, bufVars, flags
  <2> QED
    BY <2>1 DEF PinInv, Pinned, Writing
<1>7. ASSUME Ideintr PROVE PinInv'
  <2>1. /\ UNCHANGED buf /\ \A w \in Users : pc[w] \in Io => pc'[w] \in Io
        /\ \A b \in Bufs : dirty'[b] => dirty[b]
    BY <1>7 DEF IInv, TypeOK, Ideintr, Wakeup
  <2> QED
    BY <2>1, PinsNothing DEF Writing
<1> QED
  BY <1>1, <1>2, <1>3, <1>4, <1>5, <1>6, <1>7 DEF Next, Step, Disk

LEMMA PanicStep ==
  ASSUME IInv, PinInv, [Next]_vars, ~panic, panic'
  PROVE  NBUF <= Cardinality(Holders) + MaxPinned
<1>1. ASSUME NEW u \in Users, NEW blk \in Blocks, Bget(u, blk) PROVE \A b \in Bufs : ~Unused(b)
  BY <1>1 DEF Bget, BgetHit, BgetRecycle
<1>2. ASSUME NEW u \in Users, Iderw(u) PROVE FALSE
  <2>1. ~(valid[buf[u]] /\ ~dirty[buf[u]])
    BY <1>2 DEF Iderw, IInv, RequestInv
  <2> QED
    BY <1>2, <2>1 DEF Iderw
<1>3. ASSUME NEW u \in Users, \/ Acquire(u) \/ AcquireSleeps(u) \/ Releasesleep(u) \/ Brelse(u)
                              \/ IderwWoken(u) \/ Bwrite(u) \/ Pin(u) \/ Kill(u)
      PROVE  FALSE
  BY <1>3 DEF Acquire, AcquireSleeps, Releasesleep, Brelse, IderwWoken, Bwrite, Pin, Kill
<1>4. ASSUME Disk \/ UNCHANGED vars PROVE FALSE
  BY <1>4 DEF Disk, DiskDone, DiskFails, Ideintr, vars
<1> QED
  BY <1>1, <1>2, <1>3, <1>4, AllTaken DEF Next, Step

\* The cache panics in one place, bget() that finds no buffer, and only when the users
\* that refer to one and the blocks the log may pin are together as many as the buffers,
\* whatever their numbers: no buffer leaks, and iderw() is never asked for nothing.
THEOREM PanicsWhenFull ==
  Spec => [][~panic /\ panic' => NBUF <= Cardinality(Holders) + MaxPinned]_vars
<1>1. Init => IInv /\ PinInv
  <2>1. Init => Pinned = {}
    BY DEF Init, Pinned
  <2> QED
    BY SMTT(30), <2>1, InitInv, FS_EmptySet, BufAssumption DEF PinInv
<1>2. IInv /\ PinInv /\ [Next]_vars => IInv' /\ PinInv'
  BY NextInv, PinInvNext
<1>3. IInv /\ PinInv /\ [Next]_vars
        => [~panic /\ panic' => NBUF <= Cardinality(Holders) + MaxPinned]_vars
  BY PanicStep
<1> QED
  BY <1>1, <1>2, <1>3, PTL DEF Spec

-----------------------------------------------------------------------------
(* The buffers are copies of the disk's blocks                              *)

\* Nobody holds the buffer that the disk works on: its waiter has the lock.
LEMMA HeadIsBusy ==
  ASSUME IInv, idequeue # <<>>
  PROVE  /\ \A u \in Users : pc[u] \in {"have", "rw"} => buf[u] # Head(idequeue)
         /\ \A b \in Bufs : refcnt[b] = 0 => b # Head(idequeue)
         /\ Head(idequeue) \in Bufs /\ blockno[Head(idequeue)] \in Blocks
<1>1. PICK h \in Users : buf[h] = Head(idequeue) /\ pc[h] \in {"iosleep", "iowoken"}
  BY HeadWaiter
<1>2. \A u \in Users : pc[u] \in {"have", "rw"} => buf[u] # Head(idequeue)
  BY <1>1, Owned DEF HasLock
<1>3. \A b \in Bufs : refcnt[b] = 0 => b # Head(idequeue)
  BY <1>1, FreeHasNoUser
<1>4. blockno[Head(idequeue)] \in Blocks
  BY <1>1 DEF IInv, PlaceInv
<1> QED
  BY <1>2, <1>3, <1>4, HeadWaiter

\* What a step that recycles a buffer changes.
LEMMA RecycleFacts ==
  ASSUME IInv, NEW u \in Users, NEW blk \in Blocks, BgetRecycle(u, blk), ~Panic
  PROVE  \E b \in Bufs :
           /\ refcnt[b] = 0 /\ ~dirty[b] /\ \A c \in Bufs : blockno[c] # blk
           /\ blockno'[b] = blk /\ ~valid'[b] /\ ~dirty'[b]
           /\ \A c \in Bufs \ {b} : blockno'[c] = blockno[c] /\ valid'[c] = valid[c] /\ dirty'[c] = dirty[c]
           /\ UNCHANGED <<data, disk, idequeue, device>>
<1>1. PICK i \in Bufs : /\ Unused(lru[i])
                        /\ blockno' = [blockno EXCEPT ![lru[i]] = blk]
                        /\ valid' = [valid EXCEPT ![lru[i]] = FALSE]
                        /\ dirty' = [dirty EXCEPT ![lru[i]] = FALSE]
  BY DEF BgetRecycle
<1>2. lru[i] \in Bufs /\ refcnt[lru[i]] = 0 /\ ~dirty[lru[i]]
  BY <1>1 DEF IInv, TypeOK, Unused
<1>3. /\ blockno'[lru[i]] = blk /\ ~valid'[lru[i]] /\ ~dirty'[lru[i]]
      /\ \A c \in Bufs \ {lru[i]} : blockno'[c] = blockno[c] /\ valid'[c] = valid[c] /\ dirty'[c] = dirty[c]
  BY <1>1, <1>2 DEF IInv, TypeOK
<1>4. UNCHANGED <<data, disk, idequeue, device>> /\ \A c \in Bufs : blockno[c] # blk
  BY DEF BgetRecycle, Cached
<1> QED
  BY <1>2, <1>3, <1>4

\* What bwrite() and log_write() change.
LEMMA ModifyFacts ==
  ASSUME IInv, NEW u \in Users, Bwrite(u) \/ Pin(u)
  PROVE  /\ pc[u] = "have" /\ buf[u] \in Bufs /\ blockno[buf[u]] \in Blocks /\ dirty'[buf[u]]
         /\ \A c \in Bufs \ {buf[u]} : dirty'[c] = dirty[c] /\ data'[c] = data[c]
         /\ UNCHANGED <<blockno, valid, disk, idequeue, device>>
<1>1. /\ pc[u] = "have" /\ dirty' = [dirty EXCEPT ![buf[u]] = TRUE]
      /\ \E v \in Vals : data' = [data EXCEPT ![buf[u]] = v]
      /\ UNCHANGED <<blockno, valid, disk, idequeue, device>>
  BY DEF Bwrite, Pin
<1>2. buf[u] \in Bufs /\ blockno[buf[u]] \in Blocks
  BY <1>1 DEF IInv, PlaceInv
<1> QED
  BY <1>1, <1>2 DEF IInv, TypeOK

\* What the disk and its interrupt change, when the disk does not fail.
LEMMA DiskFacts ==
  ASSUME IInv, DiskDone \/ Ideintr, device # "failed"
  PROVE  LET b == Head(idequeue)
         IN /\ idequeue # <<>> /\ UNCHANGED blockno
            /\ DiskDone => /\ device = "busy" /\ device' = "done"
                           /\ UNCHANGED <<valid, dirty, data, idequeue>>
                           /\ \A blk \in Blocks : dirty[b] => disk'[blk] = IF blk = blockno[b] THEN data[b] ELSE disk[blk]
                           /\ ~dirty[b] => disk' = disk
            /\ Ideintr => /\ device = "done" /\ device' \in {"idle", "busy"}
                          /\ valid'[b] /\ ~dirty'[b] /\ UNCHANGED disk
                          /\ data'[b] = IF dirty[b] THEN data[b] ELSE disk[blockno[b]]
                          /\ \A c \in Bufs \ {b} : valid'[c] = valid[c] /\ dirty'[c] = dirty[c] /\ data'[c] = data[c]
<1> DEFINE b == Head(idequeue)
<1>1. idequeue # <<>>
  BY DEF DiskDone, Ideintr, IInv, QueueIsWork
<1>2. b \in Bufs /\ blockno[b] \in Blocks
  BY <1>1, HeadIsBusy
<1> HIDE DEF b
<1>3. ASSUME DiskDone
      PROVE  /\ device = "busy" /\ device' = "done" /\ UNCHANGED <<blockno, valid, dirty, data, idequeue>>
             /\ disk' = IF dirty[b] THEN [disk EXCEPT ![blockno[b]] = data[b]] ELSE disk
  BY <1>3 DEF DiskDone, bufVars, flags, b
<1>4. ASSUME DiskDone
      PROVE  /\ \A blk \in Blocks : dirty[b] => disk'[blk] = IF blk = blockno[b] THEN data[b] ELSE disk[blk]
             /\ ~dirty[b] => disk' = disk
  BY <1>2, <1>3, <1>4 DEF IInv, TypeOK
<1>5. ASSUME Ideintr
      PROVE  /\ device = "done" /\ device' \in {"idle", "busy"} /\ UNCHANGED <<blockno, disk>>
             /\ data' = IF ~dirty[b] THEN [data EXCEPT ![b] = disk[blockno[b]]] ELSE data
             /\ valid' = [valid EXCEPT ![b] = TRUE] /\ dirty' = [dirty EXCEPT ![b] = FALSE]
  BY <1>5 DEF Ideintr, StartNext, b
<1>6. ASSUME Ideintr
      PROVE  /\ valid'[b] /\ ~dirty'[b]
             /\ data'[b] = IF dirty[b] THEN data[b] ELSE disk[blockno[b]]
             /\ \A c \in Bufs \ {b} : valid'[c] = valid[c] /\ dirty'[c] = dirty[c] /\ data'[c] = data[c]
  BY SMTT(30), <1>2, <1>5, <1>6 DEF IInv, TypeOK
<1> QED
  BY <1>1, <1>3, <1>4, <1>5, <1>6 DEF b

\* The other steps change no block, no flag, no data and nothing on the disk.
LEMMA OtherFacts ==
  ASSUME NEW u \in Users,
         \/ \E blk \in Blocks : BgetHit(u, blk)
         \/ Acquire(u) \/ AcquireSleeps(u) \/ Releasesleep(u) \/ Brelse(u) \/ IderwWoken(u) \/ Kill(u)
  PROVE  UNCHANGED <<blockno, valid, dirty, data, disk, idequeue, device>>
BY DEF BgetHit, Acquire, AcquireSleeps, Releasesleep, Brelse, IderwWoken, Kill, bufVars, flags

LEMMA CopyInvNext == ASSUME IInv, CopyInv, ~DiskErrors, [Next]_vars PROVE CopyInv'
<1>1. ASSUME UNCHANGED <<blockno, valid, dirty, data, disk, idequeue, device>> PROVE CopyInv'
  BY <1>1 DEF CopyInv
<1>2. ASSUME NEW u \in Users, NEW blk \in Blocks, BgetRecycle(u, blk), ~Panic PROVE CopyInv'
  <2>1. PICK b \in Bufs :
           /\ refcnt[b] = 0
           /\ blockno'[b] = blk /\ ~valid'[b] /\ ~dirty'[b]
           /\ \A c \in Bufs \ {b} : blockno'[c] = blockno[c] /\ valid'[c] = valid[c] /\ dirty'[c] = dirty[c]
           /\ UNCHANGED <<data, disk, idequeue, device>>
    BY <1>2, RecycleFacts
  <2>2. device = "done" => Head(idequeue) \in Bufs \ {b}
    BY <2>1, HeadIsBusy DEF IInv, QueueIsWork
  <2> QED
    BY SMTT(30), <2>1, <2>2 DEF CopyInv
<1>3. ASSUME NEW u \in Users, Bwrite(u) \/ Pin(u) PROVE CopyInv'
  <2>1. device = "done" => Head(idequeue) \in Bufs \ {buf[u]}
    BY <1>3, ModifyFacts, HeadIsBusy DEF IInv, QueueIsWork
  <2> QED
    BY SMTT(30), <1>3, <2>1, ModifyFacts DEF CopyInv
<1>4. ASSUME NEW u \in Users, Iderw(u), ~Panic PROVE CopyInv'
  <2>1. /\ UNCHANGED <<blockno, valid, dirty, data, disk>> /\ idequeue' = Append(idequeue, buf[u])
        /\ device' = IF idequeue = <<>> THEN "busy" ELSE device
    BY <1>4 DEF Iderw, Starts, bufVars, flags
  <2>2. device' = "done" => device = "done" /\ Head(idequeue') = Head(idequeue)
    <3>1. idequeue \in Seq(Bufs) /\ buf[u] \in Bufs
      BY <1>4 DEF IInv, TypeOK, PlaceInv, Iderw
    <3> QED
      BY SMTT(30), <2>1, <3>1
  <2>3. device' # "failed"
    BY <2>1 DEF CopyInv
  <2> QED
    BY <2>1, <2>2, <2>3 DEF CopyInv
<1>5. ASSUME DiskDone PROVE CopyInv'
  <2> DEFINE h == Head(idequeue)
  <2>1. /\ device' = "done" /\ UNCHANGED <<blockno, valid, dirty, data, idequeue>>
        /\ \A blk \in Blocks : dirty[h] => disk'[blk] = IF blk = blockno[h] THEN data[h] ELSE disk[blk]
        /\ ~dirty[h] => disk' = disk
    BY <1>5, DiskFacts DEF CopyInv
  <2>2. h \in Bufs /\ blockno[h] \in Blocks
    BY <1>5, DiskFacts, HeadIsBusy DEF CopyInv
  <2>3. Head(idequeue') = h
    BY <2>1
  <2> HIDE DEF h
  <2>4. ASSUME NEW b \in Bufs, valid[b], ~dirty[b], dirty[h] PROVE blockno[b] \in Blocks /\ blockno[b] # blockno[h]
    BY <2>2, <2>4, Consts DEF CopyInv, IInv, OneBufferPerBlock
  <2>5. ASSUME NEW b \in Bufs, valid[b], ~dirty[b] PROVE data[b] = disk'[blockno[b]]
    BY <2>1, <2>4, <2>5 DEF CopyInv
  <2> QED
    BY <2>1, <2>2, <2>3, <2>5 DEF CopyInv
<1>6. ASSUME Ideintr PROVE CopyInv'
  <2> DEFINE h == Head(idequeue)
  <2>1. /\ device = "done" /\ device' \in {"idle", "busy"} /\ UNCHANGED <<blockno, disk>>
        /\ valid'[h] /\ ~dirty'[h]
        /\ data'[h] = IF dirty[h] THEN data[h] ELSE disk[blockno[h]]
        /\ \A c \in Bufs \ {h} : valid'[c] = valid[c] /\ dirty'[c] = dirty[c] /\ data'[c] = data[c]
    BY <1>6, DiskFacts DEF CopyInv
  <2>2. blockno[h] \in Blocks
    BY <1>6, DiskFacts, HeadIsBusy DEF CopyInv
  <2>3. dirty[h] => disk[blockno[h]] = data[h]
    BY <2>1 DEF CopyInv
  <2> HIDE DEF h
  <2> QED
    BY <2>1, <2>2, <2>3 DEF CopyInv
<1>7. ASSUME Panic \/ UNCHANGED vars PROVE CopyInv'
  BY <1>1, <1>7 DEF Panic, vars, bufVars, flags
<1>8. ~DiskFails
  BY DEF DiskFails
<1> QED
  BY <1>1, <1>2, <1>3, <1>4, <1>5, <1>6, <1>7, <1>8, OtherFacts DEF Next, Bget, Step, Disk

\* As long as the disk does not fail, bread() returns what its comment says, "a locked buf
\* with the contents of the indicated block", whatever was recycled or written meanwhile.
THEOREM HolderHasBlock ==
  ASSUME ~DiskErrors
  PROVE  Spec => []HoldsBlock
<1>1. Init => CopyInv
  BY DEF Init, CopyInv
<1>2. IInv /\ CopyInv /\ [Next]_vars => IInv' /\ CopyInv'
  BY NextInv, CopyInvNext
<1>3. IInv /\ CopyInv => HoldsBlock
  BY DEF IInv, CopyInv, HoldsBlock, RequestInv, PlaceInv
<1> QED
  BY InitInv, <1>1, <1>2, <1>3, PTL DEF Spec

-----------------------------------------------------------------------------
(* Only the holder changes a block                                          *)

Live(b, blk) == blockno[b] = blk /\ (valid[b] \/ dirty[b])

LEMMA ContentsIs ==
  ASSUME OneBufferPerBlock, NEW blk \in Blocks
  PROVE  /\ \A b \in Bufs : Live(b, blk) => Contents(blk) = data[b]
         /\ (\A b \in Bufs : ~Live(b, blk)) => Contents(blk) = disk[blk]
<1>1. ASSUME NEW b \in Bufs, Live(b, blk) PROVE Contents(blk) = data[b]
  <2>1. \A c \in Cached(blk) : c = b
    BY <1>1, Consts DEF Live, OneBufferPerBlock, Cached
  <2>2. b \in Cached(blk) /\ (valid[b] \/ dirty[b])
    BY <1>1 DEF Live, Cached
  <2>3. (CHOOSE c \in Cached(blk) : valid[c] \/ dirty[c]) = b
    BY <2>1, <2>2
  <2> QED
    BY <2>2, <2>3 DEF Contents
<1>2. ASSUME \A b \in Bufs : ~Live(b, blk) PROVE Contents(blk) = disk[blk]
  BY <1>2 DEF Live, Cached, Contents
<1> QED
  BY <1>1, <1>2

LEMMA ContentsIsNext ==
  ASSUME OneBufferPerBlock', NEW blk \in Blocks
  PROVE  /\ \A b \in Bufs : Live(b, blk)' => Contents(blk)' = data'[b]
         /\ (\A b \in Bufs : ~Live(b, blk)') => Contents(blk)' = disk'[blk]
<1>1. ASSUME NEW b \in Bufs, Live(b, blk)' PROVE Contents(blk)' = data'[b]
  <2>1. \A c \in Cached(blk)' : c = b
    BY <1>1, Consts DEF Live, OneBufferPerBlock, Cached
  <2>2. b \in Cached(blk)' /\ (valid'[b] \/ dirty'[b])
    BY <1>1 DEF Live, Cached
  <2>3. (CHOOSE c \in Cached(blk)' : valid'[c] \/ dirty'[c]) = b
    BY <2>1, <2>2
  <2> QED
    BY <2>2, <2>3 DEF Contents
<1>2. ASSUME \A b \in Bufs : ~Live(b, blk)' PROVE Contents(blk)' = disk'[blk]
  BY <1>2 DEF Live, Cached, Contents
<1> QED
  BY <1>1, <1>2

LEMMA ContentsKept ==
  ASSUME IInv, IInv', CopyInv, ~DiskErrors, [Next]_vars, NEW blk \in Blocks,
         \A u \in Users : pc[u] = "have" => blockno[buf[u]] # blk
  PROVE  Contents(blk)' = Contents(blk)
<1>1. ASSUME UNCHANGED <<blockno, valid, dirty, data, disk>> PROVE Contents(blk)' = Contents(blk)
  BY <1>1 DEF Contents, Cached
<1>9. OneBufferPerBlock /\ OneBufferPerBlock'
  BY DEF IInv
<1>10. ASSUME \A c \in Bufs : ~Live(c, blk), \A c \in Bufs : ~Live(c, blk)', disk'[blk] = disk[blk]
       PROVE  Contents(blk)' = Contents(blk)
  BY <1>9, <1>10, ContentsIs, ContentsIsNext
<1>11. ASSUME NEW b \in Bufs, Live(b, blk), Live(b, blk)', data'[b] = data[b]
       PROVE  Contents(blk)' = Contents(blk)
  <2>1. Contents(blk) = data[b]
    BY <1>9, <1>11, ContentsIs
  <2>2. Contents(blk)' = data'[b]
    BY <1>9, <1>11, ContentsIsNext
  <2> QED
    BY <1>11, <2>1, <2>2
<1>12. ASSUME NEW b \in Bufs, disk'[blk] = disk[blk],
              ~Live(b, blk), ~Live(b, blk)',
              \A c \in Bufs \ {b} : Live(c, blk)' <=> Live(c, blk),
              \A c \in Bufs \ {b} : data'[c] = data[c]
       PROVE  Contents(blk)' = Contents(blk)
  <2>1. CASE \A c \in Bufs : ~Live(c, blk)
    BY <1>10, <1>12, <2>1
  <2>2. ASSUME NEW c \in Bufs, Live(c, blk) PROVE Contents(blk)' = Contents(blk)
    BY <1>11, <1>12, <2>2
  <2> QED
    BY <2>1, <2>2
<1>2. ASSUME NEW u \in Users, NEW k \in Blocks, BgetRecycle(u, k), ~Panic PROVE Contents(blk)' = Contents(blk)
  <2>1. PICK b \in Bufs :
           /\ ~dirty[b] /\ \A c \in Bufs : blockno[c] # k
           /\ blockno'[b] = k /\ ~valid'[b] /\ ~dirty'[b]
           /\ \A c \in Bufs \ {b} : blockno'[c] = blockno[c] /\ valid'[c] = valid[c] /\ dirty'[c] = dirty[c]
           /\ UNCHANGED <<data, disk>>
    BY <1>2, RecycleFacts
  <2>2. \A c \in Bufs \ {b} : Live(c, blk)' <=> Live(c, blk)
    BY <2>1 DEF Live
  <2>3. ~Live(b, blk)'
    BY <2>1 DEF Live
  <2>4. ASSUME Live(b, blk) PROVE Contents(blk)' = Contents(blk)
    <3>1. blockno[b] = blk /\ valid[b] /\ data[b] = disk[blk]
      BY <2>1, <2>4 DEF Live, CopyInv
    <3>2. \A c \in Bufs \ {b} : ~Live(c, blk)
      BY <1>9, <3>1, Consts DEF Live, OneBufferPerBlock
    <3>3. \A c \in Bufs : ~Live(c, blk)'
      BY <2>2, <2>3, <3>2
    <3>4. Contents(blk) = disk[blk] /\ Contents(blk)' = disk'[blk]
      BY <1>9, <2>4, <3>1, <3>3, ContentsIs, ContentsIsNext
    <3> QED
      BY <2>1, <3>4
  <2>5. ASSUME ~Live(b, blk) PROVE Contents(blk)' = Contents(blk)
    BY <1>12, <2>1, <2>2, <2>3, <2>5
  <2> QED
    BY <2>4, <2>5
<1>3. ASSUME NEW u \in Users, Bwrite(u) \/ Pin(u) PROVE Contents(blk)' = Contents(blk)
  <2>1. PICK b \in Bufs : b = buf[u]
    BY <1>3, ModifyFacts
  <2>2. /\ blockno[b] # blk
        /\ \A c \in Bufs \ {b} : dirty'[c] = dirty[c] /\ data'[c] = data[c]
        /\ UNCHANGED <<blockno, valid, disk>>
    BY <1>3, <2>1, ModifyFacts
  <2>3. ~Live(b, blk) /\ ~Live(b, blk)'
    BY <2>2 DEF Live
  <2>4. \A c \in Bufs \ {b} : Live(c, blk)' <=> Live(c, blk)
    BY <2>2 DEF Live
  <2> QED
    BY <1>12, <2>2, <2>3, <2>4
<1>4. ASSUME DiskDone PROVE Contents(blk)' = Contents(blk)
  <2> DEFINE h == Head(idequeue)
  <2>1. /\ UNCHANGED <<blockno, valid, dirty, data>>
        /\ dirty[h] => disk'[blk] = IF blk = blockno[h] THEN data[h] ELSE disk[blk]
        /\ ~dirty[h] => disk' = disk
    BY <1>4, DiskFacts DEF CopyInv
  <2>2. h \in Bufs
    BY <1>4, DiskFacts, HeadIsBusy DEF CopyInv
  <2> HIDE DEF h
  <2>3. \A c \in Bufs : Live(c, blk)' <=> Live(c, blk)
    BY <2>1 DEF Live
  <2>4. (\A c \in Bufs : ~Live(c, blk)) => disk'[blk] = disk[blk]
    BY <2>1, <2>2 DEF Live
  <2>5. ASSUME NEW c \in Bufs, Live(c, blk) PROVE Contents(blk)' = Contents(blk)
    BY <1>11, <2>1, <2>3, <2>5
  <2> QED
    BY <1>10, <2>3, <2>4, <2>5
<1>5. ASSUME Ideintr PROVE Contents(blk)' = Contents(blk)
  <2>1. PICK h \in Bufs : h = Head(idequeue) /\ (~valid[h] \/ dirty[h])
    <3>1. idequeue # <<>> /\ idequeue \in Seq(Bufs)
      BY <1>5, DiskFacts DEF CopyInv, IInv, TypeOK
    <3>2. 1 \in 1..Len(idequeue) /\ Head(idequeue) = idequeue[1] /\ idequeue[1] \in Bufs
      BY SMTT(30), <3>1
    <3> QED
      BY <3>2 DEF IInv, RequestInv
  <2>2. /\ UNCHANGED <<blockno, disk>> /\ valid'[h] /\ ~dirty'[h]
        /\ data'[h] = IF dirty[h] THEN data[h] ELSE disk[blockno[h]]
        /\ \A c \in Bufs \ {h} : valid'[c] = valid[c] /\ dirty'[c] = dirty[c] /\ data'[c] = data[c]
    BY <1>5, <2>1, DiskFacts DEF CopyInv
  <2>3. \A c \in Bufs \ {h} : Live(c, blk)' <=> Live(c, blk)
    BY <2>2 DEF Live
  <2>4. CASE blockno[h] = blk
    <3>1. Live(h, blk)'
      BY <2>2, <2>4 DEF Live
    <3>2. CASE dirty[h]
      BY <1>11, <2>2, <2>1, <2>4, <3>1, <3>2 DEF Live
    <3>3. CASE ~dirty[h]
      <4>1. \A c \in Bufs : ~Live(c, blk)
        BY <1>9, <2>1, <2>4, <3>3, Consts DEF Live, OneBufferPerBlock
      <4>2. Contents(blk) = disk[blk]
        BY <1>9, <4>1, ContentsIs
      <4>3. Contents(blk)' = data'[h]
        BY <1>9, <3>1, ContentsIsNext
      <4> QED
        BY <2>2, <2>4, <3>3, <4>2, <4>3
    <3> QED
      BY <3>2, <3>3
  <2>5. CASE blockno[h] # blk
    <3>1. ~Live(h, blk) /\ ~Live(h, blk)'
      BY <2>2, <2>5 DEF Live
    <3> QED
      BY <1>12, <2>2, <2>1, <2>3, <3>1
  <2> QED
    BY <2>4, <2>5
<1>6. ASSUME Panic \/ UNCHANGED vars PROVE Contents(blk)' = Contents(blk)
  BY <1>1, <1>6 DEF Panic, vars, bufVars, flags
<1>7. ASSUME NEW u \in Users, Iderw(u), ~Panic PROVE Contents(blk)' = Contents(blk)
  BY <1>1, <1>7 DEF Iderw, bufVars, flags
<1>8. ~DiskFails
  BY DEF DiskFails
<1> QED
  BY <1>1, <1>2, <1>3, <1>4, <1>5, <1>6, <1>7, <1>8, OtherFacts DEF Next, Bget, Step, Disk

\* As long as the disk does not fail, no step changes what the cache and the disk together
\* hold of a block unless somebody holds that block's buffer: bget() recycles, and iderw()
\* and ideintr() read and write back, without changing any block.
THEOREM OnlyHoldersWrite ==
  ASSUME ~DiskErrors
  PROVE  Spec => OnlyHolderWrites
<1>1. Init => CopyInv
  BY DEF Init, CopyInv
<1>2. IInv /\ CopyInv /\ [Next]_vars => IInv' /\ CopyInv'
  BY NextInv, CopyInvNext
<1>3. IInv /\ CopyInv /\ [Next]_vars =>
        [\A blk \in Blocks : Contents(blk)' # Contents(blk) =>
            \E u \in Users : pc[u] = "have" /\ blockno[buf[u]] = blk]_vars
  BY <1>2, ContentsKept
<1> QED
  BY InitInv, <1>1, <1>2, <1>3, PTL DEF Spec, OnlyHolderWrites
=============================================================================
