------------------------------- MODULE BufCache -------------------------------
(***************************************************************************)
(* The buffer cache and the disk driver under it: kernel/bio.c,               *)
(* kernel/sleeplock.c and kernel/dev/ide.c.  One member of Users is one use   *)
(* of a buffer, from bread() to brelse(); a process that holds two buffers    *)
(* is two users.  A step is what happens under one hold of bcache.lock, of    *)
(* the spinlock in a sleep lock, or of idelock.  The log pins a buffer by     *)
(* setting B_DIRTY before it releases it.                                     *)
(***************************************************************************)
EXTENDS Integers, Sequences, FiniteSets, Functions

CONSTANTS Users, NBUF, Blocks, Vals, None,
          MaxPinned,    \* how many buffers the log pins at a time
          DiskErrors    \* whether the disk may fail a request

ASSUME BufAssumption ==
    /\ NBUF \in Nat \ {0} /\ MaxPinned \in Nat
    /\ IsFiniteSet(Users) /\ None \notin Users \cup Blocks
    /\ DiskErrors \in BOOLEAN

Bufs == 1..NBUF

VARIABLES blockno, valid, dirty, refcnt, data,   \* struct buf
          owner,      \* b->lock: the user that holds it, or None
          lru,        \* the list of all buffers, most recently used first
          idequeue,   \* buffers waiting for the disk, the active one first
          device,     \* "idle", "busy", "done" (interrupt raised), "failed"
          disk, pc, buf, panic

flags == <<valid, dirty>>
bufVars == <<blockno, valid, dirty, refcnt, data, owner, lru>>
vars == <<bufVars, idequeue, device, disk, pc, buf, panic>>

\* binit(): the buffers are zero; none is of a block of the file system's device.
Init == /\ blockno = [b \in Bufs |-> None]
        /\ valid = [b \in Bufs |-> FALSE] /\ dirty = [b \in Bufs |-> FALSE]
        /\ refcnt = [b \in Bufs |-> 0]
        /\ data \in {[b \in Bufs |-> v] : v \in Vals}
        /\ owner = [b \in Bufs |-> None]
        /\ lru = [i \in Bufs |-> NBUF + 1 - i]
        /\ idequeue = <<>> /\ device = "idle"
        /\ disk \in [Blocks -> Vals]
        /\ pc = [u \in Users |-> "out"] /\ buf = [u \in Users |-> 0]
        /\ panic = FALSE

Goto(u, l) == pc' = [pc EXCEPT ![u] = l]
Panic == panic' = TRUE /\ UNCHANGED <<bufVars, idequeue, device, disk, pc, buf>>

\* wakeup(chan): the sleepers on chan run again and test their condition again.
Wakeup(f, asleep, woken, b) ==
    [u \in Users |-> IF f[u] = asleep /\ buf[u] = b THEN woken ELSE f[u]]

-------------------------------------------------------------------------------
(* bget()                                                                     *)

Cached(blk) == {b \in Bufs : blockno[b] = blk}

Unused_Pinned(b) == refcnt[b] = 0
Unused(b) == refcnt[b] = 0 /\ ~dirty[b]

Ref(b) == [refcnt EXCEPT ![b] = @ + 1]

\* The list is searched from the most recently used buffer.
BgetHit(u, blk) ==
    /\ pc[u] = "out" /\ Cached(blk) # {}
    /\ \E i \in Bufs :
          /\ lru[i] \in Cached(blk) /\ \A j \in 1..(i - 1) : lru[j] \notin Cached(blk)
          /\ refcnt' = Ref(lru[i])
          /\ buf' = [buf EXCEPT ![u] = lru[i]]
    /\ Goto(u, "lock")
    /\ UNCHANGED <<blockno, flags, data, owner, lru, idequeue, device, disk, panic>>

\* The least recently used buffer that nobody uses takes the block.
BgetRecycle(u, blk) ==
    /\ pc[u] = "out" /\ Cached(blk) = {}
    /\ IF \A b \in Bufs : ~Unused(b) THEN Panic ELSE
       /\ \E i \in Bufs :
             /\ Unused(lru[i]) /\ \A j \in (i + 1)..NBUF : ~Unused(lru[j])
             /\ blockno' = [blockno EXCEPT ![lru[i]] = blk]
             /\ valid' = [valid EXCEPT ![lru[i]] = FALSE]
             /\ dirty' = [dirty EXCEPT ![lru[i]] = FALSE]
             /\ refcnt' = [refcnt EXCEPT ![lru[i]] = 1]
             /\ buf' = [buf EXCEPT ![u] = lru[i]]
       /\ Goto(u, "lock")
       /\ UNCHANGED <<data, owner, lru, idequeue, device, disk, panic>>

-------------------------------------------------------------------------------
(* acquiresleep(&b->lock), then the test of B_VALID in bread()                *)

NeedRead_Not(b) == FALSE
NeedRead(b) == ~valid[b]

LockFree(u) == owner[buf[u]] = None

Acquire(u) ==
    /\ pc[u] \in {"lock", "lockwoken"} /\ LockFree(u)
    /\ owner' = [owner EXCEPT ![buf[u]] = u]
    /\ Goto(u, IF NeedRead(buf[u]) THEN "rw" ELSE "have")
    /\ UNCHANGED <<blockno, flags, refcnt, data, lru, idequeue, device, disk, buf, panic>>

AcquireSleeps(u) ==
    /\ pc[u] \in {"lock", "lockwoken"} /\ ~LockFree(u)
    /\ Goto(u, "locksleep")
    /\ UNCHANGED <<bufVars, idequeue, device, disk, buf, panic>>

-------------------------------------------------------------------------------
(* What the holder of a buffer does with it                                   *)

Bwrite(u) ==
    /\ pc[u] = "have"
    /\ \E v \in Vals : data' = [data EXCEPT ![buf[u]] = v]
    /\ dirty' = [dirty EXCEPT ![buf[u]] = TRUE]
    /\ Goto(u, "rw")
    /\ UNCHANGED <<blockno, valid, refcnt, owner, lru, idequeue, device, disk, buf, panic>>

\* log_write() pins the buffer it has changed; a commit's bwrite() unpins it.
Pin(u) ==
    /\ pc[u] = "have"
    /\ Cardinality({b \in Bufs : dirty[b]} \cup {buf[u]}) <= MaxPinned
    /\ \E v \in Vals : data' = [data EXCEPT ![buf[u]] = v]
    /\ dirty' = [dirty EXCEPT ![buf[u]] = TRUE]
    /\ UNCHANGED <<blockno, valid, refcnt, owner, lru, idequeue, device, disk, pc, buf, panic>>

\* brelse(): releasesleep(), then the reference and the list under bcache.lock.
Releasesleep(u) ==
    /\ pc[u] = "have"
    /\ owner' = [owner EXCEPT ![buf[u]] = None]
    /\ pc' = [Wakeup(pc, "locksleep", "lockwoken", buf[u]) EXCEPT ![u] = "rel"]
    /\ UNCHANGED <<blockno, flags, refcnt, data, lru, idequeue, device, disk, buf, panic>>

ToFront(b) ==
    LET at == CHOOSE i \in Bufs : lru[i] = b
    IN [i \in Bufs |-> IF i = 1 THEN b ELSE IF i <= at THEN lru[i - 1] ELSE lru[i]]

Brelse(u) ==
    /\ pc[u] = "rel"
    /\ LET b == buf[u]
       IN /\ refcnt' = [refcnt EXCEPT ![b] = @ - 1]
          /\ lru' = IF refcnt[b] = 1 THEN ToFront(b) ELSE lru
    /\ buf' = [buf EXCEPT ![u] = 0]
    /\ Goto(u, "out")
    /\ UNCHANGED <<blockno, flags, data, owner, idequeue, device, disk, panic>>

-------------------------------------------------------------------------------
(* iderw(), ideintr() and the disk                                            *)

Starts == idequeue = <<>>

Iderw(u) ==
    /\ pc[u] = "rw"
    /\ IF valid[buf[u]] /\ ~dirty[buf[u]] THEN Panic ELSE
       /\ idequeue' = Append(idequeue, buf[u])
       /\ device' = IF Starts THEN "busy" ELSE device
       /\ Goto(u, "iosleep")
       /\ UNCHANGED <<bufVars, disk, buf, panic>>

\* The test of the flags when the sleep on the buffer ends.
IderwWoken(u) ==
    /\ pc[u] = "iowoken"
    /\ Goto(u, IF valid[buf[u]] /\ ~dirty[buf[u]] THEN "have" ELSE "iosleep")
    /\ UNCHANGED <<bufVars, idequeue, device, disk, buf, panic>>

\* The disk carries out the active command and raises its interrupt.
DiskDone ==
    /\ device = "busy"
    /\ LET b == Head(idequeue)
       IN disk' = IF dirty[b] THEN [disk EXCEPT ![blockno[b]] = data[b]] ELSE disk
    /\ device' = "done"
    /\ UNCHANGED <<bufVars, idequeue, pc, buf, panic>>

DiskFails ==
    /\ DiskErrors /\ device = "busy"
    /\ device' = "failed"
    /\ UNCHANGED <<bufVars, idequeue, disk, pc, buf, panic>>

StartNext_Not(q) == "idle"
StartNext(q) == IF q = <<>> THEN "idle" ELSE "busy"

\* The status of a read is looked at, but B_VALID is set whatever it says.
Ideintr ==
    /\ device \in {"done", "failed"}
    /\ LET b == Head(idequeue)
       IN /\ idequeue' = Tail(idequeue)
          /\ data' = IF ~dirty[b] /\ device = "done"
                     THEN [data EXCEPT ![b] = disk[blockno[b]]] ELSE data
          /\ valid' = [valid EXCEPT ![b] = TRUE]
          /\ dirty' = [dirty EXCEPT ![b] = FALSE]
          /\ pc' = Wakeup(pc, "iosleep", "iowoken", b)
          /\ device' = StartNext(Tail(idequeue))
    /\ UNCHANGED <<blockno, refcnt, owner, lru, disk, buf, panic>>

\* kill() makes a sleeper run, whatever it sleeps on.
Kill(u) ==
    /\ pc[u] \in {"locksleep", "iosleep"}
    /\ Goto(u, IF pc[u] = "locksleep" THEN "lockwoken" ELSE "iowoken")
    /\ UNCHANGED <<bufVars, idequeue, device, disk, buf, panic>>

-------------------------------------------------------------------------------
Bget(u, blk) == BgetHit(u, blk) \/ BgetRecycle(u, blk)
Step(u) == \/ Acquire(u) \/ AcquireSleeps(u) \/ Releasesleep(u) \/ Brelse(u)
           \/ Iderw(u) \/ IderwWoken(u)
Disk == DiskDone \/ DiskFails \/ Ideintr

Next == /\ ~panic
        /\ \/ \E u \in Users : \/ \E blk \in Blocks : Bget(u, blk)
                               \/ Step(u) \/ Bwrite(u) \/ Pin(u) \/ Kill(u)
           \/ Disk

\* A process that can run does, and gets the spinlock it spins on; nobody keeps a
\* buffer for ever; the disk answers.
Fairness == /\ \A u \in Users : WF_vars(Step(u)) /\ SF_vars(Releasesleep(u))
            /\ WF_vars(Disk)

Spec == Init /\ [][Next]_vars
FairSpec == Spec /\ Fairness

-------------------------------------------------------------------------------
(* Properties                                                                 *)

HasLock(u) == pc[u] \in {"have", "rw", "iosleep", "iowoken"}

\* bget() never gives two buffers to one block.
OneBufferPerBlock ==
    \A b, c \in Bufs : blockno[b] = blockno[c] /\ blockno[b] # None => b = c

\* A buffer is in use by as many as its reference count says.
RefcntCountsUsers == \A b \in Bufs : refcnt[b] = Cardinality({u \in Users : buf[u] = b})

\* The sleep lock excludes: who works on a buffer is its owner, and the only one.
LockExcludes == \A u \in Users : HasLock(u) => owner[buf[u]] = u

\* The holder of a buffer has the contents of the block: what the disk holds, unless
\* the buffer is pinned.  Bread(): "Return a locked buf with the contents of the
\* indicated block."
HoldsBlock == \A u \in Users :
    pc[u] = "have" /\ ~dirty[buf[u]] => data[buf[u]] = disk[blockno[buf[u]]]

\* Every buffer in the queue is there once, with one user waiting for it, and the
\* disk works exactly when the queue is not empty.
QueueIsWork ==
    /\ IsInjective(idequeue)
    /\ (device = "idle") = (idequeue = <<>>)
    /\ \A i \in DOMAIN idequeue : \E u \in Users :
          buf[u] = idequeue[i] /\ pc[u] \in {"iosleep", "iowoken"}

\* No lost wakeup: who sleeps on a lock sleeps on one that is held, who sleeps on a
\* request on one still in the queue.
SleepersHaveWaker == \A u \in Users :
    /\ pc[u] = "locksleep" => owner[buf[u]] # None
    /\ pc[u] = "iosleep" => buf[u] \in Range(idequeue)

\* The cache and the queue agree with their users, through every order of bget(),
\* brelse(), iderw() and ideintr(): a block has one buffer, a reference count its users,
\* a sleep lock its holder, a queued request its waiter and a sleeper its waker; and with
\* NBUF >= users + pinned buffers bget() finds a buffer and never panics.
CacheConsistent ==
    /\ OneBufferPerBlock /\ RefcntCountsUsers /\ LockExcludes
    /\ QueueIsWork /\ SleepersHaveWaker /\ ~panic

Contents(blk) ==
    IF \E b \in Cached(blk) : valid[b] \/ dirty[b]
    THEN data[CHOOSE b \in Cached(blk) : valid[b] \/ dirty[b]] ELSE disk[blk]

\* Only the holder of a block's buffer changes the block: recycling, reading and
\* writing back never do.
OnlyHolderWrites == [][\A blk \in Blocks :
    Contents(blk)' # Contents(blk) =>
        \E u \in Users : pc[u] = "have" /\ blockno[buf[u]] = blk]_vars

\* When somebody waits for a buffer, somebody gets it.
BufferServed == \A b \in Bufs :
    (\E u \in Users : buf[u] = b /\ pc[u] # "rel") ~>
        (\E u \in Users : buf[u] = b /\ pc[u] = "have")
===============================================================================
