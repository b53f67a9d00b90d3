--------------------------------- MODULE Log ---------------------------------
(***************************************************************************)
(* The write-ahead log of kernel/log.c over the buffer cache of kernel/     *)
(* bio.c and a disk that writes one 512-byte block atomically.  The part of *)
(* a function between acquire(&log.lock) and release(&log.lock) is one      *)
(* step; everything else is split at each disk write, at each buffer lock   *)
(* and at each read of the log's state made without log.lock.  A crash may  *)
(* come between any two steps, during recovery too.                         *)
(***************************************************************************)
EXTENDS Integers, Sequences, FiniteSets, Functions

CONSTANTS Procs,        \* processes that make file system calls
          Syncers,      \* those of Procs that call sys_sync()
          Outside,      \* those that reach log_write() without begin_op()
          Blocks, Vals, \* home blocks and what they may hold
          None,         \* no buffer
          MAXOPBLOCKS, LOGSIZE,
          SIZE,         \* log.size: header block and SIZE - 1 log blocks
          OpBlocks      \* distinct blocks one operation really logs

ASSUME LogAssumption ==
    /\ Syncers \subseteq Procs /\ Outside \subseteq Procs
    /\ Syncers \cap Outside = {}
    /\ None \notin Blocks /\ Blocks # {} /\ Vals # {}
    /\ MAXOPBLOCKS \in Nat /\ LOGSIZE \in Nat /\ SIZE \in Nat /\ OpBlocks \in Nat
    /\ 0 < MAXOPBLOCKS /\ MAXOPBLOCKS <= LOGSIZE /\ 1 < SIZE
    /\ IsFiniteSet(Procs) /\ IsFiniteSet(Blocks)

VARIABLES
    pc, hold, wrote, eph,              \* per process: control, locked buffer,
                                       \* blocks logged, started_ephemeral
    lh, outstanding, committing, tail, \* struct log, and the loops' index
    cache, dirty,                      \* buffer contents and B_DIRTY
    home, dlog, dhead,                 \* disk: home blocks, log blocks, header
    boot, panic

procVars == <<pc, hold, wrote, eph>>
logVars  == <<lh, outstanding, committing>>
bufVars  == <<cache, dirty>>
diskVars == <<home, dlog, dhead>>
vars == <<procVars, logVars, tail, bufVars, diskVars, boot, panic>>

Slots == 1..(SIZE - 1)
Panics == {"none", "sched locks", "bwrite", "too big a transaction", "log.committing"}

Held(b) == \E p \in Procs : hold[p] = b

\* A system call that is not between begin_op() and end_op() is "idle".
Init == /\ pc = [p \in Procs |-> "idle"]
        /\ hold = [p \in Procs |-> None]
        /\ wrote = [p \in Procs |-> {}]
        /\ eph = {}
        /\ lh = <<>> /\ outstanding = 0 /\ committing = FALSE /\ tail = 0
        /\ home \in [Blocks -> Vals]
        /\ cache = home
        /\ dirty = {}
        /\ dlog \in {[i \in Slots |-> v] : v \in Vals}
        /\ dhead = <<>>
        /\ boot = "off" /\ panic = "none"

------------------------------------------------------------------------------
(* Boot: initlog() -> recover_from_log(), before any other process runs.     *)

\* The loops over log.lh.block leave after this block.
LastBlock_Early == tail + 2 >= Len(lh)
LastBlock == tail + 1 >= Len(lh)

\* The disk interrupt clears B_DIRTY when the block has been written.
Unpin_Not(b) == dirty
Unpin(b) == dirty \ {b}

\* One turn of install_trans(): copy log block tail to its home block.
InstallBlock ==
    LET b == lh[tail + 1] v == dlog[tail + 1]
    IN  /\ home' = [home EXCEPT ![b] = v]
        /\ cache' = [cache EXCEPT ![b] = v]
        /\ dirty' = Unpin(b)
        /\ tail' = tail + 1
        /\ UNCHANGED <<dlog, dhead>>

ReadHead ==
    /\ boot = "off"
    /\ lh' = dhead
    /\ tail' = 0
    /\ boot' = IF dhead = <<>> THEN "clear" ELSE "install"
    /\ UNCHANGED <<procVars, outstanding, committing, bufVars, diskVars, panic>>

RecoverBlock ==
    /\ boot = "install"
    /\ InstallBlock
    /\ boot' = IF LastBlock THEN "clear" ELSE "install"
    /\ UNCHANGED <<procVars, logVars, panic>>

RecoverClear ==
    /\ boot = "clear"
    /\ lh' = <<>>
    /\ dhead' = <<>>
    /\ boot' = "up"
    /\ UNCHANGED <<procVars, outstanding, committing, tail, bufVars, home, dlog, panic>>

\* Power loss, or the reset after a panic: only the disk survives.
Crash ==
    /\ pc' = [p \in Procs |-> "idle"]
    /\ hold' = [p \in Procs |-> None]
    /\ wrote' = [p \in Procs |-> {}]
    /\ eph' = {}
    /\ lh' = <<>> /\ outstanding' = 0 /\ committing' = FALSE /\ tail' = 0
    /\ cache' = home
    /\ dirty' = {}
    /\ boot' = "off" /\ panic' = "none"
    /\ UNCHANGED diskVars

------------------------------------------------------------------------------
(* begin_op()                                                                *)

StartOp(p) ==
    /\ pc[p] = "idle" /\ p \notin Outside
    /\ pc' = [pc EXCEPT ![p] = "begin"]
    /\ UNCHANGED <<hold, wrote, eph, logVars, tail, bufVars, diskVars, boot, panic>>

NoSpace == Len(lh) + (outstanding + 1) * MAXOPBLOCKS > LOGSIZE

MustWait == committing \/ NoSpace

BeginOpSleep(p) ==
    /\ pc[p] = "begin"
    /\ MustWait
    /\ pc' = [pc EXCEPT ![p] = "asleep"]
    /\ UNCHANGED <<hold, wrote, eph, logVars, tail, bufVars, diskVars, boot, panic>>

Admit == outstanding + 1

BeginOpEnter(p) ==
    /\ pc[p] = "begin"
    /\ ~MustWait
    /\ outstanding' = Admit
    /\ pc' = [pc EXCEPT ![p] = IF p \in eph THEN "check" ELSE "op"]
    /\ UNCHANGED <<hold, wrote, eph, lh, committing, tail, bufVars, diskVars, boot, panic>>

\* kill() makes a sleeping process runnable whatever it waits for.
Killed(p) ==
    /\ pc[p] = "asleep"
    /\ pc' = [pc EXCEPT ![p] = "begin"]
    /\ UNCHANGED <<hold, wrote, eph, logVars, tail, bufVars, diskVars, boot, panic>>

------------------------------------------------------------------------------
(* A call's use of a block: bread(), change the data, log_write(), brelse().  *)

Modify(p, b, v) ==
    /\ pc[p] = IF p \in Outside THEN "idle" ELSE "op"
    /\ ~Held(b)
    /\ b \in wrote[p] \/ Cardinality(wrote[p]) < OpBlocks
    /\ hold' = [hold EXCEPT ![p] = b]
    /\ cache' = [cache EXCEPT ![b] = v]
    /\ pc' = [pc EXCEPT ![p] = "buf"]
    /\ UNCHANGED <<wrote, eph, logVars, tail, dirty, diskVars, boot, panic>>

\* log_write() reads log.outstanding without log.lock.
LogWrite(p) ==
    /\ pc[p] = "buf"
    /\ pc' = [pc EXCEPT ![p] = IF outstanding < 1 THEN "begin" ELSE "check"]
    /\ eph' = IF outstanding < 1 THEN eph \cup {p} ELSE eph
    /\ UNCHANGED <<hold, wrote, logVars, tail, bufVars, diskVars, boot, panic>>

\* ... and log.lh.n, for the panic.
LogWriteCheck(p) ==
    /\ pc[p] = "check"
    /\ IF Len(lh) >= LOGSIZE \/ Len(lh) >= SIZE - 1
       THEN panic' = "too big a transaction" /\ UNCHANGED pc
       ELSE pc' = [pc EXCEPT ![p] = "append"] /\ UNCHANGED panic
    /\ UNCHANGED <<hold, wrote, eph, logVars, tail, bufVars, diskVars, boot>>

\* B_DIRTY keeps the buffer in the cache.
Pin_Not(b) == dirty
Pin(b) == dirty \cup {b}

LogAppend(p) ==
    /\ pc[p] = "append"
    /\ lh' = IF hold[p] \in Range(lh) THEN lh ELSE Append(lh, hold[p])
    /\ dirty' = Pin(hold[p])
    /\ wrote' = [wrote EXCEPT ![p] = @ \cup {hold[p]}]
    /\ pc' = [pc EXCEPT ![p] = IF p \in eph THEN "end" ELSE "relse"]
    /\ UNCHANGED <<hold, eph, outstanding, committing, tail, cache, diskVars, boot, panic>>

Brelse(p) ==
    /\ pc[p] = "relse"
    /\ hold' = [hold EXCEPT ![p] = None]
    /\ eph' = eph \ {p}
    /\ wrote' = IF p \in Outside THEN [wrote EXCEPT ![p] = {}] ELSE wrote
    /\ pc' = [pc EXCEPT ![p] = IF p \in Outside THEN "idle" ELSE "op"]
    /\ UNCHANGED <<logVars, tail, bufVars, diskVars, boot, panic>>

\* bget() may recycle any buffer that is neither locked nor B_DIRTY; the next
\* bread() of the block then comes from the disk.
Evict(b) ==
    /\ ~Held(b) /\ b \notin dirty
    /\ cache' = [cache EXCEPT ![b] = home[b]]
    /\ UNCHANGED <<procVars, logVars, tail, dirty, diskVars, boot, panic>>

------------------------------------------------------------------------------
(* end_op() and commit()                                                     *)

\* wakeup(&log)
Wakeup_None(f) == f
Wakeup(f) == [q \in Procs |-> IF f[q] = "asleep" THEN "begin" ELSE f[q]]
Return(p) == IF p \in Outside THEN "relse" ELSE "idle"

\* This end_op() commits.
LastOp_Any == TRUE
LastOp == outstanding = 1

EndOp(p) ==
    /\ pc[p] \in {"end", "op"}
    /\ outstanding' = outstanding - 1
    /\ wrote' = [wrote EXCEPT ![p] = {}]
    /\ panic' = IF committing THEN "log.committing" ELSE panic
    /\ \/ /\ LastOp
          /\ committing' = TRUE
          /\ pc' = [pc EXCEPT ![p] = IF lh = <<>> THEN "done" ELSE "wlog"]
       \/ /\ ~LastOp
          /\ pc' = [Wakeup(pc) EXCEPT ![p] = Return(p)]
          /\ UNCHANGED committing
    /\ tail' = 0
    /\ UNCHANGED <<hold, eph, lh, bufVars, diskVars, boot>>

\* One turn of write_log(): bread(from) waits for the buffer's lock.
WriteLog(p) ==
    LET b == lh[tail + 1]
    IN  /\ pc[p] = "wlog"
        /\ ~Held(b)
        /\ dlog' = [dlog EXCEPT ![tail + 1] = cache[b]]
        /\ tail' = tail + 1
        /\ pc' = [pc EXCEPT ![p] = IF LastBlock THEN "whead" ELSE "wlog"]
        /\ UNCHANGED <<hold, wrote, eph, logVars, bufVars, home, dhead, boot, panic>>

\* write_head(): the commit point, and later the erasure of the transaction.
WriteHead(p) ==
    /\ pc[p] \in {"whead", "erase"}
    /\ dhead' = lh
    /\ tail' = 0
    /\ pc' = [pc EXCEPT ![p] = IF pc[p] = "whead" THEN "install" ELSE "done"]
    /\ UNCHANGED <<hold, wrote, eph, logVars, bufVars, home, dlog, boot, panic>>

InstallTrans(p) ==
    /\ pc[p] = "install"
    /\ ~Held(lh[tail + 1])
    /\ InstallBlock
    /\ pc' = [pc EXCEPT ![p] = IF LastBlock THEN "clear" ELSE "install"]
    /\ UNCHANGED <<hold, wrote, eph, logVars, boot, panic>>

ClearHeader(p) ==
    /\ pc[p] = "clear"
    /\ lh' = <<>>
    /\ pc' = [pc EXCEPT ![p] = "erase"]
    /\ UNCHANGED <<hold, wrote, eph, outstanding, committing, tail, bufVars, diskVars, boot, panic>>

CommitDone(p) ==
    /\ pc[p] = "done"
    /\ committing' = FALSE
    /\ pc' = [Wakeup(pc) EXCEPT ![p] = Return(p)]
    /\ UNCHANGED <<hold, wrote, eph, lh, outstanding, tail, bufVars, diskVars, boot, panic>>

------------------------------------------------------------------------------
(* sys_sync() -> fssync(): begin_op(), log_sync(), bsync(), end_op().         *)

\* log_sync() calls commit() with log.lock held: the first wait for the disk
\* reaches sched() with two spinlocks held.  The disk may already have been
\* given the first log block.  Its own begin_op() keeps committing FALSE, so the
\* sleep on log.committing before that is never reached.
LogSync(p) ==
    /\ pc[p] = "op" /\ p \in Syncers /\ wrote[p] = {}
    /\ \/ /\ lh = <<>>
          /\ pc' = [pc EXCEPT ![p] = "bsync"]
          /\ UNCHANGED <<dlog, panic>>
       \/ /\ lh # <<>>
          /\ panic' = "sched locks"
          /\ dlog' \in {dlog, [dlog EXCEPT ![1] = cache[lh[1]]]}
          /\ UNCHANGED pc
    /\ UNCHANGED <<hold, wrote, eph, logVars, tail, bufVars, home, dhead, boot>>

\* bsync() calls bwrite() on buffers that nobody has locked.
BSync(p) ==
    /\ pc[p] = "bsync"
    /\ \/ /\ \A b \in dirty : Held(b)
          /\ pc' = [pc EXCEPT ![p] = "end"]
          /\ UNCHANGED panic
       \/ /\ \E b \in dirty : ~Held(b)
          /\ panic' = "bwrite"
          /\ UNCHANGED pc
    /\ UNCHANGED <<hold, wrote, eph, logVars, tail, bufVars, diskVars, boot>>

------------------------------------------------------------------------------
Commit(p) == WriteLog(p) \/ WriteHead(p) \/ InstallTrans(p) \/ ClearHeader(p) \/ CommitDone(p)
LogWriteSteps(p) == LogWrite(p) \/ LogWriteCheck(p) \/ LogAppend(p) \/ Brelse(p)
BeginOp(p) == BeginOpSleep(p) \/ BeginOpEnter(p)
Sync(p) == LogSync(p) \/ BSync(p)

Step(p) == \/ StartOp(p) \/ Killed(p) \/ EndOp(p)
           \/ BeginOp(p) \/ LogWriteSteps(p) \/ Commit(p) \/ Sync(p)
           \/ \E b \in Blocks, v \in Vals : Modify(p, b, v)

Up == /\ boot = "up" /\ panic = "none"
      /\ \/ \E p \in Procs : Step(p)
         \/ \E b \in Blocks : Evict(b)

Recover == ReadHead \/ RecoverBlock \/ RecoverClear

Next == Up \/ Recover \/ Crash

Spec == Init /\ [][Next]_vars

\* A process inside a call that can run does run; a system call logs finitely
\* many blocks.
Running == boot = "up" /\ panic = "none"
Fairness ==
    \A p \in Procs : /\ WF_vars(Running /\ (LogWriteSteps(p) \/ Commit(p) \/ BSync(p)))
                     /\ SF_vars(Running /\ EndOp(p))

FairSpec == Spec /\ Fairness

------------------------------------------------------------------------------
(* Properties                                                                *)

PCs == {"idle", "begin", "asleep", "op", "buf", "check", "append", "relse", "end",
        "wlog", "whead", "install", "clear", "erase", "done", "bsync"}

\* Types of the log's, the processes' and the disk's state; the count of open
\* calls in log.outstanding never exceeds the number of processes.
TypeOK ==
    /\ pc \in [Procs -> PCs] /\ hold \in [Procs -> Blocks \cup {None}]
    /\ wrote \in [Procs -> SUBSET Blocks] /\ eph \subseteq Outside
    /\ lh \in Seq(Blocks) /\ dhead \in Seq(Blocks)
    /\ outstanding \in 0..Cardinality(Procs) /\ committing \in BOOLEAN /\ tail \in Nat
    /\ cache \in [Blocks -> Vals] /\ dirty \subseteq Blocks
    /\ home \in [Blocks -> Vals] /\ dlog \in [Slots -> Vals]
    /\ boot \in {"off", "install", "clear", "up"} /\ panic \in Panics

\* What recover_from_log() makes of the disk as it is now.
Replay(head, log, blocks) ==
    [b \in Blocks |-> IF b \in Range(head)
                      THEN log[CHOOSE i \in DOMAIN head : head[i] = b]
                      ELSE blocks[b]]
Recovered == Replay(dhead, dlog, home)

InOp == {p \in Procs : pc[p] \in {"op", "buf", "check", "append", "relse", "bsync", "end"}}

\* Crash atomicity: read through recovery, the disk holds the effects of whole
\* operations only, the commit point is the one write of the header, and the
\* steps of install_trans(), recovery and a crash in either change nothing.
Atomic == INSTANCE AtomicDisk WITH
              durable <- Recovered,
              current <- IF boot = "up" THEN cache ELSE Recovered,
              open    <- InOp
CrashAtomic == Atomic!Spec

\* A buffer that bget() may recycle has the contents of its block on disk, so
\* dropping it loses no update.
RecycledIsOnDisk ==
    \A b \in Blocks : cache[b] = home[b] \/ b \in dirty \/ Held(b)

\* A buffer pinned by log_write() is in the header that commit() will write:
\* no buffer stays pinned for ever and no update is left out.
PinnedIsLogged == boot = "up" => dirty \subseteq Range(lh)

\* When the last end_op() has returned, every update is on disk.
IdleIsDurable ==
    boot = "up" /\ ~committing /\ outstanding = 0 => Recovered = cache

\* A process waiting in begin_op() always has somebody to wake it: a call that
\* will end or a commit that will finish.
SleeperHasWaker ==
    \A p \in Procs : pc[p] = "asleep" => committing \/ outstanding > 0

\* None of the panics of log.c, bio.c and sched() on the log's paths is reached.
NoPanic == panic = "none"

\* Every process that sleeps in begin_op() is woken, unless the kernel panics.
SleeperWoken == \A p \in Procs : []<>(pc[p] # "asleep" \/ panic # "none")
==============================================================================
