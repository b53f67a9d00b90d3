# Verification of the xv7 kernel

TLA+ models of the xv7 kernel (an x86 xv6 descendant) and of the user programs with
state of their own, model-checked with TLC; the log, the buffer cache, path names, context
switches, the process table, the pipe and the checks of system call arguments are also
proved with TLAPS.
`PROJECT.json` maps every definition to the lines it models.

## 1. The system and its parts

| Part | State | Operations | Talks to |
|---|---|---|---|
| log (`kernel/log.c`) | header in memory and on disk, log blocks, `outstanding`, `committing` | `begin_op`, `log_write`, `end_op`, `commit`, recovery, `log_sync` | buffer cache, sleep/wakeup |
| buffer cache (`kernel/bio.c`) | `struct buf` array, list by recency | `bget`, `bread`, `bwrite`, `brelse`, `bsync` | sleep locks, IDE driver, log (`B_DIRTY` pins) |
| sleep locks (`kernel/sleeplock.c`) | `locked`, `pid` | `acquiresleep`, `releasesleep` | sleep/wakeup |
| IDE driver (`kernel/dev/ide.c`) | request queue, device | `iderw`, `idestart`, `ideintr` | buffers, interrupts |
| spinlocks (`kernel/spinlock.c`) | holder, `ncli`, `intena` | `acquire`, `release`, `pushcli`, `popcli` | everything |
| scheduler (`kernel/proc.c`) | `p->state`, `p->chan`, per-CPU context | `scheduler`, `sched`, `yield`, `sleep`, `wakeup` | traps, all sleepers |
| processes (`kernel/proc.c`) | process table, `nextpid` | `fork`, `exit`, `wait`, `kill` | scheduler, files, memory |
| traps and signals (`kernel/trap.c`, `kernel/sysproc.c`) | `ticks`, `pending`, `handlers` | `trap`, `sys_sleep`, `sys_sig*` | scheduler, drivers |
| pipes (`kernel/pipe.c`) | ring, two counters, two open flags | `pipewrite`, `piperead`, `pipeclose` | file table, sleep/wakeup |
| file table (`kernel/file.c`) | `ref`, offset, flags | `filedup`, `fileclose`, `filewrite` | pipes, inodes, log |
| inodes, allocator (`kernel/fs.c`) | inode cache, bitmap | `iget`, `ilock`, `iput`, `bmap`, `itrunc`, `writei` | log, buffers |
| names and calls (`kernel/fs.c`, `kernel/sysfile.c`) | directories, descriptors | `namex`, `create`, `link`, `unlink`, `symlink`, `open` | inodes, file table |
| memory (`kernel/vm.c`, `kernel/kalloc.c`, `kernel/exec.c`) | page tables, free list | `allocuvm`, `copyuvm`, `exec` | processes |
| console (`kernel/dev/char/*.c`) | input ring, `fgproc` | `consoleintr`, `consoleread` | signals, sleep/wakeup |
| clock (`kernel/time.c`, `kernel/lapic.c`) | CMOS time | `unix_uptime` | system calls |
| boot (`kernel/main.c`, `kernel/mp.c`, ...) | — | straight-line set-up | — |
| user programs (`bin/`, `ulib/`, `games/`, `tools/mkfs.c`) | per program | shell, `malloc`, stdio, image maker | system calls |

What makes these parts hard: several CPUs under spinlocks, interrupt handlers that
borrow a CPU, sleep/wakeup without counting, `kill` that wakes any sleeper, system
calls that share one transaction, power loss between any two disk writes, slots and
pids that are used again, counters that wrap around. What each part must guarantee:
the log, that whole calls survive a crash and nobody waits for ever; the cache, one
current buffer per block; the scheduler, one CPU per process and no lost wakeup; the
process table, a tree rooted at init in which every zombie is reaped; a pipe, bytes
in order and calls that return; the file system, that references, links and block
ownership agree; memory, that no page has two owners; the console, edited lines in
order; the shell, the tree of its grammar and pipelines that end.

## 2. Modules

### Storage

`Log` models `log.c` over an abstract cache (`cache`, `dirty`) and disk (`home`,
`dlog`, `dhead`). Each process has a control point; everything between `acquire` and
`release` of `log.lock` is one action, and commit and recovery are split at each disk
write. `Crash` may come between any two actions and keeps the disk only. `log_write`
reads `outstanding` and `lh.n` without the lock, so these reads are actions of their
own. `Syncers` call `sys_sync`; `Outside` call `log_write` without `begin_op`, as
`sys_getcwd` does through `iput`. A panic stops the machine until a crash.
`AtomicDisk` is what `log.c` promises: a durable and a current copy of the blocks, and
a commit, only while no call is open, that makes the first equal to the second.
`Log!CrashAtomic` maps the durable copy to what recovery would make of the disk.
`LogInv` holds the inductive invariant and is the module the run checks; the proofs are
in `LogProofs`.

`BufCache` refines what `Log` takes for granted: `bio.c`, `sleeplock.c` and `ide.c`
with reference counts, the recency list, sleep locks, the request queue, the interrupt,
disk errors and `kill`, which wakes any sleeper. One member of `Users` is one use of a
buffer from `bread` to `brelse`. Its `Pin` is `log_write`'s `B_DIRTY`. `MCBufCache` adds
symmetry, `BufProofs` the proofs.

`FileBlocks` models where a file's bytes live: the image that `mkfs` builds, then `balloc`,
`bfree`, `bmap`, `itrunc`, `readi`, `writei`, `iupdate`, `ilock`, `fileread` and
`filewrite` with its chunks on it. A word is the 4 bytes of a block address and the unit
of data. `struct inode` in memory ends in `addrs[NDIRECT + 1], atime, mtime`, so
`addrs[NDIRECT + 1]` of the code *is* `atime`; the model's `slot` keeps that layout.

`Names` models `namex`, `create` and the calls of `sysfile.c` on a small tree, with the
inode cache and its locks. A step runs from one wait for an inode lock to the next;
`iput` is two steps. What a call changes becomes durable when no call is inside a
transaction, which `Log` shows. The text of a symbolic link lies where other inodes have
block addresses: `itrunc`, and `bmap` under a write, take it for such, which `PutLink` and
`LinkIO` model and `torn` records. `namei` reads the type of an inode without its lock, so
it may see what a cache slot held before (`stale`). `MCNames` gives the image and the
calls. The proofs are in
`NamesSteps` (the invariant, and the steps that change no link, entry or inode type),
`NamesTree` (those that do) and `NamesProofs` (finite sets, booting, the theorems).

### Processes and memory

`Sched` models context switches at the level of single lock operations: per CPU the
context it executes and the place of its interrupt handler, per process the place in
`sys_sleep`, `sleep`, `yield` and `exit`; a new process returns through `forkret`, which
does not look at `killed`. `unacked` is the set of CPUs whose local
APIC still waits for `lapiceoi`, because `trap` may leave through `exit`. Other modules
use what it shows: a `sleep` is atomic with the release of its lock, `kill` may come
before it. `SchedProofs` has the proofs.

`Proc` models the process table under `ptable.lock` as one action per critical section;
`RUNNABLE` stands for `RUNNABLE` and `RUNNING`. `Trap` and `TrapReturn` are an interrupt
of user code, at whose end a signal that came meanwhile is delivered. `ProcProofs` proves the table consistent.

`Pipe` models one pipe with any number of readers and writers; the steps between two
sleeps are atomic under `p->lock`, and `kill` may come between the test of `killed` and
the sleep. `Fifo` is what a pipe promises and `InOrder` the refinement; `PipeProofs` proves
it, and that nobody sleeps without a reason.

`Vm` models the page allocator and page tables under `userinit`, `sbrk`, `fork`, `exec`,
`exit`, `wait` and the frame and the stack of a signal handler. A step is one turn of a loop that calls
`kalloc`, so processes run out of memory in the middle of each other's calls.
`AddressSpaces` is what it promises: private arrays of pages, and a failed call changes
nothing. `Args` has the checks of `syscall.c` on arguments, with sums that wrap; the
theorems about them are at the end of `ProcProofs`.

### Devices

`Console` models the input ring with its three wrapping indices, line editing, `^C` and
`^D`, `consoleread`, signals, a call in which a job sleeps for something else, and the loops of the shell and of init around it. `Tty` is
what it promises: an edited line, a queue of finished ones, reads that take its head.

`Clock` models `cmostime` against a chip that goes on counting while its registers are
read, and the conversion of the date to seconds in an `int`; a tick of the chip is a day.

### User programs

`ShParse` is the shell's recursive descent, and the grammar it implements; `Shell` runs
the trees: redirections, lists, pipelines and background jobs over descriptor tables,
where any `fork`, `pipe`, `open` or `exec` may fail. `Heap` is `malloc`, `free`, `calloc`
and `realloc` over `sbrk`, with memory byte by byte.

`MCAllocators` (`Vm`, `FileBlocks`), `MCDevices` (`Console`, `Clock`) and `MCUserland`
(`Shell`, `Heap`) each check two modules that share no state in one run: the variable
`part` says which of them a behaviour is of.

Left out of the modelled parts: the programming of I/O ports, printing, stack traces,
the names of locks; the check of the log header's size at start-up; block contents,
bytes and messages are members of small sets that are only compared.

## 3. Runs

| Run | Shows |
|---|---|
| `log` | two processes, one of which also calls `sys_sync`, two blocks, crashes anywhere: crash atomicity, no lost update by recycling, an idle log is on disk, every waiter in `begin_op` is woken; the inductive invariant of the proofs |
| `buf_cache` | two users, three buffers, four blocks, one pin: one current, exclusively locked buffer per block, a queue that works, no lost wakeup, no panic, only holders change blocks |
| `buf_live` | three users on two blocks: somebody who waits for a buffer is served, with a failing disk and kills |
| `sched` | two processes, two CPUs: one CPU per process, states that tell the truth, `sched` with one lock, handlers that never spin on their own CPU's lock, no missed tick, a killed process exits |
| `proc` | four slots: the table stays a tree with unique pids and no lost wakeup of `wait`, init reaps orphans, SIGKILL ends `wait` |
| `pipe` | two writers, a reader, capacity 2: bounded queue, sleepers have a reason, closing one end ends the calls on the other |
| `names` | two processes, 14 calls: reference counts match the pointers held, what a crash leaves is a tree with correct link counts, nothing in use is freed, no panic but the known ones; all up to the use of a link's text for block numbers |
| `allocators` | pages: one owner each and private memory, wherever memory runs out, up to a stray store. Blocks: one owner each, none lost, reads return what was written, the inode cache is written through |
| `devices` | console: edited lines in order, no lost wakeup, `^C` spares the shell and ends a job that computes or reads the console. Clock: `unix_uptime` returns a time the clock stood for, modulo 2^32 seconds |
| `userland` | the parser builds the grammar's tree; no stray pipe ends, every line ends, a prompt means done; `malloc` tiles the heap and blocks keep their data |

Each of these properties fails for a small change of a mapped definition (the operators
named `X_Something` before `X`): a dropped guard, a missing wakeup, an off-by-one.

Runs that show a disagreement between the code and a comment in it:

| Run | Code | Comment |
|---|---|---|
| `names_v_deadlock` | `create` waits for the directory while it holds the new inode, `unlink` the other way round | `fs.c:157` |
| `file_v_alias` | a file of `mkfs`'s is read past its single-indirect blocks: `bmap` takes the `atime` that `readi` stamped for the address of the double-indirect block | `fs.c:374` |

Limits of the code that the models contain and the passing runs are stated around:

* `log_sync` commits with `log.lock` held, so its first sleep panics in `sched`; `bsync`
  passes unlocked buffers to `bwrite`, which panics. The disk stays repairable (`log`);
  `PanicFree` is proved without `sys_sync`.
* `log_write` outside a transaction, as under `sys_getcwd`, opens one that waits for its
  caller's buffer: `Outside` is empty in the run and in the proofs.
* The log area holds `LOGSIZE - 1` blocks besides the header, so calls that log all they
  reserve would reach "too big a transaction"; the run and the proofs have calls that log
  two blocks fewer (`OpBlocks`).
* `ideintr` marks a buffer valid after a failed read; `HoldsBlock` and `OnlyHolderWrites`
  are checked and proved with `DiskErrors = FALSE`.
* `trap` calls `exit` before `lapiceoi` when the timer interrupts a killed process: that
  CPU gets no more ticks. `KilledExits` of `Sched` ends there (`unacked # {}`).
* `kill` marks free slots too. `wait`, `sys_sleep` and the pipe's calls test `killed` and
  not `pending`, so only SIGKILL ends them: `InterruptEnds` is about a job that computes or
  reads the console, and `^C` reaches one that sleeps elsewhere when its call returns.
* `pipewrite` and `piperead` test `killed` before they sleep, and a kill in between is
  lost: `CallsReturn` is about the close of the other end. `pipewrite` of a killed writer
  returns without waking the readers for the bytes it did copy (`Abandoned`).
* Freeing or writing a symbolic link passes its text to `bfree` or `bread`. The kernel panics
  ("incorrect blockno", "freeing free block"), or, with a text short enough to be a block
  number, changes some other file's block. `CommittedTree` is stated until such a
  transaction commits, `InUseStays` and `PanicsKnown` until it happens.
* After a failed lookup `namei` reads a type through a null pointer, which is the text of the
  program; `Names` takes it not to be the type of a symbolic link.
* `sys_symlink` and a too deep `namei` forget a reference (`leak` in `Names`); unlinking a
  symbolic link or a directory of `mkfs`'s panics (`PanicsKnown`). The root that `mkfs`
  rounds up may end in a hole, whose block is lost when written (`hole` in `FileBlocks`;
  `NothingLost` leaves that inode out). `itrunc` takes `atime` for a block address as `bmap`
  does; the blocks behind the true address are lost, so `NothingLost` is checked for files
  that need no double-indirect block.
* `filewrite` reads the size for an append once, without the inode's lock. `ReadBack` follows
  the offsets that are used: it says that reads return what was last written there, not
  that two appends stay apart.
* `sys_sigreturn` loses pages (`lost` in `Vm`).
* Three stores go astray: `trap` pushes a signal's number at whatever `%esp` the user has;
  `exec` puts an argument longer than the new image below address 0; and `growproc` does not
  flush the TLB when `sbrk` gives all memory back, so the process runs on in pages it has
  lost. `PagesOwnedOnce` and `PrivateMemory` hold up to such a store, or up to the page fault
  at `%esp`.
* From 2038-01-19 on `unix_uptime`'s seconds do not fit its `int`: `UptimeRight` is stated
  modulo 2^32, and the run starts before that day too.
* `unix_uptime` keeps the date in one global: `Clock` is checked with one CPU, since two
  mix their dates.

### Bounds

* `log`: two processes suffice for the races (one commits or sleeps, one is in a call);
  two blocks let calls overlap, absorb and differ. `MAXOPBLOCKS` 4 and `LOGSIZE` 8 admit
  two calls at once, and make the second wait when the first has logged a block before it
  comes; `SIZE = LOGSIZE` as `mkfs` sets it. With two processes the wakeup after the commit
  meets a sleeper, the one at `log.c:155` none; `SleepersWakeable` is for any number.
  Larger instances are covered by the proofs.
* `buf_cache`, `buf_live`: as many buffers as users plus pins, the smallest cache that need
  not panic, and in `buf_cache` more blocks than buffers, so that buffers are recycled.
* `sched`: two CPUs and two processes, so that both run at once and either waits for the
  other's locks; where interrupts are on is given by label (`Interruptible`), read off
  `pushcli`, `popcli` and `sti`; ticks without end that wrap at `TickMod`.
* `proc`: four slots give init, a parent, a child and a grandchild; `MaxPid` allows three
  forks, enough to use a slot again.
* `pipe`: capacity 2 with writes of up to 3 bytes, so a write must sleep; the counters
  start just before they wrap at `CountMod`, a multiple of `PIPESIZE` as 2^32 is of 512.
* `names`: four inodes, two names, three calls (two for the deadlock), symbolic links
  followed once: enough for a call that finds, a call that removes and one that fails.
* `allocators`: 18 pages of two units and tables of two entries, so that a process crosses
  a page table and memory runs out at every place, in three calls; arguments that fit a page, cross one, and exceed an image; ten blocks of two words
  with one direct address, so that five calls reach the double-indirect block.
* `devices`: a ring of two characters with indices that wrap at 4; three slots for init,
  the shell and a job; the clock starts before a leap day of an ordinary, a leap and a
  400-year, a new year and a month end, and before the seconds exceed an `int`.
* `userland`: every line of up to four characters, of five without a blank or `<`
  or of words, blanks and `>`, and seven that are run; three words are too many; a heap of 16 units and five calls.

### Fairness

A runnable process runs and a spinning CPU gets the lock in the end: `scheduler` goes
round the table, and critical sections are short. `Log` has strong fairness for `EndOp`
alone: a call logs finitely many blocks. `BufCache`: steps in a call go on, a holder
releases its buffer, the disk answers, perhaps with an error. `Sched` has strong fairness
per CPU, because interrupts keep interrupting, and for reaching `pushcli` between two
interrupts; a pending timer interrupt is delivered once interrupts are on, unless the APIC
waits for an acknowledgement. `Proc`: `trap` does not let a killed process go and init
calls `wait` for ever (`bin/init/init.c`). `Pipe`: each end is closed in the end, as when
its processes exit. `Console`: calls in progress and the loops of the shell and init go
on; nobody need type. `Shell`: some process runs as long as one can. User code is under no
fairness.

`CHECK_DEADLOCK` is off where the system may stop: the pipe with both ends closed, the
runs with a bound on the number of calls, the console when nobody types and the shell
after its line.

## 4. Proofs

| Module | Theorem | Statement | Assumes |
|---|---|---|---|
| `LogProofs` | `Invariance` | `Spec => []IInv` | `Disciplined` |
| | `Typed`, `RecycleSafe`, `PinSafe`, `IdleDurable`, `SleepersWakeable` | the invariants of the log | `Disciplined` |
| | `PanicFree` | no panic | `Disciplined`, no `sys_sync` |
| | `Refinement` | `Spec => CrashAtomic`: the log implements `AtomicDisk` | `Disciplined` |
| `BufProofs` | `CacheAgrees` | the conjuncts of `CacheConsistent` other than `~panic` | finitely many users |
| | `PanicsWhenFull` | a step that panics is taken when the users that refer to a buffer and the pins are together `NBUF` or more | — |
| | `HolderHasBlock` | `Spec => []HoldsBlock` | no disk errors |
| | `OnlyHoldersWrite` | `Spec => OnlyHolderWrites`, an action property | no disk errors |
| `NamesProofs` | `ReferencesCounted` | `NamesSpec => [](torn = "no" => RefsCounted)` | the image is a file system |
| | `CrashLeavesTree` | `NamesSpec => []CommittedTree` | the same |
| | `InUseNotFreed` | `NamesSpec => []InUseStays` | the same |
| | `FewPanics` | `NamesSpec => []PanicsKnown` | the same |
| `SchedProofs` | `SwitchSafe` | `Spec => []SwitchIsSafe` | — |
| | `HandlerSafe` | `Spec => []HandlerNeverSelfDeadlocks` | — |
| | `TickNotMissed` | `Spec => []NoMissedTick` | — |
| `ProcProofs` | `TableIsConsistent` | `Spec => []TableConsistent` | — |
| | `ArgptrExact`, `FetchintExact` | what is admitted is what the process owns | `sz <= KERNBASE` |
| `PipeProofs` | `NoLostWakeup` | `Spec => []SleepersHaveReason` | — |
| | `RingIsQueue` | `Spec => InOrder`: the ring implements `Fifo` | — |

Each is for every value of the constants that the `ASSUME` of its component admits: any
number of processes, CPUs, users, blocks, buffers, slots, inodes, names, bytes and sizes.
Each module of proofs names its default prover at the top (`USE`) and the other one at the
steps that need it.

**Log.** `Disciplined`: every `log_write` is inside a transaction, the log area has
at least `LOGSIZE` blocks, and a call logs at least two blocks fewer than it
reserves. The last is what the code needs: one block of the area is the header, and
`log_write` wants a free block even when it absorbs.
The invariant `IInv` has four parts. `ControlInv`: `outstanding` counts the open calls,
a commit runs alone and with no call open, a process holds a buffer exactly between
`bread` and `brelse`. `SpaceInv`: the header and the reserved blocks not yet used (the set
`Free`, counted as a cardinality) fit in the log; without it `log_write`'s panic cannot
be excluded and log slots not be shown to exist. `DiskInv`, while running: a buffer
differs from its home block only if it is pinned or held, pins are in the header, and each
point of the commit has its own statement of which blocks have been copied or installed;
during recovery: the blocks installed so far equal their log blocks. `TypeOK` gives the
rest. The proof that a step preserves it has a lemma per part (`TypeStep`,
`ControlStep`, `SpaceStep`, `DiskStep`) and a case per action. `Refinement` needs, besides, the lemmas `ReplayEmpty`, `ReplayValue` and
`ReplaySame` about what recovery makes of a disk: the header write is the one step that
maps to `Commit`, everything else in a commit, and all of recovery, to a stutter.

**Buffer cache.** Three invariants, each on top of the one before. `IInv` is inductive by
itself, with failing disk and kills: to the conjuncts of `CacheConsistent` it adds that a
user has a buffer exactly while it is in a call (`PlaceInv`), and that a queued request
still has something to do, a holder has a valid buffer, and a sleeper woken early finds
its request still queued (`RequestInv`); without the last, `iderw`'s loop could hand over a
buffer that was never read. The reference counts are cardinalities (`RefUp`, `RefDown`).
`PinInv`: dirty buffers that nobody writes are at most `MaxPinned`. When `bget` panics,
every buffer has a user or is pinned (`AllTaken`), and `RequestInv` keeps `iderw` from its
"nothing to do" panic; so `PanicsWhenFull`, which needs no assumption on sizes. It does
not exclude the panic in xv7, where `NBUF` is no more than the log alone may pin. `CopyInv`, for a disk that does not fail: a valid, clean
buffer equals its disk block, and a finished write has reached the disk before `ideintr`
clears `B_DIRTY`. `HoldsBlock` follows at once; for `OnlyHolderWrites` the contents of a
block are its live buffer's data or the disk's (`ContentsIs`), and each action that is not
the holder's leaves both the same or swaps one for an equal other (`ContentsKept`): a
recycled buffer was clean, so the disk has its data. `IInv`, `PinInv` and `CopyInv` were
also checked by TLC on the instance of `buf_cache`, the first two with disk errors too.

**Path names.** `NamesAssumption` asks of the image what `mkfs` gives it: entries name
allocated inodes, the link count of a file counts its entries, directories have `.` and
`..`. The four theorems follow from one invariant, because none of their properties is
inductive without the others: that `iput` frees only what nobody uses needs the reference
counts, and that a name found in a directory leads to an inode needs that nothing with an
entry is freed. `Shape` says, at each label of a call, which inodes it has in hand; `Fits`,
which of them are directories and which locks it holds, so that an entry `unlink` has found
is still there when it gets the second lock; `InHand`, that they are allocated, save the one
that `iput` has just freed. `TreeInv`: entries name allocated inodes, and a link count is
the number of entries and of calls that have counted a link and not made its entry, or taken
the entry and not the count (`Owing`); while no call is in a transaction nobody owes, and so
what `end_op` commits is a file system. `CountInv`: a reference count is the number of
pointers to the inode, of all processes, that are held or forgotten. A step moves the
pointers of one process: `StepOf` reduces the invariant to its own frame and the count to
its seven pointers. An inode that `iput` frees has one pointer and no links, so
neither an entry nor a debtor nor another process leads to it (`PutSteps`). What this uses
of cardinalities is the conjunct `Finite`, which says nothing of the state; `FiniteHolds`
proves it. A crash and a boot are one lemma, `BootInv`. `Inv`
asks for this until a link's text is taken for block numbers, and for the committed tree
until that is committed. TLC checked all of this invariant but `TypeOK` and
`Finite` on the instance of `names`.

**Context switches.** `IInv` says which locks a CPU holds, from the place of the process it
executes and of its handler (`CpuOK`: `ptable.lock` exactly from `sched` to `resume` and at
the end of `sleep`, `tickslock` exactly inside `sys_sleep`'s test or the tick); that a handler
came where interrupts were on; that a process no CPU executes waits in `sched` and is not
`RUNNING` (`OffInv`); and of sleepers (`SleepOK`) that who is about to sleep has seen its
time not yet up, and that from the release of `tickslock` on, it is up only while the
handler that counted the tick has not called `wakeup`. The last is why `sleep` must take
`ptable.lock` before it lets the caller's lock go: in between, no tick can be counted.
`PlaceStep` and `SleepStep` reduce a step to its own CPU and process. The number of ticks
and their wrap play no part, so the theorems hold for a timer that never stops. TLC checked
this `IInv` on the instance of `sched`, and with three processes and finitely many ticks.

**Process table.** None of the three statements of `TableConsistent` is inductive: `IInv`
adds that a slot `fork` is filling belongs to that `fork` alone and has no children, that
only `wait` sleeps, and that pids in use are below `nextpid`.

**Pipe.** The ring is reasoned about through the arithmetic of counters that wrap at a
multiple of its size (`ModMod`: the slot is found all the same; `ModApart`: the bytes in
the ring have different slots). `nwrite - nread` modulo the wrap is the number of bytes,
which never exceeds `PIPESIZE`; each step of a writer appends to the abstract queue, each
of a reader takes a prefix of it, and everything else is a stutter.

### Only model-checked

* Liveness: `SleeperWoken`, `BufferServed`, `KilledExits`, `OrphansReaped`, `CallsReturn`,
  `ReaderWoken`, `InterruptEnds`, `LineEnds`. Fairness and ENABLED are beyond the proof
  system.
* What `FileBlocks`, `Heap` and `ShParse` compute: their definitions are recursive (trees of
  blocks, the ring of free blocks, the descent), and induction over data is beyond it too.
* `Vm`, `Console`, `Tty`, `Clock` and `Shell` are not proved; their runs bound calls or
  counters. `Vm` and `Clock` compute with folds, which need induction as well.

## 5. Not modelled

Boot code and the MP tables (straight-line hardware set-up), device registers, printing and
formatting, string functions, stdio buffering, commands and games: sequential code on
private state, or hardware. `fstat` and the device switch change nothing that is modelled.
Memory ordering is taken as the comments in `acquire` and `release` say.
