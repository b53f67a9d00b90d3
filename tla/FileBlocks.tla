----------------------------- MODULE FileBlocks -----------------------------
(***************************************************************************)
(* Where a file's bytes live.  tools/mkfs.c builds an image; the kernel of   *)
(* kernel/fs.c and kernel/file.c then reads, writes, creates and frees       *)
(* files on it.  A word stands for the 4 bytes of a block address and for    *)
(* the unit of file data, so a block is BSIZE words and an index block holds *)
(* BSIZE addresses.  The lock of an inode makes one writei(), readi() or     *)
(* itrunc() one step, and one transaction; filewrite() takes several.        *)
(*                                                                          *)
(* The struct inode in memory has NDIRECT + 1 addresses followed by atime    *)
(* and mtime, the one on disk NDIRECT + 3: the kernel's addrs[NDIRECT + 1]   *)
(* is atime and its addrs[NDIRECT + 2] is mtime.                             *)
(***************************************************************************)
EXTENDS Integers, Sequences, FiniteSets, FiniteSetsExt, SequencesExt

CONSTANTS Callers, Files,  \* processes (one writes its own number); file table
          Inums,           \* inode numbers; the least is the root directory
          NBLOCKS,         \* data blocks, numbered from 1
          BSIZE, NDIRECT,
          CHUNK,           \* words filewrite() puts in one transaction
          Limits,          \* bounds on a file's size in words, in MAXFILE's place
          ImageSizes,      \* sizes of the files mkfs is given
          MaxFileCalls,    \* bound on the system calls made
          Counts,          \* words asked of read() and write()
          TIME             \* what unix_uptime() returns: never a block number

ROOT == Min(Inums)
Slots == 0..(NDIRECT + 2)
Words == 0..(BSIZE - 1)
Zero == [w \in Words |-> 0]
NoFile == [ref |-> 0, ip |-> 0, off |-> 0, append |-> FALSE]

VARIABLES phase,           \* mkfs at work, or the kernel
          freeblock,       \* mkfs's allocator
          used, blk,       \* the bitmap and the blocks
          dino,            \* inodes on disk
          mem,             \* inodes in memory
          file, op,        \* the file table; a write under way in a process
          limit, hole,     \* the limit; mkfs's root ends in a hole
          said,            \* what was written at each offset of an inode
          fcalls,          \* system calls made so far
          panic

disk == <<used, blk, dino>>
fvars == <<phase, freeblock, disk, mem, file, op, limit, hole, said, fcalls, panic>>

FreeInode == [type |-> "none", nlink |-> 0, size |-> 0,
              addrs |-> [k \in Slots |-> 0], atime |-> 0, mtime |-> 0]
NotCached == [ref |-> 0, valid |-> FALSE, type |-> "none", nlink |-> 0, size |-> 0,
              slot |-> [k \in Slots |-> 0]]
Idle == [f |-> CHOOSE f \in Files : TRUE, left |-> 0]

FileInit ==
    /\ phase = "empty" /\ limit \in Limits /\ hole = FALSE /\ fcalls = 0
    /\ freeblock = 1 /\ used = {}
    /\ blk = [b \in 1..NBLOCKS |-> Zero]
    /\ dino = [i \in Inums |-> FreeInode]
    /\ mem = [i \in Inums |-> NotCached]
    /\ file = [f \in Files |-> NoFile] /\ op = [p \in Callers |-> Idle]
    /\ said = [i \in Inums |-> <<>>]
    /\ panic = "none"

------------------------------------------------------------------------------
(* Blocks.  The functions below work on a record of the bitmap, the blocks,   *)
(* one inode's addresses, the address found and the panic.                   *)

Work(slot) == [used |-> used, blk |-> blk, slot |-> slot, addr |-> 0, panic |-> panic]

Stop(s, why) == [s EXCEPT !.panic = IF @ = "none" THEN why ELSE @]

\* balloc(): the first clear bit, and bzero().  mkfs's freeblock++ takes the
\* same block, of an image written as zeroes.
Balloc_Unmarked(s) ==
    LET free == (1..NBLOCKS) \ s.used
    IN  IF free = {} THEN Stop(s, "balloc: out of blocks")
        ELSE [s EXCEPT !.addr = Min(free), !.blk[Min(free)] = Zero]
Balloc(s) ==
    LET free == (1..NBLOCKS) \ s.used
    IN  IF free = {} THEN Stop(s, "balloc: out of blocks")
        ELSE [s EXCEPT !.used = @ \cup {Min(free)}, !.addr = Min(free), !.blk[Min(free)] = Zero]

Bfree(s, b) ==
    IF b > NBLOCKS THEN Stop(s, "bfree: incorrect blockno")
    ELSE IF b \notin s.used THEN Stop(s, "freeing free block")
    ELSE [s EXCEPT !.used = @ \ {b}]

\* The slot of the inode, then the entries of the index blocks, that lead to
\* block bn of a file.
Route_First(bn) == IF bn < NDIRECT THEN <<bn>> ELSE <<NDIRECT, 0>>
Route(bn) ==
    LET n1 == bn - NDIRECT  n2 == n1 - BSIZE  n3 == n2 - BSIZE * BSIZE
    IN  CASE n1 < 0 -> <<bn>>
          [] n1 >= 0 /\ n2 < 0 -> <<NDIRECT, n1>>
          [] n2 >= 0 /\ n3 < 0 -> <<NDIRECT + 1, n2 \div BSIZE, n2 % BSIZE>>
          [] OTHER -> <<NDIRECT + 2, n3 \div (BSIZE * BSIZE), (n3 \div BSIZE) % BSIZE, n3 % BSIZE>>

\* One level of bmap(): the address at entry e of block at (0: of the inode),
\* allocated if there is none.
Entry(s, at, e) ==
    LET a == IF at = 0 THEN s.slot[e] ELSE s.blk[at][e]
        t == Balloc(s)
    IN  IF a # 0 \/ t.panic # "none" THEN [(IF a # 0 THEN s ELSE t) EXCEPT !.addr = a]
        ELSE IF at = 0 THEN [t EXCEPT !.slot[e] = t.addr] ELSE [t EXCEPT !.blk[at][e] = t.addr]

\* bread() of the block just found ends in idestart().
Bread(s) == IF s.addr > NBLOCKS THEN Stop(s, "bmap: incorrect blockno") ELSE s

Bmap(s, bn) ==
    FoldLeft(LAMBDA t, e : IF t.panic # "none" THEN t
                           ELSE Bread(Entry(t, t.addr, e)),
             [s EXCEPT !.addr = 0], Route(bn))

\* readi()'s and writei()'s loops, a word at a time.
ReadWords(s, off, n) ==
    FoldLeft(LAMBDA t, w : IF t.panic # "none" THEN t ELSE Bmap(t, w \div BSIZE),
             s, [k \in 1..n |-> off + k - 1])
WriteWords(s, off, n, v) ==
    FoldLeft(LAMBDA t, w :
                LET u == Bmap(t, w \div BSIZE)
                IN  IF t.panic # "none" THEN t ELSE IF u.panic # "none" THEN u
                    ELSE [u EXCEPT !.blk[u.addr][w % BSIZE] = v],
             s, [k \in 1..n |-> off + k - 1])

\* itrunc(): free a block and, depth levels down, what it lists.
RECURSIVE FreeTree(_, _, _)
FreeTree(s, b, depth) ==
    IF b = 0 \/ s.panic # "none" THEN s
    ELSE IF b > NBLOCKS THEN Stop(s, "itrunc: incorrect blockno")
    ELSE LET below == IF depth = 0 THEN s
                      ELSE FoldLeft(LAMBDA t, w : FreeTree(t, t.blk[b][w - 1], depth - 1),
                                    s, [w \in 1..BSIZE |-> w])
         IN  Bfree(below, b)

Depth_Flat(k) == 0
Depth(k) == IF k < NDIRECT THEN 0 ELSE k - NDIRECT + 1

Itrunc(s) ==
    FoldLeft(LAMBDA t, k : [FreeTree(t, t.slot[k], Depth(k)) EXCEPT !.slot[k] = 0],
             s, [k \in 1..(NDIRECT + 3) |-> k - 1])

------------------------------------------------------------------------------
(* Inodes                                                                    *)

\* ilock(): the first after iget() reads the inode from disk.
Ilock(i) ==
    LET m == mem[i]  d == dino[i]
    IN  IF m.valid THEN m
        ELSE [m EXCEPT !.valid = TRUE, !.type = d.type, !.nlink = d.nlink, !.size = d.size,
                       !.slot = [k \in Slots |-> CASE k <= NDIRECT -> d.addrs[k]
                                                   [] k = NDIRECT + 1 -> d.atime
                                                   [] k = NDIRECT + 2 -> d.mtime]]

\* iupdate(): what becomes of the inode d on disk.
Iupdate_NoAddrs(m, d) ==
    [d EXCEPT !.type = m.type, !.nlink = m.nlink, !.size = m.size,
              !.atime = m.slot[NDIRECT + 1], !.mtime = m.slot[NDIRECT + 2]]
Iupdate(m, d) ==
    [d EXCEPT !.type = m.type, !.nlink = m.nlink, !.size = m.size,
              !.atime = m.slot[NDIRECT + 1], !.mtime = m.slot[NDIRECT + 2],
              !.addrs = [k \in Slots |-> IF k <= NDIRECT THEN m.slot[k] ELSE @[k]]]

\* The effect of a call on inode i: m is the inode in memory, s the blocks.
Finish(i, m, s, saved) ==
    /\ mem' = [mem EXCEPT ![i] = [m EXCEPT !.slot = s.slot]]
    /\ used' = s.used /\ blk' = s.blk /\ panic' = s.panic
    /\ dino' = IF saved THEN [dino EXCEPT ![i] = Iupdate([m EXCEPT !.slot = s.slot], @)] ELSE dino

\* readi() cuts a read at the end of the file.
ReadCount(m, off, n) == IF off > m.size THEN 0 ELSE Min({n, m.size - off})

\* It stamps atime before anything else.
Readi(m, off, n) ==
    ReadWords(Work([m.slot EXCEPT ![NDIRECT + 1] = TIME]), off, ReadCount(m, off, n))

\* writei() stamps mtime; it saves the inode when the file has grown.
Writei(i, m, s, off, n, v) ==
    LET t == WriteWords([s EXCEPT !.slot[NDIRECT + 2] = TIME], off, n, v)
        grown == off + n > m.size
    IN  /\ Finish(i, IF grown THEN [m EXCEPT !.size = off + n] ELSE m, t, grown)
        /\ said' = [said EXCEPT ![i] = [w \in 1..Max({Len(@), off + n}) |->
                                          IF w > off /\ w <= off + n THEN v ELSE @[w]]]

\* iput() of the last reference frees an inode without links.  iget() reads an
\* inode without references from disk again.
Iput(i, m, saved) ==
    IF m.nlink = 0 /\ m.ref = 1
    THEN LET s == Itrunc(Work(m.slot))
         IN  /\ Finish(i, [m EXCEPT !.type = "none", !.size = 0, !.valid = FALSE, !.ref = 0], s, TRUE)
             /\ said' = [said EXCEPT ![i] = <<>>]
    ELSE /\ Finish(i, [m EXCEPT !.ref = @ - 1, !.valid = m.ref > 1], Work(m.slot), saved)
         /\ UNCHANGED said

Iget(i) == [mem[i] EXCEPT !.ref = @ + 1]

------------------------------------------------------------------------------
(* mkfs: its iappend() walks the same index as bmap().                       *)

\* The inodes and blocks after iappend(i, data of n words, n).
Iappend(s, i, n, v) ==
    LET d == s.dino[i]
        t == WriteWords([used |-> s.used, blk |-> s.blk, slot |-> d.addrs, addr |-> 0,
                         panic |-> "none"], d.size, n, v)
    IN  [used |-> t.used, blk |-> t.blk,
         dino |-> [s.dino EXCEPT ![i].addrs = t.slot, ![i].size = @ + n]]

\* ialloc()
MkInode(s, i, t) == [s EXCEPT !.dino[i] = [FreeInode EXCEPT !.type = t, !.nlink = 1]]

DiskImage == [used |-> 1..(freeblock - 1), blk |-> blk, dino |-> dino]
Write(s) == /\ freeblock' = Cardinality(s.used) + 1
            /\ blk' = s.blk /\ dino' = s.dino
            /\ UNCHANGED <<used, mem, file, op, limit, hole, panic>>

\* The root directory with its entries "." and "..".
MkRoot ==
    /\ phase = "empty" /\ phase' = "mkfs"
    /\ Write(Iappend(MkInode(DiskImage, ROOT, "dir"), ROOT, 2, 1))
    /\ said' = [said EXCEPT ![ROOT] = <<1, 1>>]

\* A file of n words: its inode, its entry in the root, its contents.
MkFile(i, n) ==
    /\ phase = "mkfs" /\ n <= limit
    /\ dino[i].type = "none" /\ i = Min({j \in Inums : dino[j].type = "none"})
    /\ Write(Iappend(Iappend(MkInode(DiskImage, i, "file"), ROOT, 1, 1), i, n, 1))
    /\ said' = [said EXCEPT ![ROOT] = Append(@, 1), ![i] = [w \in 1..n |-> 1]]
    /\ UNCHANGED phase

\* The root's size is rounded up, past a full last block too; balloc() writes the
\* bitmap.  The kernel boots: init's current directory refers to the root.
MkDone ==
    /\ phase = "mkfs" /\ phase' = "up"
    /\ LET size == (dino[ROOT].size \div BSIZE + 1) * BSIZE
       IN  /\ dino' = [dino EXCEPT ![ROOT].size = size]
           /\ hole' = (dino[ROOT].size % BSIZE = 0)
           /\ said' = [said EXCEPT ![ROOT] = [w \in 1..size |-> IF w <= Len(@) THEN @[w] ELSE 0]]
    /\ used' = 1..(freeblock - 1)
    /\ mem' = [mem EXCEPT ![ROOT].ref = 1]
    /\ UNCHANGED <<freeblock, blk, file, op, limit, panic>>

------------------------------------------------------------------------------
(* Directories and files under the kernel                                    *)

Running == phase = "up" /\ panic = "none"

\* dirlink(): dirlookup() reads every entry, the first free one, or the end, is
\* written.
Dirlink ==
    LET m == Ilock(ROOT)
        s == Readi(m, 0, m.size)
        Free(w) == LET t == Bmap(s, w \div BSIZE) IN t.blk[t.addr][w % BSIZE] = 0
        e == Min({w \in 0..(m.size - 1) : Free(w)} \cup {m.size})
    IN  /\ Running /\ m.size < limit
        /\ IF s.panic # "none" THEN Finish(ROOT, m, s, FALSE) /\ UNCHANGED said
                               ELSE Writei(ROOT, m, s, e, 1, 1)
        /\ UNCHANGED <<phase, freeblock, file, op, limit, hole>>

FreeFile(f) == file[f].ref = 0 /\ f = Min({g \in Files : file[g].ref = 0})

\* sys_open(): filealloc() leaves f->flags as the last user set them.
Opened(f, i) == [file EXCEPT ![f] = [ref |-> 1, ip |-> i, off |-> 0, append |-> @.append]]

Open(f, i) ==
    /\ Running /\ FreeFile(f) /\ dino[i].type = "file" /\ dino[i].nlink > 0
    /\ mem' = [mem EXCEPT ![i] = [Ilock(i) EXCEPT !.ref = @ + 1]]
    /\ file' = Opened(f, i)
    /\ UNCHANGED <<phase, freeblock, disk, op, limit, hole, said, panic>>

\* create(): ialloc(), iget(), ilock(), nlink = 1, iupdate().
Create(f, i) ==
    LET d == [FreeInode EXCEPT !.type = "file", !.nlink = 1]
    IN  /\ Running /\ FreeFile(f)
        /\ dino[i].type = "none" /\ i = Min({j \in Inums : dino[j].type = "none"})
        /\ dino' = [dino EXCEPT ![i] = d]
        /\ mem' = [mem EXCEPT ![i] = [NotCached EXCEPT !.ref = 1, !.valid = TRUE,
                                                       !.type = "file", !.nlink = 1]]
        /\ file' = Opened(f, i)
        /\ said' = [said EXCEPT ![i] = <<>>]
        /\ UNCHANGED <<phase, freeblock, used, blk, op, limit, hole, panic>>

Users(f) == {p \in Callers : op[p].left > 0 /\ op[p].f = f}

Filedup(f) ==
    /\ Running /\ file[f].ref \in 1..(Cardinality(Callers) - 1)
    /\ file' = [file EXCEPT ![f].ref = @ + 1]
    /\ UNCHANGED <<phase, freeblock, disk, mem, op, limit, hole, said, panic>>

\* A process closes a file it is not writing to.
Fileclose(f) ==
    /\ Running /\ file[f].ref > Cardinality(Users(f))
    /\ IF file[f].ref > 1
       THEN file' = [file EXCEPT ![f].ref = @ - 1] /\ UNCHANGED <<disk, mem, said, panic>>
       ELSE /\ file' = [file EXCEPT ![f] = [NoFile EXCEPT !.append = file[f].append]]
            /\ Iput(file[f].ip, mem[file[f].ip], FALSE)
    /\ UNCHANGED <<phase, freeblock, op, limit, hole>>

\* sys_fcntl(F_SETFL, O_APPEND)
Fcntl(f) ==
    /\ Running /\ file[f].ref > 0
    /\ file' = [file EXCEPT ![f].append = TRUE]
    /\ UNCHANGED <<phase, freeblock, disk, mem, op, limit, hole, said, panic>>

\* sys_unlink()'s end: ilock(), nlink--, iupdate(), iunlockput().
Unlink(i) ==
    /\ Running /\ dino[i].type = "file" /\ dino[i].nlink > 0
    /\ Iput(i, [Ilock(i) EXCEPT !.ref = @ + 1, !.nlink = @ - 1], TRUE)
    /\ UNCHANGED <<phase, freeblock, file, op, limit, hole>>

Fileread(f, n) ==
    /\ Running /\ file[f].ref > 0
    /\ LET i == file[f].ip  m == mem[i]
       IN  /\ Finish(i, m, Readi(m, file[f].off, n), FALSE)
           /\ file' = [file EXCEPT ![f].off = @ + ReadCount(m, @, n)]
    /\ UNCHANGED <<phase, freeblock, op, limit, hole, said>>

\* filewrite() reads the size for F_APPEND once, without the inode's lock.
WriteStart(p, f, n) ==
    /\ Running /\ op[p].left = 0 /\ file[f].ref > Cardinality(Users(f))
    /\ op' = [op EXCEPT ![p] = [f |-> f, left |-> n]]
    /\ file' = IF file[f].append THEN [file EXCEPT ![f].off = mem[file[f].ip].size] ELSE file
    /\ UNCHANGED <<phase, freeblock, disk, mem, limit, hole, said, panic>>

\* A turn of its loop.  writei() fails past the limit, its stamp remains.
WriteChunk(p) ==
    LET f == op[p].f  i == file[f].ip  off == file[f].off
        n == Min({CHUNK, op[p].left})
        s == Work(mem[i].slot)
    IN  /\ Running /\ op[p].left > 0
        /\ IF off > mem[i].size \/ off + n > limit
           THEN /\ op' = [op EXCEPT ![p] = Idle]
                /\ Finish(i, mem[i], [s EXCEPT !.slot[NDIRECT + 2] = TIME], FALSE)
                /\ UNCHANGED <<file, said>>
           ELSE /\ Writei(i, mem[i], s, off, n, p)
                /\ file' = [file EXCEPT ![f].off = off + n]
                /\ op' = [op EXCEPT ![p] = IF op[p].left = n THEN Idle ELSE [@ EXCEPT !.left = @ - n]]
        /\ UNCHANGED <<phase, freeblock, limit, hole>>

\* The machine stops between two transactions and boots again.
Reboot ==
    /\ Running
    /\ mem' = [i \in Inums |-> [NotCached EXCEPT !.ref = IF i = ROOT THEN 1 ELSE 0]]
    /\ file' = [f \in Files |-> NoFile] /\ op' = [p \in Callers |-> Idle]
    /\ UNCHANGED <<phase, freeblock, disk, limit, hole, said, panic>>

Panicked == (panic # "none" \/ fcalls = MaxFileCalls) /\ UNCHANGED fvars

Call ==
    \/ Dirlink \/ Reboot
    \/ \E f \in Files : Filedup(f) \/ Fileclose(f) \/ Fcntl(f)
    \/ \E f \in Files, i \in Inums : Open(f, i) \/ Create(f, i)
    \/ \E i \in Inums : Unlink(i)
    \/ \E f \in Files, n \in Counts : Fileread(f, n) \/ \E p \in Callers : WriteStart(p, f, n)

FileNext ==
    \/ /\ MkRoot \/ MkDone \/ \E i \in Inums, n \in ImageSizes : MkFile(i, n)
       /\ UNCHANGED fcalls
    \/ Call /\ fcalls < MaxFileCalls /\ fcalls' = fcalls + 1
    \/ (\E p \in Callers : WriteChunk(p)) /\ UNCHANGED fcalls
    \/ Panicked

FileSpec == FileInit /\ [][FileNext]_fvars

------------------------------------------------------------------------------
(* Properties                                                                *)

\* The inode as the kernel sees it, or will see it.
View(i) == Ilock(i)

RECURSIVE Tree(_, _, _)
Tree(b, depth, at) ==
    IF b = 0 \/ b > NBLOCKS THEN {}
    ELSE {<<at, b>>} \cup (IF depth = 0 THEN {}
                           ELSE UNION {Tree(blk[b][w], depth - 1, Append(at, w)) : w \in Words})

\* Every place that holds a block's address: the inodes' slots, with atime and
\* mtime among them, the slots of mkfs's that the kernel never reads, and the
\* index blocks they lead to.
Places ==
    UNION {UNION {Tree(View(i).slot[k], Depth(k), <<i, k>>) : k \in Slots} : i \in Inums}
    \cup UNION {UNION {Tree(dino[i].addrs[k], Depth(k), <<i, -k>>) :
                       k \in {NDIRECT + 1, NDIRECT + 2}} : i \in Inums}

\* Every inode but a root that ends in a hole.
Kept == IF hole THEN Inums \ {ROOT} ELSE Inums

\* No block belongs to two files, to two places of one, or to a file while it is
\* marked free in the bitmap, whatever mkfs left and however calls of balloc(),
\* itrunc() and reboots follow; so "freeing free block" is not reached.
OwnedOnce ==
    phase = "up" /\ panic \in {"none", "freeing free block"} =>
        /\ panic = "none"
        /\ LET owned == {x[2] : x \in Places}
           IN  owned \subseteq used /\ Cardinality(owned) = Cardinality(Places)

\* No allocated block is lost while every file fits in the direct and
\* single-indirect blocks: what bmap() allocates reaches the inode on disk and what
\* itrunc() drops reaches the bitmap.  In a root that ends in a hole it is lost.
NothingLost ==
    Running /\ limit <= (NDIRECT + BSIZE) * BSIZE /\ ~hole
        => used \subseteq {x[2] : x \in Places}

\* What read() returns is what was last written at that offset, for every file
\* and offset in the direct and single-indirect blocks, after any writes, chunked
\* and appended, of the processes, other files' deaths, and reboots.
ReadBack ==
    Running => \A i \in Kept :
        LET m == View(i)
        IN  m.type # "none" =>
              /\ m.size = Len(said[i])
              /\ \A w \in 0..(Min({m.size, (NDIRECT + BSIZE) * BSIZE}) - 1) :
                    LET t == Bmap(Work(m.slot), w \div BSIZE)
                    IN  t.used = used /\ blk[t.addr][w % BSIZE] = said[i][w + 1]

\* iupdate(): "the i-node cache is write-through".  It is for type, links, size and
\* the direct and indirect addresses of every inode but the root's, whose
\* entries written to mkfs's missing block are not; atime and mtime are not.
WriteThrough ==
    Running => \A i \in Kept :
        mem[i].valid => /\ mem[i].type = dino[i].type /\ mem[i].nlink = dino[i].nlink
                        /\ mem[i].size = dino[i].size
                        /\ \A k \in 0..NDIRECT : mem[i].slot[k] = dino[i].addrs[k]

\* bmap(): "Return the disk block address of the nth block in inode ip": what it
\* follows to that block, and what it returns, are numbers of blocks of the disk.
BmapFindsBlock == panic # "bmap: incorrect blockno"
==============================================================================
