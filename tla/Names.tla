-------------------------------- MODULE Names --------------------------------
(***************************************************************************)
(* Path names: the directories, the inode cache and the inode locks of       *)
(* kernel/fs.c under the system calls of kernel/sysfile.c.  A step runs from  *)
(* one wait for an inode's lock to the next; iput() is two steps, since it    *)
(* drops the lock before the reference.  What a system call changes becomes   *)
(* durable when no call is inside a transaction (kernel/log.c); a crash goes  *)
(* back to that point.                                                       *)
(*                                                                          *)
(* Freeing an inode whose atime or mtime is set reads those as block          *)
(* addresses (module FileBlocks) and panics.  Every directory the kernel has  *)
(* read or written is such an inode, and so is a file or device that was.     *)
(* A symbolic link's text stands in the place of its addresses: the code      *)
(* takes it for block numbers, and the tree may be torn by that.             *)
(***************************************************************************)
EXTENDS Integers, Sequences, FiniteSets

CONSTANTS Procs, Inums, Names,
          Ops,           \* calls: a name, a path (a sequence of names, with a
                         \* leading "/" if absolute), and for some a second
          Image,         \* what mkfs built: a pair of inodes and directories
          ShortTargets,  \* targets that, read as block numbers, have their bits in
                         \* the bitmap: in plain ASCII those of fewer than 4 bytes
          DEPTH,         \* links namei() follows
          MaxCalls,      \* bound on the calls of a behaviour
          Nobody           \* no process

ROOTINO == 1
AllNames == Names \cup {".", ".."}
NoDir == [n \in AllNames |-> 0]
Paths == {s \in Seq(AllNames \cup {"/"}) : \A k \in DOMAIN s : s[k] = "/" => k = 1}

Types == {"none", "file", "dir", "dev", "symlink"}
Inode == [type : Types, nlink : Int, stamped : BOOLEAN, target : Paths]
Trees == [Inums -> Inode] \X [Inums -> [AllNames -> Inums \cup {0}]]

\* The directory entries, "." and ".." left out, that name inode i.
Entries(d, e, i) == {a \in Inums \X Names : d[a[1]].type = "dir" /\ e[a[1]][a[2]] = i}

\* A file system: every entry of every directory names an allocated inode, and a file's
\* or device's link count is the number of entries that name it.
FileSystem(d, e) ==
    /\ \A x \in Inums, n \in AllNames :
          d[x].type = "dir" /\ e[x][n] # 0 => d[e[x][n]].type # "none"
    /\ \A i \in Inums : d[i].type \in {"file", "dev"} => d[i].nlink = Cardinality(Entries(d, e, i))

\* The root is a directory, and every directory has "." and ".." in it.
Rooted(d, e) ==
    /\ d[ROOTINO].type = "dir"
    /\ \A x \in Inums : d[x].type = "dir" =>
          \A n \in {".", ".."} : e[x][n] # 0 /\ d[e[x][n]].type = "dir"

ASSUME NamesAssumption ==
    /\ IsFiniteSet(Procs) /\ IsFiniteSet(Inums) /\ IsFiniteSet(Names)
    /\ Nobody \notin Procs /\ ROOTINO \in Inums /\ Inums \subseteq Nat \ {0}
    /\ Ops \subseteq {"open", "creat", "mkdir", "mknod", "chdir", "unlink", "link", "symlink"}
                      \X Paths \X Paths
    /\ Image \in Trees /\ FileSystem(Image[1], Image[2]) /\ Rooted(Image[1], Image[2])
    /\ ShortTargets \subseteq Paths /\ DEPTH \in Nat

VARIABLES dino, dir,     \* on disk, with the log: inodes; directory contents
          committed,     \* what a crash goes back to
          mem,           \* the inode cache
          lock,          \* ip->lock
          pr, cwd, fd,   \* a process's call, directory and open file
          leak,          \* references that nobody will put
          stale,         \* texts of links left in cache slots without references
          torn,          \* a link's text was used as block numbers: "no", since the
                         \* last commit ("now"), or before it ("kept")
          calls,
          stopped        \* the panic() that stopped the kernel, or "none"

tree == <<dino, dir>>
nvars == <<tree, committed, mem, lock, pr, cwd, fd, leak, stale, torn, calls, stopped>>

Free == [type |-> "none", nlink |-> 0, stamped |-> FALSE, target |-> <<>>]
NotCached == [ref |-> 0, valid |-> FALSE]
Idle == [call |-> "none", st |-> "idle", path |-> <<>>, path2 |-> <<>>, par |-> FALSE, nm |-> ".",
         x |-> 0, y |-> 0, sym |-> 0, puts |-> <<>>, then |-> "end", cont |-> "end", depth |-> 0,
         child |-> 0]

\* init and the processes have the root as current directory.
BootMem == [i \in Inums |-> [NotCached EXCEPT !.ref = IF i = ROOTINO THEN 1 + Cardinality(Procs) ELSE 0]]
Unlocked == [i \in Inums |-> Nobody]
AllIdle == [p \in Procs |-> Idle]
NoLeak == [i \in Inums |-> 0]

NamesInit == /\ dino = Image[1] /\ dir = Image[2] /\ committed = Image
             /\ mem = BootMem /\ lock = Unlocked /\ pr = AllIdle
             /\ fd = [p \in Procs |-> 0] /\ cwd = [p \in Procs |-> ROOTINO]
             /\ leak = NoLeak /\ stale = {} /\ torn = "no" /\ stopped = "none" /\ calls = 0

------------------------------------------------------------------------------
(* The inode cache.  It is write-through (FileBlocks), so the fields of a     *)
(* valid inode are those on disk.                                            *)

\* iget() and idup(): without references the inode will be read from disk again.
Iget(m, i) == [m EXCEPT ![i] = [ref |-> @.ref + 1, valid |-> @.ref > 0 /\ @.valid]]

\* ilock() reads the inode if it is not valid.
Load(m, i) == [m EXCEPT ![i].valid = TRUE]
NoType(i) == ~mem[i].valid /\ dino[i].type = "none"

At(p, l) == stopped = "none" /\ pr[p].st = l
Go(p, r) == pr' = [pr EXCEPT ![p] = r]
Stop(why) == stopped' = why /\ UNCHANGED <<tree, mem, lock, pr, cwd, fd, leak>>

\* The call of record r goes on to put the inodes in s, then to label l.
Puts(r, s, l) == [r EXCEPT !.puts = s, !.then = l, !.st = "put"]

\* iput(), with the lock: the last reference to an inode without links frees it.
LastPut_Any(i) == mem[i].valid /\ dino[i].nlink = 0
LastPut(i) == mem[i].valid /\ dino[i].nlink = 0 /\ mem[i].ref = 1

PutCheck(p) ==
    LET i == Head(pr[p].puts)
    IN  /\ At(p, "put") /\ lock[i] = Nobody
        /\ ~(LastPut(i) /\ dino[i].type = "symlink")
        /\ IF LastPut(i) /\ (dino[i].type = "dir" \/ dino[i].stamped)
           THEN Stop("incorrect blockno")
           ELSE /\ IF LastPut(i) THEN /\ dino' = [dino EXCEPT ![i] = Free]
                                      /\ mem' = [mem EXCEPT ![i].valid = FALSE]
                                 ELSE UNCHANGED <<dino, mem>>
                /\ Go(p, [pr[p] EXCEPT !.st = "drop"])
                /\ UNCHANGED <<dir, lock, cwd, fd, leak, stopped>>

\* The same for a symbolic link, whose nlink is one less than its entries: itrunc()
\* frees the blocks that its text numbers.  Past the bitmap that is a panic, and so is a
\* block that is free; otherwise a block of others is free now, and the inode too,
\* while an entry still names it.  An empty text numbers no block.
PutLink(p) ==
    LET i == Head(pr[p].puts)  t == dino[i].target
    IN  /\ At(p, "put") /\ lock[i] = Nobody
        /\ LastPut(i) /\ dino[i].type = "symlink"
        /\ \/ /\ t \notin ShortTargets \/ dino[i].stamped
              /\ Stop("incorrect blockno") /\ UNCHANGED torn
           \/ /\ t \in ShortTargets \ {<<>>}
              /\ Stop("freeing free block") /\ UNCHANGED torn
           \/ /\ t \in ShortTargets /\ ~dino[i].stamped
              /\ dino' = [dino EXCEPT ![i] = Free]
              /\ mem' = [mem EXCEPT ![i].valid = FALSE]
              /\ torn' = IF torn = "kept" THEN torn ELSE "now"
              /\ Go(p, [pr[p] EXCEPT !.st = "drop"])
              /\ UNCHANGED <<dir, lock, cwd, fd, leak, stopped>>

\* ... and without the lock.  The cache slot keeps what it holds.
LeavesLink(i) == mem[i] = [ref |-> 1, valid |-> TRUE] /\ dino[i].type = "symlink"
PutDrop(p) ==
    LET r == pr[p]
    IN  /\ At(p, "drop")
        /\ mem' = [mem EXCEPT ![Head(r.puts)].ref = @ - 1]
        /\ stale' = IF LeavesLink(Head(r.puts)) THEN stale \cup {dino[Head(r.puts)].target} ELSE stale
        /\ Go(p, [r EXCEPT !.puts = Tail(@), !.st = IF Len(r.puts) > 1 THEN "put" ELSE r.then])
        /\ UNCHANGED <<tree, lock, cwd, fd, leak, stopped>>

------------------------------------------------------------------------------
(* namex(), and namei() on top of it                                         *)

Base(p, path) == IF path # <<>> /\ path[1] = "/" THEN ROOTINO ELSE cwd[p]
Elems(path) == IF path # <<>> /\ path[1] = "/" THEN Tail(path) ELSE path

\* namex(path) starts at inode i, with a reference; the result goes to label l.
Walk(r, i, path, par, l) ==
    [r EXCEPT !.x = i, !.path = Elems(path), !.par = par, !.cont = l, !.st = "walk"]

\* A lookup that fails puts the inode it has come to.
Abandon_Leak(r) == [r EXCEPT !.x = 0, !.st = r.cont]
Abandon(r) == Puts([r EXCEPT !.x = 0], <<r.x>>, r.cont)

\* One element: ilock(), dirlookup(), iunlock() here, iput() next.
WalkStep(p) ==
    LET r == pr[p]  x == r.x
    IN  /\ At(p, "walk") /\ r.path # <<>> /\ lock[x] = Nobody
        /\ IF NoType(x) THEN Stop("ilock: no type")
           ELSE LET next == dir[x][Head(r.path)]
                    last == r.par /\ Len(r.path) = 1
                    found == dino[x].type = "dir" /\ ~last /\ next # 0
                IN  /\ mem' = IF found THEN Iget(Load(mem, x), next) ELSE Load(mem, x)
                    /\ Go(p, CASE dino[x].type # "dir" -> Abandon(r)
                               [] dino[x].type = "dir" /\ last ->
                                    [r EXCEPT !.nm = Head(r.path), !.path = <<>>, !.st = r.cont]
                               [] dino[x].type = "dir" /\ ~last /\ next = 0 -> Abandon(r)
                               [] found -> Puts([r EXCEPT !.x = next, !.path = Tail(@)], <<x>>, "walk"))
                    /\ UNCHANGED <<tree, lock, cwd, fd, leak, stopped>>

\* The path has no more elements.
WalkEnd(p) ==
    LET r == pr[p]
    IN  /\ At(p, "walk") /\ r.path = <<>>
        /\ Go(p, IF r.par THEN Abandon(r) ELSE [r EXCEPT !.st = r.cont])
        /\ UNCHANGED <<tree, mem, lock, cwd, fd, leak, stopped>>

\* namei() looks at ip->type without the lock.  An inode just got from iget() is
\* not valid and shows what its cache slot last held: maybe a link that is not there.
\* After a failed lookup it reads the type through a null pointer, in the program text
\* of the process, which is taken not to be T_SYMLINK there.
IsLink(i) == mem[i].valid /\ dino[i].type = "symlink"
Texts(i) == IF mem[i].valid THEN {u \in {dino[i].target} : IsLink(i)} ELSE stale

Named(p) ==
    LET r == pr[p]
    IN  /\ At(p, "named")
        /\ \/ /\ r.x # 0
              /\ \E t \in Texts(r.x) :
                    /\ mem' = Iget(mem, Base(p, t))
                    /\ Go(p, [Walk(r, Base(p, t), t, FALSE, "follow") EXCEPT !.sym = r.x])
           \/ /\ ~(r.x # 0 /\ IsLink(r.x))
              /\ Go(p, [r EXCEPT !.st = r.call]) /\ UNCHANGED mem
        /\ UNCHANGED <<tree, lock, cwd, fd, leak, stopped>>

\* After nameifollow(); giving up after DEPTH links forgets the inode.
Follow(p) ==
    LET r == pr[p]  deep == r.x # 0 /\ r.depth >= DEPTH
    IN  /\ At(p, "follow")
        /\ leak' = IF deep THEN [leak EXCEPT ![r.x] = @ + 1] ELSE leak
        /\ Go(p, Puts([r EXCEPT !.sym = 0, !.depth = @ + 1, !.x = IF deep THEN 0 ELSE @],
                      <<r.sym>>, IF r.x = 0 \/ deep THEN r.call ELSE "named"))
        /\ UNCHANGED <<tree, mem, lock, cwd, fd, stopped>>

------------------------------------------------------------------------------
(* The calls.  Each action is at the label of its call after the path lookup;  *)
(* x = 0 is a failed lookup.                                                   *)

Parents == {"creat", "mkdir", "mknod", "unlink", "symlink"}

\* begin_op() and the start of the lookup.
Begin(p, c, a, b) ==
    LET r == [Idle EXCEPT !.call = c, !.path2 = b]
    IN  /\ At(p, "idle")
        /\ mem' = Iget(mem, Base(p, a))
        /\ Go(p, Walk(r, Base(p, a), a, c \in Parents, IF c \in Parents THEN c ELSE "named"))
        /\ UNCHANGED <<tree, lock, cwd, fd, leak, stopped>>

Failed(p) ==
    /\ pr[p].st \in {"open", "link", "chdir"} \cup Parents /\ At(p, pr[p].st)
    /\ pr[p].x = 0 /\ pr[p].y = 0
    /\ Go(p, [pr[p] EXCEPT !.st = "end"])
    /\ UNCHANGED <<tree, mem, lock, cwd, fd, leak, stopped>>

\* ilock(x) by process p, at label l.
Locks(p, l, x) == At(p, l) /\ x # 0 /\ lock[x] = Nobody

\* filealloc() and fdalloc() for inode i, then iunlock(); without a free
\* descriptor the inode is put.
Opens(p, r, i, m, lk) ==
    /\ mem' = m
    /\ lock' = [lk EXCEPT ![i] = Nobody]
    /\ IF fd[p] = 0 THEN fd' = [fd EXCEPT ![p] = i] /\ Go(p, [r EXCEPT !.st = "end"])
                    ELSE Go(p, Puts(r, <<i>>, "end")) /\ UNCHANGED fd

\* sys_open() without O_CREATE; a directory opens with O_RDONLY, and is refused
\* with another mode.
Open(p) ==
    LET r == pr[p]  x == r.x
    IN  /\ Locks(p, "open", x)
        /\ IF NoType(x) THEN Stop("ilock: no type")
           ELSE /\ \/ /\ dino[x].type = "dir"
                      /\ Go(p, Puts([r EXCEPT !.x = 0], <<x>>, "end")) /\ mem' = Load(mem, x)
                      /\ UNCHANGED <<lock, fd>>
                   \/ Opens(p, [r EXCEPT !.x = 0], x, Load(mem, x), lock)
                /\ UNCHANGED <<tree, cwd, leak, stopped>>

\* ialloc()
FreeInums == {i \in Inums : dino[i].type = "none"}
Fresh == CHOOSE i \in FreeInums : \A j \in FreeInums : i <= j

New(t, target) == [Free EXCEPT !.type = t, !.nlink = IF t = "symlink" THEN 0 ELSE 1, !.target = target]
DotDot(i, x) == [NoDir EXCEPT !["."] = i, ![".."] = x]
NewType(c) == CASE c = "creat" -> "file" [] c = "mkdir" -> "dir" [] c = "mknod" -> "dev"

\* create() with the parent x locked.  An existing inode is locked once the
\* parent has been put.
CreateFound(p) ==
    LET r == pr[p]  x == r.x  i == dir[x][r.nm]
    IN  /\ r.st \in {"creat", "mkdir", "mknod"} /\ Locks(p, r.st, x) /\ i # 0
        /\ mem' = Iget(Load(mem, x), i)
        /\ Go(p, Puts([r EXCEPT !.x = 0, !.y = i], <<x>>, "found"))
        /\ UNCHANGED <<tree, lock, cwd, fd, leak, stopped>>

\* A new one is locked, filled and entered in the parent, and stays locked while
\* the parent is put.
CreateNew(p) ==
    LET r == pr[p]  x == r.x  i == Fresh  t == NewType(r.call)
    IN  /\ r.st \in {"creat", "mkdir", "mknod"} /\ Locks(p, r.st, x) /\ dir[x][r.nm] = 0
        /\ IF FreeInums = {} THEN Stop("ialloc: no inodes")
           ELSE /\ lock[i] = Nobody
                /\ mem' = Load(Iget(Load(mem, x), i), i)
                /\ lock' = [lock EXCEPT ![i] = p]
                /\ dino' = [dino EXCEPT ![i] = New(t, <<>>), ![x].nlink = @ + (IF t = "dir" THEN 1 ELSE 0)]
                /\ dir' = [dir EXCEPT ![x][r.nm] = i, ![i] = IF t = "dir" THEN DotDot(i, x) ELSE NoDir]
                /\ Go(p, Puts([r EXCEPT !.x = 0, !.y = i], <<x>>, "made"))
                /\ UNCHANGED <<cwd, fd, leak, stopped>>

Found(p) ==
    LET r == pr[p]  y == r.y
    IN  /\ Locks(p, "found", y)
        /\ IF NoType(y) THEN Stop("ilock: no type")
           ELSE /\ IF r.call = "creat" /\ dino[y].type = "file"
                   THEN Opens(p, [r EXCEPT !.y = 0], y, Load(mem, y), lock)
                   ELSE Go(p, Puts([r EXCEPT !.y = 0], <<y>>, "end")) /\ mem' = Load(mem, y)
                        /\ UNCHANGED <<lock, fd>>
                /\ UNCHANGED <<tree, cwd, leak, stopped>>

Made(p) ==
    LET r == pr[p]  y == r.y
    IN  /\ At(p, "made")
        /\ IF r.call = "creat" THEN Opens(p, [r EXCEPT !.y = 0], y, mem, lock)
           ELSE /\ lock' = [lock EXCEPT ![y] = Nobody]
                /\ Go(p, Puts([r EXCEPT !.y = 0], <<y>>, "end"))
                /\ UNCHANGED <<mem, fd>>
        /\ UNCHANGED <<tree, cwd, leak, stopped>>

\* sys_unlink(): with the parent locked, then with the inode locked too.
Unlink(p) ==
    LET r == pr[p]  x == r.x  i == dir[x][r.nm]
    IN  /\ Locks(p, "unlink", x)
        /\ IF r.nm \in {".", ".."} \/ i = 0
           THEN Go(p, Puts([r EXCEPT !.x = 0], <<x>>, "end")) /\ mem' = Load(mem, x) /\ UNCHANGED lock
           ELSE /\ mem' = Iget(Load(mem, x), i)
                /\ lock' = [lock EXCEPT ![x] = p]
                /\ Go(p, [r EXCEPT !.y = i, !.st = "unlink2"])
        /\ UNCHANGED <<tree, cwd, fd, leak, stopped>>

NotEmpty(i) == dino[i].type = "dir" /\ \E n \in Names : dir[i][n] # 0

Unlink2(p) ==
    LET r == pr[p]  x == r.x  y == r.y
    IN  /\ Locks(p, "unlink2", y)
        /\ IF NoType(y) THEN Stop("ilock: no type")
           ELSE IF dino[y].nlink < 1 THEN Stop("unlink: nlink < 1")
           ELSE /\ mem' = Load(mem, y)
                /\ IF NotEmpty(y)
                   THEN /\ Go(p, Puts([r EXCEPT !.y = 0], <<y>>, "unlinkbad"))
                        /\ UNCHANGED <<tree, lock>>
                   ELSE /\ dir' = [dir EXCEPT ![x][r.nm] = 0]
                        /\ dino' = [dino EXCEPT ![x].nlink = @ - (IF dino[y].type = "dir" THEN 1 ELSE 0)]
                        /\ lock' = [lock EXCEPT ![x] = Nobody, ![y] = p]
                        /\ Go(p, Puts([r EXCEPT !.x = 0], <<x>>, "unlink3"))
                /\ UNCHANGED <<cwd, fd, leak, stopped>>

UnlinkBad(p) ==
    LET r == pr[p]
    IN  /\ At(p, "unlinkbad")
        /\ lock' = [lock EXCEPT ![r.x] = Nobody]
        /\ Go(p, Puts([r EXCEPT !.x = 0], <<r.x>>, "end"))
        /\ UNCHANGED <<tree, mem, cwd, fd, leak, stopped>>

Unlink3(p) ==
    LET r == pr[p]  y == r.y
    IN  /\ At(p, "unlink3")
        /\ dino' = [dino EXCEPT ![y].nlink = @ - 1]
        /\ lock' = [lock EXCEPT ![y] = Nobody]
        /\ Go(p, Puts([r EXCEPT !.y = 0], <<y>>, "end"))
        /\ UNCHANGED <<dir, mem, cwd, fd, leak, stopped>>

Linked_Not(i) == dino[i].nlink
Linked(i) == dino[i].nlink + 1

\* sys_link(): one more link, then the parent of the new name.
Link(p) ==
    LET r == pr[p]  x == r.x  b == Base(p, r.path2)
    IN  /\ Locks(p, "link", x)
        /\ IF NoType(x) THEN Stop("ilock: no type")
           ELSE /\ IF dino[x].type = "dir"
                   THEN /\ mem' = Load(mem, x) /\ UNCHANGED dino
                        /\ Go(p, Puts([r EXCEPT !.x = 0], <<x>>, "end"))
                   ELSE /\ mem' = Iget(Load(mem, x), b)
                        /\ dino' = [dino EXCEPT ![x].nlink = Linked(x)]
                        /\ Go(p, Walk([r EXCEPT !.y = x], b, r.path2, TRUE, "link2"))
                /\ UNCHANGED <<dir, lock, cwd, fd, leak, stopped>>

\* dirlink() puts the inode that already has the name, with the parent locked.
Link2(p) ==
    LET r == pr[p]  x == r.x  i == dir[x][r.nm]
    IN  /\ Locks(p, "link2", x)
        /\ IF i # 0
           THEN /\ mem' = Iget(Load(mem, x), i)
                /\ lock' = [lock EXCEPT ![x] = p]
                /\ Go(p, Puts(r, <<i>>, "linkfail")) /\ UNCHANGED dir
           ELSE /\ mem' = Load(mem, x)
                /\ dir' = [dir EXCEPT ![x][r.nm] = r.y]
                /\ Go(p, Puts([r EXCEPT !.x = 0, !.y = 0], <<x, r.y>>, "end")) /\ UNCHANGED lock
        /\ UNCHANGED <<dino, cwd, fd, leak, stopped>>

LinkFail(p) ==
    LET r == pr[p]
    IN  /\ At(p, "linkfail")
        /\ lock' = [lock EXCEPT ![r.x] = Nobody]
        /\ Go(p, Puts([r EXCEPT !.x = 0], <<r.x>>, "link2"))
        /\ UNCHANGED <<tree, mem, cwd, fd, leak, stopped>>

\* bad: take the link back.
Unlinked_Not(i) == dino[i].nlink
Unlinked(i) == dino[i].nlink - 1

LinkBad(p) ==
    LET r == pr[p]  y == r.y
    IN  /\ At(p, "link2") /\ r.x = 0 /\ lock[y] = Nobody
        /\ dino' = [dino EXCEPT ![y].nlink = Unlinked(y)]
        /\ mem' = Load(mem, y)
        /\ Go(p, Puts([r EXCEPT !.y = 0], <<y>>, "end"))
        /\ UNCHANGED <<dir, lock, cwd, fd, leak, stopped>>

\* sys_symlink(): the parent is kept in y while namei() looks for the target.
Symlink(p) ==
    LET r == pr[p]  b == Base(p, r.path2)
    IN  /\ At(p, "symlink") /\ r.x # 0 /\ r.y = 0
        /\ mem' = Iget(mem, b)
        /\ Go(p, Walk([r EXCEPT !.y = r.x], b, r.path2, FALSE, "named"))
        /\ UNCHANGED <<tree, lock, cwd, fd, leak, stopped>>

\* A target that is not there: return without putting the parent.
SymlinkNone(p) ==
    LET r == pr[p]
    IN  /\ At(p, "symlink") /\ r.x = 0 /\ r.y # 0
        /\ leak' = [leak EXCEPT ![r.y] = @ + 1]
        /\ Go(p, [r EXCEPT !.y = 0, !.st = "end"])
        /\ UNCHANGED <<tree, mem, lock, cwd, fd, stopped>>

SymlinkTarget(p) ==
    LET r == pr[p]
    IN  /\ At(p, "symlink") /\ r.x # 0 /\ r.y # 0
        /\ Go(p, Puts([r EXCEPT !.x = 0], <<r.x>>, "symlink2"))
        /\ UNCHANGED <<tree, mem, lock, cwd, fd, leak, stopped>>

\* With the parent locked: a name that exists, or the new link, keeps the
\* reference that dirlookup() or ialloc() took; nlink stays 0.
Symlink2(p) ==
    LET r == pr[p]  y == r.y  old == dir[y][r.nm]  i == IF old # 0 THEN old ELSE Fresh
    IN  /\ Locks(p, "symlink2", y)
        /\ IF old = 0 /\ FreeInums = {} THEN Stop("ialloc: no inodes")
           ELSE /\ IF old # 0 THEN mem' = Iget(Load(mem, y), i) /\ UNCHANGED tree
                   ELSE /\ mem' = Load(Iget(Load(mem, y), i), i)
                        /\ dino' = [dino EXCEPT ![i] = New("symlink", r.path2)]
                        /\ dir' = [dir EXCEPT ![y][r.nm] = i]
                /\ leak' = [leak EXCEPT ![i] = @ + 1]
                /\ Go(p, Puts([r EXCEPT !.y = 0], <<y>>, "end"))
                /\ UNCHANGED <<lock, cwd, fd, stopped>>

Chdir(p) ==
    LET r == pr[p]  x == r.x
    IN  /\ Locks(p, "chdir", x)
        /\ IF NoType(x) THEN Stop("ilock: no type")
           ELSE /\ mem' = Load(mem, x)
                /\ IF dino[x].type = "dir"
                   THEN /\ cwd' = [cwd EXCEPT ![p] = x]
                        /\ Go(p, Puts([r EXCEPT !.x = 0], <<cwd[p]>>, "end"))
                   ELSE Go(p, Puts([r EXCEPT !.x = 0], <<x>>, "end")) /\ UNCHANGED cwd
                /\ UNCHANGED <<tree, lock, fd, leak, stopped>>

\* fileclose() of the last reference to a file.
Close(p) ==
    /\ At(p, "idle") /\ fd[p] # 0
    /\ fd' = [fd EXCEPT ![p] = 0]
    /\ Go(p, Puts([Idle EXCEPT !.call = "close"], <<fd[p]>>, "end"))
    /\ UNCHANGED <<tree, mem, lock, cwd, leak, stopped>>

\* fileread() and filewrite(): readi() sets atime, writei() mtime (FileBlocks).  Those of
\* a directory were set when it was looked up.
WriteFile(p) ==
    /\ At(p, "idle") /\ fd[p] # 0 /\ lock[fd[p]] = Nobody /\ dino[fd[p]].type # "dir"
    /\ dino' = [dino EXCEPT ![fd[p]].stamped = TRUE]
    /\ UNCHANGED <<dir, mem, lock, pr, cwd, fd, leak, stopped>>

\* On a symbolic link bmap() also takes the text for block numbers: a read or write
\* past the disk, or a write in a block of others.  A write to an empty one changes its text.
LinkIO(p) ==
    LET t == dino[fd[p]].target
    IN  /\ At(p, "idle") /\ fd[p] # 0 /\ lock[fd[p]] = Nobody /\ dino[fd[p]].type = "symlink"
        /\ \/ t # <<>> /\ Stop("incorrect blockno") /\ UNCHANGED torn
           \/ /\ t \in ShortTargets /\ torn' = "kept"
              /\ UNCHANGED <<tree, mem, lock, pr, cwd, fd, leak, stopped>>

\* sys_getcwd(), outside any transaction: up through "..", looking in each parent
\* for the name of the child.
Getcwd(p) ==
    /\ At(p, "idle")
    /\ mem' = Iget(mem, cwd[p])
    /\ Go(p, [Idle EXCEPT !.call = "getcwd", !.x = cwd[p], !.st = "up"])
    /\ UNCHANGED <<tree, lock, cwd, fd, leak, stopped>>

GetcwdUp(p) ==
    LET r == pr[p]  x == r.x  up == dir[x][".."]
    IN  /\ At(p, "up")
        /\ IF x = ROOTINO THEN Go(p, Puts([r EXCEPT !.x = 0], <<x>>, "end")) /\ UNCHANGED mem
           ELSE /\ lock[x] = Nobody
                /\ IF up = 0 THEN Go(p, Puts([r EXCEPT !.x = 0], <<x>>, "end")) /\ mem' = Load(mem, x)
                   ELSE /\ mem' = Iget(Load(mem, x), up)
                        /\ Go(p, Puts([r EXCEPT !.x = up, !.child = x], <<x>>, "name"))
        /\ UNCHANGED <<tree, lock, cwd, fd, leak, stopped>>

GetcwdName(p) ==
    LET r == pr[p]  x == r.x
    IN  /\ Locks(p, "name", x)
        /\ IF NoType(x) THEN Stop("ilock: no type")
           ELSE /\ mem' = Load(mem, x)
                /\ Go(p, IF \E n \in AllNames : dir[x][n] = r.child THEN [r EXCEPT !.st = "up"]
                         ELSE Puts([r EXCEPT !.x = 0], <<x>>, "end"))
                /\ UNCHANGED <<tree, lock, cwd, fd, leak, stopped>>

------------------------------------------------------------------------------
InOp(q) == pr[q].st # "idle" /\ pr[q].call # "getcwd"

\* end_op(): the last call to leave commits.
Commits(p) == \A q \in Procs \ {p} : ~InOp(q)
Durable(p) == Commits(p) /\ pr[p].call # "getcwd"
End(p) ==
    /\ At(p, "end")
    /\ Go(p, Idle)
    /\ committed' = IF Durable(p) THEN <<dino, dir>> ELSE committed
    /\ torn' = IF Durable(p) /\ torn # "no" THEN "kept" ELSE torn
    /\ UNCHANGED <<tree, mem, lock, cwd, fd, leak, stopped>>

Start(p) ==
    \/ \E o \in Ops : Begin(p, o[1], o[2], o[3])
    \/ Close(p) \/ WriteFile(p) \/ Getcwd(p)

CallStep(p) ==
    \/ PutCheck(p) \/ WalkStep(p) \/ WalkEnd(p) \/ Named(p) \/ Follow(p)
    \/ Failed(p) \/ Open(p) \/ CreateFound(p) \/ CreateNew(p) \/ Found(p) \/ Made(p)
    \/ Unlink(p) \/ Unlink2(p) \/ UnlinkBad(p) \/ Unlink3(p)
    \/ Link(p) \/ Link2(p) \/ LinkFail(p) \/ LinkBad(p)
    \/ Symlink(p) \/ SymlinkNone(p) \/ SymlinkTarget(p) \/ Symlink2(p)
    \/ Chdir(p) \/ GetcwdUp(p) \/ GetcwdName(p)

\* Power loss, or the reset after a panic; recovery replays the log.
Crash == /\ dino' = committed[1] /\ dir' = committed[2]
         /\ mem' = BootMem /\ lock' = Unlocked /\ pr' = AllIdle
         /\ fd' = [p \in Procs |-> 0] /\ cwd' = [p \in Procs |-> ROOTINO]
         /\ leak' = NoLeak /\ stale' = {} /\ stopped' = "none"
         /\ torn' = IF torn = "kept" THEN torn ELSE "no"
         /\ UNCHANGED <<committed, calls>>

NamesNext ==
    \/ \E p \in Procs :
          \/ CallStep(p) /\ UNCHANGED <<committed, stale, torn, calls>>
          \/ PutDrop(p) /\ UNCHANGED <<committed, torn, calls>>
          \/ PutLink(p) /\ UNCHANGED <<committed, stale, calls>>
          \/ End(p) /\ UNCHANGED <<stale, calls>>
          \/ /\ calls < MaxCalls /\ calls' = calls + 1 /\ UNCHANGED <<committed, stale>>
             /\ \/ Start(p) /\ UNCHANGED torn
                \/ LinkIO(p)
    \/ Crash

NamesSpec == NamesInit /\ [][NamesNext]_nvars

------------------------------------------------------------------------------
(* Properties                                                                *)

\* The in-memory pointers of process p, and those of all to inode i.
Tags == {"cwd", "fd", "x", "y", "sym", "put1", "put2"}
Put(r, k) == IF Len(r.puts) >= k THEN r.puts[k] ELSE 0
Pointer(p, t) ==
    LET r == pr[p]
    IN  CASE t = "cwd" -> cwd[p] [] t = "fd" -> fd[p]
          [] t = "x" -> r.x [] t = "y" -> r.y [] t = "sym" -> r.sym
          [] t = "put1" -> Put(r, 1) [] t = "put2" -> Put(r, 2)
Holders(i) == {a \in Procs \X Tags : Pointer(a[1], a[2]) = i}

\* fs.c: "ip->ref tracks the number of in-memory pointers to the entry".  Every
\* path through the calls and their error exits puts what it got, save the
\* references that sys_symlink() and a too deep namei() forget.
RefsCounted ==
    stopped = "none" =>
      \A i \in Inums : mem[i].ref = Cardinality(Holders(i)) + leak[i] + (IF i = ROOTINO THEN 1 ELSE 0)

\* What a crash leaves is a file system: every entry of every directory names an
\* allocated inode, and a file's or device's link count is the number of entries
\* that name it, whatever calls ran together and whichever failed half way.  Only a
\* symbolic link whose text itrunc() or bmap() took for block numbers, in a transaction
\* that committed, ends that.
CommittedTree == torn # "kept" => FileSystem(committed[1], committed[2])

\* iput() frees an inode when "the reference and link counts have fallen to zero":
\* none that a process has open, stands in or is working on, until a link's text
\* is taken for block numbers.
InUseStays ==
    stopped = "none" /\ torn = "no" =>
      \A p \in Procs, i \in Inums :
          (cwd[p] = i \/ fd[p] = i \/ lock[i] = p \/ pr[p].x = i) => dino[i].type # "none"

\* The panics of ilock(), dirlookup() and sys_unlink() are out of reach, with three
\* exceptions: after a link's text was taken for block numbers, unlinking a symbolic
\* link, which has no links, and unlinking a directory of mkfs's, whose count
\* lacks its subdirectories' "..".
PanicsKnown ==
    torn = "no" =>
      /\ stopped # "ilock: no type"
      /\ stopped = "unlink: nlink < 1" =>
           \E p \in Procs : pr[p].st = "unlink2" /\ dino[pr[p].y].type \in {"symlink", "dir"}

\* fs.c: separating ilock() from iget() "helps avoid deadlock": no two processes
\* wait for each other's inode locks.
Wants(p) == CASE pr[p].st = "put" -> Head(pr[p].puts)
              [] pr[p].st = "unlink2" -> pr[p].y
              [] OTHER -> 0
NoDeadlock ==
    ~\E p, q \in Procs : Wants(p) # 0 /\ Wants(q) # 0
                           /\ lock[Wants(p)] = q /\ lock[Wants(q)] = p
==============================================================================
