--------------------------------- MODULE Vm ---------------------------------
(***************************************************************************)
(* Physical pages and address spaces: the page allocator (kernel/kalloc.c),*)
(* page tables (kernel/vm.c), and the calls that build and tear them down: *)
(* userinit, growproc/sbrk, fork, exec, exit and wait, and the trap frame  *)
(* page of a signal handler.  A step is one iteration of a loop that calls *)
(* kalloc(), so two processes can run out of memory in the middle of each  *)
(* other's calls.  Addresses are counted in units of 1/PGSIZE page and keep*)
(* their width: WORD is 2^32.                                              *)
(***************************************************************************)
EXTENDS Args, Naturals, Sequences, FiniteSets, SequencesExt

CONSTANTS Procs,       \* slots of ptable, 1 is init
          NPAGES,      \* pages between end and PHYSTOP
          PGSIZE, NPTE,        \* bytes of a page, entries of a page table
          UPD,         \* page directory entries below KERNBASE
          KTABLES,     \* page tables that map the kernel
          Programs,    \* ELF files: sequences of [vaddr, memsz, filesz, whole]
          ArgBytes,    \* bytes exec's arguments take on the stack
          Deltas,      \* arguments of sbrk (a negative one as its magnitude)
          Pointers, BufSizes,  \* addresses and sizes passed to system calls
          INT,         \* bytes of an int
          MaxCalls     \* bound on the calls of a behaviour

ASSUME VmAssumption == /\ 1 \in Procs /\ {PGSIZE, NPTE, UPD, KTABLES, INT} \subseteq Nat \ {0}
                       /\ NPAGES >= 2 * (1 + KTABLES) + 3

Pages == 1..NPAGES
KERNBASE == UPD * NPTE * PGSIZE
WORD == 2 * KERNBASE
UPAGES == UPD * NPTE

VARIABLES m,           \* memory: [free, tab, data, panic], see Boot
          state, parent,       \* ptable
          pgdir, sz, kstack, sigtf,
          frame,       \* the call in progress, [op |-> "user"] outside
          lost,        \* pages no pointer leads to any more
          calls

pvars == <<state, parent, pgdir, sz, kstack, sigtf>>
vars == <<m, state, parent, pgdir, sz, kstack, sigtf, frame, lost, calls>>

-----------------------------------------------------------------------------
(* kalloc.c.  A page holds table entries or data; a freed page is filled   *)
(* with ones, which read as present entries that lead nowhere.             *)

NoEntry == [pa |-> 0, u |-> FALSE]
Junk == [pa |-> NPAGES + 1, u |-> TRUE]
NoTable == [i \in 0..(UPD + KTABLES + NPTE - 1) |-> NoEntry]
Panic(x, why) == [x EXCEPT !.panic = why]

Kfree(x, v) == IF v \notin Pages THEN Panic(x, "kfree")
               ELSE [x EXCEPT !.free = <<v>> \o @, !.data[v] = "junk",
                              !.tab[v] = [i \in DOMAIN NoTable |-> Junk]]

CanAlloc(x) == x.free # <<>>
Head_(x) == Head(x.free)
(* kalloc() and the memset(0) every caller but allocproc and trap does     *)
Kalloc(x) == [x EXCEPT !.free = Tail(@), !.data[Head(x.free)] = "zero",
                       !.tab[Head(x.free)] = NoTable]

Freerange(x, from, to) ==
  FoldLeft(LAMBDA y, v : Kfree(y, v), x, [i \in 1..(to - from + 1) |-> from + i - 1])

-----------------------------------------------------------------------------
(* vm.c *)

PGROUNDUP(a) == ((a + PGSIZE - 1) \div PGSIZE) * PGSIZE
PDX(a) == (a \div PGSIZE) \div NPTE
PTX(a) == (a \div PGSIZE) % NPTE

Table(x, d, a) == x.tab[d][PDX(a)].pa          \* 0: walkpgdir(.., 0) returns 0
Pte(x, d, a) == x.tab[Table(x, d, a)][PTX(a)]
Present(x, d, a) == Table(x, d, a) # 0 /\ Pte(x, d, a).pa # 0

(* pages kalloc'd for one page at a: the page and a table where none is    *)
Needs(x, d, a) == IF Table(x, d, a) = 0 THEN 2 ELSE 1

(* mappages() of one page pa; its walkpgdir(.., 1) takes the table         *)
Mappages(x, d, a, pa, u) ==
  LET y == IF Table(x, d, a) = 0
           THEN [Kalloc(x) EXCEPT !.tab[d][PDX(a)] = [pa |-> Head_(x), u |-> TRUE]]
           ELSE x
  IN IF Present(y, d, a) THEN Panic(y, "remap")
     ELSE [y EXCEPT !.tab[Table(y, d, a)][PTX(a)] = [pa |-> pa, u |-> u]]

(* setupkvm(): the directory and the kernel's tables, or nothing           *)
HasKvm(x) == Len(x.free) > KTABLES
Setupkvm(x) ==
  FoldLeft(LAMBDA y, k : [Kalloc(y) EXCEPT !.tab[Head_(x)][UPD + k - 1] = [pa |-> Head_(y), u |-> TRUE]],
           Kalloc(x), [k \in 1..KTABLES |-> k])

Above(new, i) == PGROUNDUP(new) + i * PGSIZE

(* deallocuvm() from old down to new; the loop skips absent tables         *)
Deallocuvm(x, d, old, new) ==
  FoldLeft(LAMBDA y, i : LET a == Above(new, i - 1)
                         IN IF a >= old \/ ~Present(y, d, a) THEN y
                            ELSE [Kfree(y, Pte(y, d, a).pa)
                                    EXCEPT !.tab[Table(y, d, a)][PTX(a)] = NoEntry],
           x, [i \in 1..UPAGES |-> i])

Freevm(x, d) ==
  Kfree(FoldLeft(LAMBDA y, i : IF y.tab[d][i - 1].pa = 0 THEN y ELSE Kfree(y, y.tab[d][i - 1].pa),
                 Deallocuvm(x, d, KERNBASE, 0), [i \in 1..(UPD + KTABLES) |-> i]), d)

(* clearpteu(), and copyout() through uva2ka() of the argument bytes that  *)
(* end at sp: only pages with PTE_U take them.  uva2ka() does not ask for  *)
(* a page table; below sp there always is one.                             *)
Clearpteu(x, d, a) == [x EXCEPT !.tab[Table(x, d, a)][PTX(a)].u = FALSE]
CopiesOut(x, d, sp, n) ==
  n <= sp /\ \A a \in (sp - n)..(sp - 1) : Pte(x, d, a).pa # 0 /\ Pte(x, d, a).u
Copyout(x, d, sp, n) ==
  FoldLeft(LAMBDA y, i : [y EXCEPT !.data[Pte(y, d, sp - i).pa] = "args"],
           x, [i \in 1..n |-> i])

(* loaduvm() of a segment: its pages must be mapped                        *)
Loaduvm(x, d, s) ==
  FoldLeft(LAMBDA y, i : IF i % PGSIZE # 1 % PGSIZE THEN y
                         ELSE IF Table(y, d, s.vaddr + i - 1) = 0 THEN Panic(y, "loaduvm: address should exist")
                         ELSE IF ~Present(y, d, s.vaddr + i - 1) THEN Panic(y, "write through address 0")
                         ELSE [y EXCEPT !.data[Pte(y, d, s.vaddr + i - 1).pa] = "text"],
           x, [i \in 1..s.filesz |-> i])

-----------------------------------------------------------------------------
(* Boot: kinit1 and kinit2 free every page, kvmalloc builds kpgdir, and    *)
(* userinit the first process, with its one page                           *)

Boot ==
  LET none == [free |-> <<>>, tab |-> [v \in Pages |-> NoTable],
               data |-> [v \in Pages |-> "zero"], panic |-> "none"]
      low == Freerange(none, 1, NPAGES \div 2)
      all == Freerange(Setupkvm(low), NPAGES \div 2 + 1, NPAGES)
  IN [mem |-> all, kpgdir |-> Head_(low)]

Userinit ==
  LET b == Boot.mem
      d == Head_(Kalloc(b))
      kvm == Setupkvm(Kalloc(b))
      page == Head_(kvm)
      full == Mappages(Kalloc(kvm), d, 0, page, TRUE)
  IN [kstack |-> Head_(b), pgdir |-> d, mem |-> [full EXCEPT !.data[page] = "text"]]

Init ==
  /\ m = Userinit.mem
  /\ state = [p \in Procs |-> IF p = 1 THEN "RUN" ELSE "UNUSED"]
  /\ parent = [p \in Procs |-> 0]
  /\ pgdir = [p \in Procs |-> IF p = 1 THEN Userinit.pgdir ELSE 0]
  /\ kstack = [p \in Procs |-> IF p = 1 THEN Userinit.kstack ELSE 0]
  /\ sz = [p \in Procs |-> IF p = 1 THEN PGSIZE ELSE 0]
  /\ sigtf = [p \in Procs |-> 0]
  /\ frame = [p \in Procs |-> [op |-> "user"]]
  /\ lost = {}
  /\ calls = 0

-----------------------------------------------------------------------------
(* System calls.  A process runs only while its first page, which holds    *)
(* its code, is mapped; otherwise its next instruction faults, or RunsOn.  *)

User == [op |-> "user"]
InUser(p) == state[p] = "RUN" /\ frame[p] = User /\ Present(m, pgdir[p], 0) /\ m.panic = "none"
Calls(p) == InUser(p) /\ calls < MaxCalls /\ calls' = calls + 1
In(p, op) == frame[p].op = op /\ m.panic = "none" /\ UNCHANGED calls
Goto(p, f) == frame' = [frame EXCEPT ![p] = f]

Store(p) ==
  /\ Calls(p)
  /\ \E i \in 0..UPAGES-1 :
        /\ i * PGSIZE < sz[p] /\ Pte(m, pgdir[p], i * PGSIZE).u
        /\ m' = [m EXCEPT !.data[Pte(m, pgdir[p], i * PGSIZE).pa] = "user"]
  /\ UNCHANGED <<pvars, frame, lost>>

(* A system call that fills a buffer of the process (read, fstat, pipe,    *)
(* getcwd): the pointer is on the user stack, whatever %esp is.  The       *)
(* kernel writes through any page that is there, PTE_U or not.             *)
Faults(what) == IF what = "signal" THEN "page fault at %esp" ELSE "page fault in the kernel"
Touch(x, d, a, what) == IF ~Present(x, d, a) THEN Panic(x, Faults(what))
                        ELSE IF what = "read" THEN x
                        ELSE [x EXCEPT !.data[Pte(x, d, a).pa] = "user"]
Access(x, d, from, n, what) ==
  FoldLeft(LAMBDA y, k : Touch(y, d, (from + k - 1) % WORD, what), x, [k \in 1..n |-> k])

FillBuffer(p, esp, i, size) ==
  /\ Calls(p)
  /\ m' = LET x == IF Argint(WORD, sz[p], esp, 1, INT)
                   THEN Access(m, pgdir[p], esp + 2 * INT, INT, "read") ELSE m
          IN IF Argint(WORD, sz[p], esp, 1, INT) /\ Argptr(WORD, sz[p], i, size)
             THEN Access(x, pgdir[p], i, size, "write") ELSE x
  /\ UNCHANGED <<pvars, frame, lost>>

(* one that takes a string (open, exec, chdir): argstr() reads its memory  *)
(* as far as sz when there is no NUL                                       *)
ReadString(p, a) ==
  /\ Calls(p)
  /\ m' = IF Fetchstr(sz[p], a) THEN Access(m, pgdir[p], a, sz[p] - a, "read") ELSE m
  /\ UNCHANGED <<pvars, frame, lost>>

(* growproc(n), n > 0: allocuvm() adds a page a step                       *)
SbrkUp(p, n) ==
  /\ Calls(p)
  /\ IF sz[p] + n >= KERNBASE THEN UNCHANGED frame
     ELSE Goto(p, [op |-> "grow", dir |-> pgdir[p], a |-> PGROUNDUP(sz[p]),
                   old |-> sz[p], new |-> sz[p] + n])
  /\ UNCHANGED <<m, pvars, lost>>

(* growproc(-n): deallocuvm(); a new size of 0 counts as failure, after    *)
(* the pages are gone and before switchuvm() flushes the TLB, and a size   *)
(* below 0 wraps to one that frees nothing.                                *)
(* init keeps its code: it never exits.                                    *)
SbrkDown(p, n) ==
  /\ Calls(p) /\ (p = 1 => n # sz[p])
  /\ LET new == (sz[p] + WORD - n) % WORD
     IN IF new >= sz[p] THEN UNCHANGED <<m, sz>>
        ELSE /\ m' = Deallocuvm(m, pgdir[p], sz[p], new)
             /\ sz' = IF new = 0 THEN sz ELSE [sz EXCEPT ![p] = new]
  /\ UNCHANGED <<state, parent, pgdir, kstack, sigtf, frame, lost>>

(* After that the entries left in the TLB may let the process run on, in   *)
(* pages that are free or somebody else's.  A stray store of this kind can *)
(* change anything, and ends the behaviour.                                *)
RunsOn(p) ==
  /\ state[p] = "RUN" /\ frame[p] = User /\ ~Present(m, pgdir[p], 0) /\ m.panic = "none"
  /\ m' = Panic(m, "stray store")
  /\ UNCHANGED <<pvars, frame, lost, calls>>

(* allocuvm(): one page, or all pages of this call back                    *)
Undo_LeakPage(x, d, new, old) == Deallocuvm(IF CanAlloc(x) THEN Kalloc(x) ELSE x, d, new, old)
Undo(x, d, new, old) ==
  IF CanAlloc(x) THEN Kfree(Deallocuvm(Kalloc(x), d, new, old), Head_(x))
                 ELSE Deallocuvm(x, d, new, old)

AllocPage(p) ==
  LET f == frame[p]
  IN /\ In(p, "grow") \/ In(p, "seg") \/ In(p, "stack")
     /\ f.a < f.new
     /\ IF Len(m.free) >= Needs(m, f.dir, f.a)
        THEN /\ m' = Mappages(Kalloc(m), f.dir, f.a, Head_(m), TRUE)
             /\ Goto(p, [f EXCEPT !.a = @ + PGSIZE])
        ELSE /\ m' = IF f.op = "grow" THEN Undo(m, f.dir, f.new, f.old)
                     ELSE Freevm(Undo(m, f.dir, f.new, f.old), f.dir)
             /\ Goto(p, User)
     /\ UNCHANGED <<pvars, lost>>

GrowDone(p) ==
  /\ In(p, "grow") /\ frame[p].a >= frame[p].new
  /\ sz' = [sz EXCEPT ![p] = frame[p].new]
  /\ Goto(p, User)
  /\ UNCHANGED <<m, state, parent, pgdir, kstack, sigtf, lost>>

-----------------------------------------------------------------------------
(* exec(): a new directory, the segments one by one, two stack pages, the  *)
(* arguments; the old image goes only when all of that worked              *)

(* where the loop over the program headers goes from size old              *)
NextSegment(f, old, k) ==
  LET g == [f EXCEPT !.old = old, !.a = PGROUNDUP(old), !.k = k]
  IN IF k > Len(f.prog)
     THEN [g EXCEPT !.op = IF PGROUNDUP(old) + 2 * PGSIZE >= KERNBASE THEN "bad" ELSE "stack",
                    !.old = PGROUNDUP(old), !.new = PGROUNDUP(old) + 2 * PGSIZE]
     ELSE LET end == f.prog[k].vaddr + f.prog[k].memsz
          IN [g EXCEPT !.op = IF \/ f.prog[k].memsz < f.prog[k].filesz
                                 \/ end >= WORD \/ end >= KERNBASE THEN "bad" ELSE "seg",
                       !.new = IF end < old THEN old ELSE end]

Exec(p, prog, n) ==
  /\ Calls(p)
  /\ IF HasKvm(m)
     THEN /\ m' = Setupkvm(m)
          /\ Goto(p, NextSegment([op |-> "seg", dir |-> Head_(m), prog |-> prog, args |-> n,
                                  k |-> 1, a |-> 0, old |-> 0, new |-> 0], 0, 1))
     ELSE UNCHANGED <<m, frame>>
  /\ UNCHANGED <<pvars, lost>>

ExecLoad(p) ==
  LET f == frame[p]  s == f.prog[f.k]
  IN /\ In(p, "seg") /\ f.a >= f.new
     /\ IF f.new = 0 \/ s.vaddr % PGSIZE # 0 \/ ~s.whole
        THEN Goto(p, [f EXCEPT !.op = "bad"]) /\ UNCHANGED m
        ELSE m' = Loaduvm(m, f.dir, s) /\ Goto(p, NextSegment(f, f.new, f.k + 1))
     /\ UNCHANGED <<pvars, lost>>

ExecCommit(p) ==
  LET f == frame[p]
      x == Clearpteu(m, f.dir, f.new - 2 * PGSIZE)
  IN /\ In(p, "stack") /\ f.a >= f.new
     /\ IF CopiesOut(x, f.dir, f.new, f.args)
        THEN /\ m' = Freevm(Copyout(x, f.dir, f.new, f.args), pgdir[p])
             /\ pgdir' = [pgdir EXCEPT ![p] = f.dir]
             /\ sz' = [sz EXCEPT ![p] = f.new]
             /\ Goto(p, User)
        ELSE m' = x /\ Goto(p, [f EXCEPT !.op = "bad"]) /\ UNCHANGED <<pgdir, sz>>
     /\ UNCHANGED <<state, parent, kstack, sigtf, lost>>

(* An argument longer than the new image starts below address 0, past      *)
(* KERNBASE: the kernel's pages there lack PTE_U, but where there is no    *)
(* page table uva2ka() takes the word at address 0 for the page's entry.   *)
ExecWraps(p) ==
  LET f == frame[p]
  IN /\ In(p, "stack") /\ f.a >= f.new
     /\ f.args > f.new /\ f.args <= sz[p]
     /\ m' = Panic(m, "stray store")
     /\ UNCHANGED <<pvars, frame, lost>>

ExecBad(p) ==
  /\ In(p, "bad")
  /\ m' = Freevm(m, frame[p].dir)
  /\ Goto(p, User)
  /\ UNCHANGED <<pvars, lost>>

-----------------------------------------------------------------------------
(* fork(): a slot and a kernel stack, a directory, a copy of every page    *)

Fork(p, c) ==
  /\ Calls(p) /\ state[c] = "UNUSED"
  /\ IF CanAlloc(m)
     THEN /\ m' = Kalloc(m)
          /\ state' = [state EXCEPT ![c] = "EMBRYO"]
          /\ kstack' = [kstack EXCEPT ![c] = Head_(m)]
          /\ sigtf' = [sigtf EXCEPT ![c] = 0]
          /\ Goto(p, [op |-> "fork", child |-> c, dir |-> 0, a |-> 0])
     ELSE UNCHANGED <<m, state, kstack, sigtf, frame>>
  /\ UNCHANGED <<parent, pgdir, sz, lost>>

(* copyuvm() fails: fork gives the kernel stack and the slot back          *)
ForkFails(p, x) ==
  LET c == frame[p].child
  IN /\ m' = Kfree(x, kstack[c])
     /\ kstack' = [kstack EXCEPT ![c] = 0]
     /\ state' = [state EXCEPT ![c] = "UNUSED"]
     /\ Goto(p, User)

CopyPage_Shared(x, d, a, pte) == Mappages(x, d, a, pte.pa, pte.u)
CopyPage(x, d, a, pte) ==
  Mappages([Kalloc(x) EXCEPT !.data[Head_(x)] = x.data[pte.pa]], d, a, Head_(x), pte.u)

ForkCopy(p) ==
  LET f == frame[p]
  IN /\ In(p, "fork")
     /\ f.dir = 0 \/ f.a < sz[p]
     /\ IF f.dir = 0
        THEN IF HasKvm(m)
             THEN m' = Setupkvm(m) /\ Goto(p, [f EXCEPT !.dir = Head_(m)]) /\ UNCHANGED <<state, kstack>>
             ELSE ForkFails(p, m)
        ELSE IF ~Present(m, pgdir[p], f.a)
        THEN m' = Panic(m, "copyuvm") /\ UNCHANGED <<frame, state, kstack>>
        ELSE IF Len(m.free) >= Needs(m, f.dir, f.a)
        THEN /\ m' = CopyPage(m, f.dir, f.a, Pte(m, pgdir[p], f.a))
             /\ Goto(p, [f EXCEPT !.a = @ + PGSIZE])
             /\ UNCHANGED <<state, kstack>>
        ELSE ForkFails(p, Freevm(Undo(m, f.dir, 0, 0), f.dir))
     /\ UNCHANGED <<parent, pgdir, sz, sigtf, lost>>

ForkDone(p) ==
  LET f == frame[p]
  IN /\ In(p, "fork") /\ f.dir # 0 /\ f.a >= sz[p]
     /\ pgdir' = [pgdir EXCEPT ![f.child] = f.dir]
     /\ sz' = [sz EXCEPT ![f.child] = sz[p]]
     /\ parent' = [parent EXCEPT ![f.child] = p]
     /\ state' = [state EXCEPT ![f.child] = "RUN"]
     /\ Goto(p, User)
     /\ UNCHANGED <<m, kstack, sigtf, lost>>

(* exit(), called or forced by a page fault                                *)
Exit(p) ==
  /\ state[p] = "RUN" /\ frame[p] = User /\ p # 1 /\ m.panic = "none"
  /\ state' = [state EXCEPT ![p] = "ZOMBIE"]
  /\ parent' = [q \in Procs |-> IF parent[q] = p THEN 1 ELSE parent[q]]
  /\ UNCHANGED <<m, pgdir, sz, kstack, sigtf, frame, lost, calls>>

(* wait() finds a zombie: stack, address space and trap frame page go      *)
Reap(x, c) == LET y == Freevm(Kfree(x, kstack[c]), pgdir[c])
              IN IF sigtf[c] = 0 THEN y ELSE Kfree(y, sigtf[c])
Wait(p, c) ==
  /\ InUser(p) /\ state[c] = "ZOMBIE" /\ parent[c] = p
  /\ m' = Reap(m, c)
  /\ state' = [state EXCEPT ![c] = "UNUSED"]
  /\ parent' = [parent EXCEPT ![c] = 0]
  /\ kstack' = [kstack EXCEPT ![c] = 0]
  /\ sigtf' = [sigtf EXCEPT ![c] = 0]
  /\ UNCHANGED <<pgdir, sz, frame, lost, calls>>

(* trap() runs a handler: a page for the saved trap frame, if there is     *)
(* one, and the signal's number pushed at the user's %esp, whatever it is  *)
Pushed(x, d, a) ==
  IF \E k \in 0..(INT - 1) : (a + k) % WORD >= KERNBASE
  THEN {Panic(x, "stray store"), Panic(x, Faults("signal"))}
  ELSE {Access(x, d, a, INT, "signal")}

Deliver(p, esp) ==
  /\ Calls(p)
  /\ IF sigtf[p] # 0 \/ CanAlloc(m)
     THEN /\ m' \in Pushed(IF sigtf[p] = 0 THEN Kalloc(m) ELSE m, pgdir[p], (esp + WORD - INT) % WORD)
          /\ sigtf' = [sigtf EXCEPT ![p] = IF @ = 0 THEN Head_(m) ELSE @]
     ELSE UNCHANGED <<m, sigtf>>
  /\ UNCHANGED <<state, parent, pgdir, sz, kstack, frame, lost>>

(* sys_sigreturn(): drops the pointer, and with it the page                *)
Sigreturn(p) ==
  /\ InUser(p) /\ sigtf[p] # 0
  /\ lost' = lost \cup {sigtf[p]}
  /\ sigtf' = [sigtf EXCEPT ![p] = 0]
  /\ UNCHANGED <<m, state, parent, pgdir, sz, kstack, frame, calls>>

Step(p) ==
  \/ Store(p) \/ \E esp, i \in Pointers, size \in BufSizes : FillBuffer(p, esp, i, size)
  \/ \E a \in Pointers : ReadString(p, a) \/ Deliver(p, a)
  \/ \E n \in Deltas : SbrkUp(p, n) \/ SbrkDown(p, n)
  \/ AllocPage(p) \/ GrowDone(p) \/ RunsOn(p)
  \/ \E prog \in Programs, n \in ArgBytes : Exec(p, prog, n)
  \/ ExecLoad(p) \/ ExecCommit(p) \/ ExecWraps(p) \/ ExecBad(p)
  \/ \E c \in Procs : Fork(p, c) \/ Wait(p, c)
  \/ ForkCopy(p) \/ ForkDone(p) \/ Exit(p) \/ Sigreturn(p)

Next == \E p \in Procs : Step(p)

Spec == Init /\ [][Next]_vars

-----------------------------------------------------------------------------
Live(p) == state[p] \in {"RUN", "ZOMBIE"}
Dirs == {Boot.kpgdir} \cup {pgdir[p] : p \in {q \in Procs : Live(q)}}
        \cup {frame[p].dir : p \in {q \in Procs : frame[q].op \in {"seg", "stack", "bad", "fork"}}}

(* every pointer to a page, tagged with where it is kept                   *)
Refs ==
  LET dirs == Dirs \ {0}
      pdes == {<<"pde", d, i, m.tab[d][i].pa>> : d \in dirs, i \in 0..(UPD + KTABLES - 1)}
      user == {r[4] : r \in {e \in pdes : e[3] < UPD}} \ {0}
      ptes == {<<"pte", t, i, m.tab[t][i].pa>> : t \in user, i \in 0..(NPTE - 1)}
      held == {<<"kstack", p, 0, kstack[p]>> : p \in Procs}
              \cup {<<"sig_tf", p, 0, sigtf[p]>> : p \in Procs}
  IN {r \in pdes \cup ptes \cup held : r[4] # 0}
     \cup {<<"free", i, 0, m.free[i]>> : i \in DOMAIN m.free}
     \cup {<<"pgdir", 0, d, d>> : d \in dirs} \cup {<<"lost", 0, v, v>> : v \in lost}

(* Every page has exactly one owner: the free list, one kernel stack, one  *)
(* page directory or table, one page of one process, or one saved trap     *)
(* frame - whatever call failed for want of memory, and at which of its    *)
(* kalloc()s; only sys_sigreturn loses pages (allocuvm, copyuvm, exec,     *)
(* fork and wait give back exactly what they took).  So no call runs into  *)
(* the panics of vm.c and kalloc.c (remap, copyuvm, loaduvm, kfree), and   *)
(* the kernel does not fault on what argptr() and argstr() let through.    *)
(* It can on a signal's %esp, and a stray store (RunsOn, ExecWraps,        *)
(* Deliver) ends what can be said.                                         *)
PagesOwnedOnce ==
  /\ m.panic \in {"none", "stray store", Faults("signal")}
  /\ {r[4] : r \in Refs} = Pages
  /\ Cardinality(Refs) = NPAGES

(* Refinement: whatever the interleaving of the calls and wherever memory  *)
(* runs out, processes see private arrays of pages as AddressSpaces says,  *)
(* until a stray store.                                                    *)
Image(prog) ==
  LET top == PGROUNDUP(CHOOSE t \in 0..KERNBASE :
               /\ \A k \in DOMAIN prog : prog[k].vaddr + prog[k].memsz <= t
               /\ t = 0 \/ \E k \in DOMAIN prog : prog[k].vaddr + prog[k].memsz = t) \div PGSIZE
  IN [i \in 0..UPAGES-1 |->
        IF \E k \in DOMAIN prog : /\ prog[k].vaddr < (i + 1) * PGSIZE
                                  /\ i * PGSIZE < prog[k].vaddr + prog[k].filesz
        THEN "text" ELSE IF i <= top THEN "zero" ELSE IF i = top + 1 THEN "args" ELSE "none"]

Fits(prog) == \A k \in DOMAIN prog : prog[k].vaddr + prog[k].memsz < KERNBASE

AS == INSTANCE AddressSpaces WITH
        Images <- {Image(prog) : prog \in {q \in Programs : Fits(q)}},
        img <- [p \in Procs |-> [i \in 0..UPAGES-1 |->
                  IF Live(p) /\ i * PGSIZE < sz[p] /\ Present(m, pgdir[p], i * PGSIZE)
                  THEN m.data[Pte(m, pgdir[p], i * PGSIZE).pa] ELSE "none"]]
PrivateMemory == AS!Spec
=============================================================================
