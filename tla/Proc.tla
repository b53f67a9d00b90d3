--------------------------------- MODULE Proc ---------------------------------
(***************************************************************************)
(* The life of a process in kernel/proc.c: allocproc(), fork(), exit(),      *)
(* wait() and kill(), with the checks of killed and pending signals in       *)
(* trap().  The part of a function under ptable.lock is one step; what runs  *)
(* without the lock is a step of its own.  RUNNABLE stands for RUNNABLE and  *)
(* RUNNING, which module Sched tells apart.                                  *)
(***************************************************************************)
EXTENDS Integers, FiniteSets, FiniteSetsExt

CONSTANTS NPROC,    \* process table slots; slot 1 is initproc
          MaxPid    \* bound on nextpid

ASSUME ProcAssumption == NPROC \in Nat \ {0} /\ MaxPid \in Nat \ {0}

Slots == 1..NPROC
Initproc == 1
Nobody == 0         \* the null proc pointer

VARIABLES state, pid, parent, killed,
          pending,  \* an unblocked signal other than SIGKILL is pending
          pc,       \* "user", "trap" (in an interrupt), "fork" (child allocated)
                    \* or "wait" (inside wait())
          child,    \* the slot that fork() is filling
          nextpid

vars == <<state, pid, parent, killed, pending, pc, child, nextpid>>

Init == /\ state = [s \in Slots |-> IF s = Initproc THEN "RUNNABLE" ELSE "UNUSED"]
        /\ pid = [s \in Slots |-> IF s = Initproc THEN 1 ELSE 0]
        /\ parent = [s \in Slots |-> Nobody]
        /\ killed = [s \in Slots |-> FALSE]
        /\ pending = [s \in Slots |-> FALSE]
        /\ pc = [s \in Slots |-> "user"]
        /\ child = [s \in Slots |-> Nobody]
        /\ nextpid = 2

Unused == {s \in Slots : state[s] = "UNUSED"}
Children(p) == {s \in Slots : parent[s] = p}
Zombies(p) == {s \in Children(p) : state[s] = "ZOMBIE"}

\* trap() calls exit() when the process enters it from user code or returns from a
\* system call.
Doomed(p) == killed[p] \/ pending[p]
InUser(p) == state[p] = "RUNNABLE" /\ pc[p] = "user" /\ ~Doomed(p)

-------------------------------------------------------------------------------
(* An interrupt of user code.  trap() first exits if the process is doomed.   *)

Trap(p) ==
    /\ InUser(p)
    /\ pc' = [pc EXCEPT ![p] = "trap"]
    /\ UNCHANGED <<state, pid, parent, killed, pending, child, nextpid>>

\* A signal that came since then is taken: it kills, or has a handler, or is ignored.
TrapReturn(p) ==
    /\ state[p] = "RUNNABLE" /\ pc[p] = "trap"
    /\ UNCHANGED killed \/ (pending[p] /\ killed' = [killed EXCEPT ![p] = TRUE])
    /\ pending' = [pending EXCEPT ![p] = FALSE]
    /\ pc' = [pc EXCEPT ![p] = "user"]
    /\ UNCHANGED <<state, pid, parent, child, nextpid>>

-------------------------------------------------------------------------------
(* fork()                                                                     *)

Bump(k) == k + 1    \* nextpid++, under ptable.lock

AllocProc(p) ==
    /\ InUser(p) /\ nextpid <= MaxPid
    /\ Unused # {}
    /\ LET s == Min(Unused)
       IN  /\ state' = [state EXCEPT ![s] = "EMBRYO"]
           /\ pid' = [pid EXCEPT ![s] = nextpid]
           /\ pending' = [pending EXCEPT ![s] = FALSE]
           /\ child' = [child EXCEPT ![p] = s]
    /\ nextpid' = Bump(nextpid)
    /\ pc' = [pc EXCEPT ![p] = "fork"]
    /\ UNCHANGED <<parent, killed>>

\* No kernel stack or no page table: the slot is free again, its pid stays.
ForkFails(p) ==
    /\ state[p] = "RUNNABLE" /\ pc[p] = "fork"
    /\ state' = [state EXCEPT ![child[p]] = "UNUSED"]
    /\ pc' = [pc EXCEPT ![p] = "user"]
    /\ child' = [child EXCEPT ![p] = Nobody]
    /\ UNCHANGED <<pid, parent, killed, pending, nextpid>>

ForkDone(p) ==
    /\ state[p] = "RUNNABLE" /\ pc[p] = "fork"
    /\ state' = [state EXCEPT ![child[p]] = "RUNNABLE"]
    /\ parent' = [parent EXCEPT ![child[p]] = p]
    /\ pc' = [pc EXCEPT ![p] = "user", ![child[p]] = "user"]
    /\ child' = [child EXCEPT ![p] = Nobody]
    /\ UNCHANGED <<pid, killed, pending, nextpid>>

-------------------------------------------------------------------------------
(* exit(), called by the process or by trap() for it.                         *)

\* wakeup1(chan) for the channel wait() sleeps on, the process itself.
Wakeup1(st, q) ==
    [s \in Slots |-> IF s = q /\ st[s] = "SLEEPING" THEN "RUNNABLE" ELSE st[s]]

\* Abandoned children go to init.
Reparent_None(p) == parent
Reparent(p) == [s \in Slots |-> IF parent[s] = p THEN Initproc ELSE parent[s]]

\* init hears of the zombies among them.
WakeInit_Not(st, p) == st
WakeInit(st, p) == IF Zombies(p) # {} THEN Wakeup1(st, Initproc) ELSE st

Exit(p) ==
    /\ p # Initproc
    /\ state[p] = "RUNNABLE" /\ pc[p] = "user"
    /\ parent' = Reparent(p)
    /\ state' = [WakeInit(Wakeup1(state, parent[p]), p) EXCEPT ![p] = "ZOMBIE"]
    /\ UNCHANGED <<pid, killed, pending, pc, child, nextpid>>

-------------------------------------------------------------------------------
(* wait()                                                                     *)

WaitCall(p) ==
    /\ InUser(p)
    /\ pc' = [pc EXCEPT ![p] = "wait"]
    /\ UNCHANGED <<state, pid, parent, killed, pending, child, nextpid>>

WaitReap(p) ==
    /\ state[p] = "RUNNABLE" /\ pc[p] = "wait"
    /\ Zombies(p) # {}
    /\ LET z == Min(Zombies(p))
       IN  /\ state' = [state EXCEPT ![z] = "UNUSED"]
           /\ pid' = [pid EXCEPT ![z] = 0]
           /\ parent' = [parent EXCEPT ![z] = Nobody]
           /\ killed' = [killed EXCEPT ![z] = FALSE]
    /\ pc' = [pc EXCEPT ![p] = "user"]
    /\ UNCHANGED <<pending, child, nextpid>>

\* wait() gives up; it looks at killed and not at pending.
GivesUp_Deaf(p) == Children(p) = {}
GivesUp(p) == Children(p) = {} \/ killed[p]

WaitFails(p) ==
    /\ state[p] = "RUNNABLE" /\ pc[p] = "wait"
    /\ Zombies(p) = {} /\ GivesUp(p)
    /\ pc' = [pc EXCEPT ![p] = "user"]
    /\ UNCHANGED <<state, pid, parent, killed, pending, child, nextpid>>

WaitSleep(p) ==
    /\ state[p] = "RUNNABLE" /\ pc[p] = "wait"
    /\ Zombies(p) = {} /\ ~GivesUp(p)
    /\ state' = [state EXCEPT ![p] = "SLEEPING"]
    /\ UNCHANGED <<pid, parent, killed, pending, pc, child, nextpid>>

-------------------------------------------------------------------------------
(* kill()                                                                     *)

\* The first slot with that pid, whatever its state: pid 0 and the pid left behind by a
\* failed fork() find free slots.  Init is refused.
Target(n) == {s \in Slots : pid[s] = n /\ n # 1}

KillWake(st) == IF st = "SLEEPING" THEN "RUNNABLE" ELSE st

Kill(p, n, sigkill) ==
    /\ InUser(p)
    /\ Target(n) # {}
    /\ LET s == Min(Target(n))
       IN  /\ killed' = [killed EXCEPT ![s] = @ \/ sigkill]
           /\ pending' = [pending EXCEPT ![s] = @ \/ ~sigkill]
           /\ state' = [state EXCEPT ![s] = KillWake(@)]
    /\ UNCHANGED <<pid, parent, pc, child, nextpid>>

-------------------------------------------------------------------------------
Fork(p) == AllocProc(p) \/ ForkFails(p) \/ ForkDone(p)
WaitStep(p) == WaitReap(p) \/ WaitFails(p) \/ WaitSleep(p)

Next == \E p \in Slots : \/ Trap(p) \/ TrapReturn(p) \/ Fork(p) \/ Exit(p) \/ WaitCall(p) \/ WaitStep(p)
                         \/ \E n \in 0..(nextpid - 1), k \in BOOLEAN : Kill(p, n, k)

Spec == Init /\ [][Next]_vars

\* Kernel code runs on, trap() does not let a doomed process go, and init calls
\* wait() for ever.
Fairness ==
    /\ \A p \in Slots : /\ WF_vars(ForkFails(p) \/ ForkDone(p)) /\ WF_vars(WaitStep(p))
                        /\ WF_vars(TrapReturn(p)) /\ WF_vars(Doomed(p) /\ Exit(p))
    /\ SF_vars(WaitCall(Initproc))

FairSpec == Spec /\ Fairness

-------------------------------------------------------------------------------
(* Properties                                                                 *)

Alive(s) == state[s] \in {"RUNNABLE", "SLEEPING"}

\* The process table is a tree with init at the root: the parent of a process that
\* exists is a process that can still call wait(), so exit() has somebody to wake,
\* and getppid() somebody to name, through any sequence of exits.
ParentCanWait ==
    \A s \in Slots \ {Initproc} :
        state[s] \in {"RUNNABLE", "SLEEPING", "ZOMBIE"} =>
            parent[s] # Nobody /\ parent[s] # s /\ Alive(parent[s])

\* No lost wakeup between exit() and wait(): a parent asleep in wait() has a child
\* that can still wake it, and none that already exited.
SleepingParentHasLiveChild ==
    \A p \in Slots : state[p] = "SLEEPING" => Zombies(p) = {} /\ Children(p) # {}

\* The pid of a process names that process alone.
PidsUnique ==
    \A s, t \in Slots : state[s] # "UNUSED" /\ state[t] # "UNUSED" /\ s # t
                        => pid[s] # pid[t] /\ pid[s] # 0

\* The process table is consistent through every order of fork(), exit(), wait() and
\* kill(): the three statements above.
TableConsistent == ParentCanWait /\ SleepingParentHasLiveChild /\ PidsUnique

\* A zombie left to init is reaped, so its slot, stack and memory come back: no suffix
\* of a behaviour keeps a child of init a zombie.
OrphansReaped == \A s \in Slots :
    []<>~(state[s] = "ZOMBIE" /\ parent[s] = Initproc)

\* A process killed with SIGKILL exits, even one asleep in wait(): killed is never taken
\* back, and no suffix keeps a killed process alive.
KilledExits == \A s \in Slots : []<>~(Alive(s) /\ killed[s])
===============================================================================
