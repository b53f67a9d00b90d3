-------------------------------- MODULE Sched --------------------------------
(***************************************************************************)
(* Context switching in kernel/proc.c: the per-CPU scheduler(), sched(),     *)
(* yield(), sleep() and wakeup(), under the spinlocks of kernel/spinlock.c,  *)
(* with the timer interrupt of kernel/trap.c and sys_sleep() of kernel/      *)
(* sysproc.c as waker and sleeper.  A CPU executes one context at a time:    *)
(* its scheduler or a process; an interrupt handler borrows it.  Each        *)
(* acquire() is a step of its own, enabled when the lock is free: a CPU      *)
(* that spins has interrupts off and does nothing else.  Signals other than  *)
(* SIGKILL are left to module Proc.                                          *)
(***************************************************************************)
EXTENDS Integers, FiniteSets, FiniteSetsExt

CONSTANTS NPROC,     \* process table slots
          NCPU,      \* CPUs; CPU 0 counts the ticks
          MaxTicks,  \* ticks in a behaviour ...
          Endless,   \* ... unless the timer goes on for ever
          TickMod,   \* ticks is an unsigned int: 2^32 in the code
          Tick0,     \* ticks when the behaviour starts
          MaxN,      \* longest sys_sleep()
          UserKills  \* kill() may hit a process while it executes user code

ASSUME SchedAssumption ==
    /\ NPROC \in Nat \ {0} /\ NCPU \in Nat \ {0}
    /\ Endless \in BOOLEAN /\ MaxTicks \in Nat /\ TickMod \in Nat /\ MaxN \in Nat
    /\ MaxN < TickMod /\ Tick0 \in 0..(TickMod - 1)
    /\ ~Endless => MaxTicks < TickMod
    /\ UserKills \in BOOLEAN

Procs == 1..NPROC     \* in table order
Cpus == 0..(NCPU - 1)
Scheduler == 0        \* on[c] when c runs scheduler()
Free == -1            \* a lock nobody holds

VARIABLES
    on,               \* the context each CPU executes
    idx,              \* scheduler()'s place in the process table
    irq,              \* the timer interrupt handler's place on each CPU
    unacked,          \* CPUs whose local APIC still waits for lapiceoi()
    ptlock, tickslock,\* the CPU that holds the lock
    state, sleeping,  \* p->state, and whether p->chan is &ticks
    killed,
    pc, ret,          \* each process: control, and where sched() returns to
    n, ticks0,        \* sys_sleep()'s argument and start
    ticks, left       \* the tick counter, and the ticks still to come

cpuVars == <<on, idx, irq, unacked>>
procVars == <<state, sleeping, killed>>
callVars == <<n, ticks0>>
tickVars == <<ticks, left>>
vars == <<cpuVars, ptlock, tickslock, procVars, pc, ret, callVars, tickVars>>

Init == /\ on = [c \in Cpus |-> Scheduler]
        /\ idx = [c \in Cpus |-> 1]
        /\ irq = [c \in Cpus |-> "none"]
        /\ unacked = {}
        /\ ptlock = Free /\ tickslock = Free
        /\ state = [p \in Procs |-> "RUNNABLE"]
        /\ sleeping = [p \in Procs |-> FALSE]
        /\ killed = [p \in Procs |-> FALSE]
        /\ pc = [p \in Procs |-> "resume"]
        /\ ret = [p \in Procs |-> "forkret"]
        /\ n = [p \in Procs |-> 0]
        /\ ticks = Tick0 /\ ticks0 = [p \in Procs |-> Tick0]
        /\ left = MaxTicks

Goto(p, l) == pc' = [pc EXCEPT ![p] = l]
ReleaseTicks == tickslock' = Free   \* release(&tickslock)

\* trap() looks at killed before it lets a process back to user code; a new process
\* gets there through forkret() and trapret, which do not.
ToUser(p, l) == IF l = "forkret" THEN "user"
                ELSE IF l = "user" /\ killed[p] THEN "exit" ELSE l
Elapsed(p) == (ticks - ticks0[p]) % TickMod

------------------------------------------------------------------------------
(* scheduler()                                                                *)

SchedulerAcquire(c) ==
    /\ on[c] = Scheduler /\ irq[c] = "none" /\ ptlock = Free
    /\ ptlock' = c
    /\ UNCHANGED <<cpuVars, tickslock, procVars, pc, ret, callVars, tickVars>>

Runnable(c) == {p \in Procs : p >= idx[c] /\ state[p] = "RUNNABLE"}

\* swtch() to the next runnable process; ptable.lock goes with it.
SchedulerRun(c) ==
    /\ on[c] = Scheduler /\ ptlock = c
    /\ Runnable(c) # {}
    /\ LET p == Min(Runnable(c))
       IN  /\ state' = [state EXCEPT ![p] = "RUNNING"]
           /\ on' = [on EXCEPT ![c] = p]
           /\ idx' = [idx EXCEPT ![c] = p + 1]
    /\ UNCHANGED <<irq, unacked, ptlock, tickslock, sleeping, killed, pc, ret, callVars, tickVars>>

SchedulerRelease(c) ==
    /\ on[c] = Scheduler /\ ptlock = c
    /\ Runnable(c) = {}
    /\ ptlock' = Free
    /\ idx' = [idx EXCEPT ![c] = 1]
    /\ UNCHANGED <<on, irq, unacked, tickslock, procVars, pc, ret, callVars, tickVars>>

SchedulerStep(c) == SchedulerAcquire(c) \/ SchedulerRun(c) \/ SchedulerRelease(c)

------------------------------------------------------------------------------
(* sched(), and what follows it in sleep(), yield() and forkret().            *)

Swtch(c, p) ==
    /\ pc[p] = "sched"
    /\ on' = [on EXCEPT ![c] = Scheduler]
    /\ Goto(p, "resume")
    /\ UNCHANGED <<idx, irq, unacked, ptlock, tickslock, procVars, ret, callVars, tickVars>>

Resume(c, p) ==
    /\ pc[p] = "resume"
    /\ sleeping' = [sleeping EXCEPT ![p] = FALSE]
    /\ ptlock' = Free
    /\ Goto(p, ToUser(p, ret[p]))
    /\ ret' = [ret EXCEPT ![p] = "user"]
    /\ UNCHANGED <<cpuVars, tickslock, state, killed, callVars, tickVars>>

------------------------------------------------------------------------------
(* sys_sleep(k)                                                               *)

CallSleep(c, p) ==
    /\ pc[p] = "user" /\ ~killed[p]
    /\ \E k \in 0..MaxN : n' = [n EXCEPT ![p] = k]
    /\ Goto(p, "acquire")
    /\ UNCHANGED <<cpuVars, ptlock, tickslock, procVars, ret, ticks0, tickVars>>

\* acquire(&tickslock), on entry and again after sleep(): interrupts go off, then
\* the CPU spins.
Pushcli(c, p) ==
    /\ pc[p] \in {"acquire", "reacquire"}
    /\ Goto(p, IF pc[p] = "acquire" THEN "spin" ELSE "respin")
    /\ UNCHANGED <<cpuVars, ptlock, tickslock, procVars, ret, callVars, tickVars>>

AcquireTicks(c, p) ==
    /\ pc[p] \in {"spin", "respin"} /\ tickslock = Free
    /\ tickslock' = c
    /\ ticks0' = [ticks0 EXCEPT ![p] = IF pc[p] = "spin" THEN ticks ELSE @]
    /\ Goto(p, "test")
    /\ UNCHANGED <<cpuVars, ptlock, procVars, ret, n, tickVars>>

\* The loop in sys_sleep() is over: time is up, or the process has been killed.
SleepOver_NoKill(p) == Elapsed(p) >= n[p]
SleepOver(p) == Elapsed(p) >= n[p] \/ killed[p]

SleepReturn(c, p) ==
    /\ pc[p] = "test"
    /\ SleepOver(p)
    /\ ReleaseTicks
    /\ Goto(p, ToUser(p, "user"))
    /\ n' = [n EXCEPT ![p] = 0] /\ ticks0' = [ticks0 EXCEPT ![p] = Tick0]   \* out of scope
    /\ UNCHANGED <<cpuVars, ptlock, procVars, ret, tickVars>>

SleepCall_Unlocked(c, p) ==
    /\ pc[p] = "test" /\ ~SleepOver(p)
    /\ ReleaseTicks
    /\ Goto(p, "sleep")
    /\ UNCHANGED <<cpuVars, ptlock, procVars, ret, callVars, tickVars>>
SleepCall(c, p) ==
    /\ pc[p] = "test" /\ ~SleepOver(p)
    /\ Goto(p, "sleep")
    /\ UNCHANGED <<cpuVars, ptlock, tickslock, procVars, ret, callVars, tickVars>>

\* sleep(): ptable.lock first, then the caller's lock is let go.
SleepAcquire(c, p) ==
    /\ pc[p] = "sleep" /\ ptlock = Free
    /\ ptlock' = c
    /\ Goto(p, "release")
    /\ UNCHANGED <<cpuVars, tickslock, procVars, ret, callVars, tickVars>>

SleepRelease(c, p) ==
    /\ pc[p] = "release"
    /\ ReleaseTicks
    /\ Goto(p, "gosleep")
    /\ UNCHANGED <<cpuVars, ptlock, procVars, ret, callVars, tickVars>>

GoSleep(c, p) ==
    /\ pc[p] = "gosleep"
    /\ state' = [state EXCEPT ![p] = "SLEEPING"]
    /\ sleeping' = [sleeping EXCEPT ![p] = TRUE]
    /\ Goto(p, "sched")
    /\ ret' = [ret EXCEPT ![p] = "reacquire"]
    /\ UNCHANGED <<cpuVars, ptlock, tickslock, killed, callVars, tickVars>>

------------------------------------------------------------------------------
(* kill() by a running process, and exit() of the one killed.                 *)

\* Only a sleeping process becomes runnable.
KillWake_Always(s) == "RUNNABLE"
KillWake(s) == IF s = "SLEEPING" THEN "RUNNABLE" ELSE s

Kill(c, p) ==
    /\ pc[p] = "user" /\ ~killed[p] /\ ptlock = Free
    /\ \E q \in Procs :
          /\ ~killed[q] /\ state[q] # "ZOMBIE"
          /\ q = p \/ UserKills \/ pc[q] # "user"
          /\ killed' = [killed EXCEPT ![q] = TRUE]
          /\ state' = [state EXCEPT ![q] = KillWake(@)]
          /\ Goto(p, IF q = p THEN "exit" ELSE "user")
    /\ UNCHANGED <<cpuVars, ptlock, tickslock, sleeping, ret, callVars, tickVars>>

\* A system call of a process that was killed in user code.
CallKilled(c, p) ==
    /\ pc[p] = "user" /\ killed[p]
    /\ Goto(p, "exit")
    /\ UNCHANGED <<cpuVars, ptlock, tickslock, procVars, ret, callVars, tickVars>>

Exit(c, p) ==
    /\ pc[p] = "exit" /\ ptlock = Free
    /\ ptlock' = c
    /\ state' = [state EXCEPT ![p] = "ZOMBIE"]
    /\ Goto(p, "sched")
    /\ UNCHANGED <<cpuVars, tickslock, sleeping, killed, ret, callVars, tickVars>>

------------------------------------------------------------------------------
(* The timer interrupt: trap() and yield().                                   *)

\* pushcli() keeps interrupts off while a lock is held or spun for.
Interruptible_Spin(c) ==
    irq[c] = "none" /\ \/ on[c] = Scheduler /\ ptlock # c
                       \/ on[c] # Scheduler /\ pc[on[c]] \in {"user", "acquire", "reacquire", "test"}
Interruptible(c) ==
    irq[c] = "none" /\ \/ on[c] = Scheduler /\ ptlock # c
                       \/ on[c] # Scheduler /\ pc[on[c]] \in {"user", "acquire", "reacquire"}

InUser(c) == on[c] # Scheduler /\ pc[on[c]] = "user"
Irq(c, from, to) == irq[c] = from /\ irq' = [irq EXCEPT ![c] = to]

TimerIntr(c) ==
    /\ Interruptible(c) /\ c \notin unacked
    /\ ~(InUser(c) /\ killed[on[c]])
    /\ Irq(c, "none", IF c = 0 /\ left > 0 THEN "tick" ELSE "yield")
    /\ UNCHANGED <<on, idx, unacked, ptlock, tickslock, procVars, pc, ret, callVars, tickVars>>

\* The first test in trap(): exit() does not return, so lapiceoi() is not called.
TimerExit(c) ==
    /\ Interruptible(c) /\ c \notin unacked
    /\ InUser(c) /\ killed[on[c]]
    /\ unacked' = unacked \cup {c}
    /\ Goto(on[c], "exit")
    /\ UNCHANGED <<on, idx, irq, ptlock, tickslock, procVars, ret, callVars, tickVars>>

NextTick(t) == (t + 1) % TickMod

Tick(c) ==
    /\ Irq(c, "tick", "wakeup") /\ tickslock = Free
    /\ tickslock' = c
    /\ ticks' = NextTick(ticks)
    /\ left' = IF Endless THEN left ELSE left - 1
    /\ UNCHANGED <<on, idx, unacked, ptlock, procVars, pc, ret, callVars>>

\* wakeup(&ticks): acquire, wakeup1, release.
WakeupTicks(c) ==
    /\ Irq(c, "wakeup", "release") /\ ptlock = Free
    /\ state' = [p \in Procs |-> IF state[p] = "SLEEPING" /\ sleeping[p]
                                 THEN "RUNNABLE" ELSE state[p]]
    /\ UNCHANGED <<on, idx, unacked, ptlock, tickslock, sleeping, killed, pc, ret, callVars, tickVars>>

TickRelease(c) ==
    /\ Irq(c, "release", "yield")
    /\ ReleaseTicks
    /\ UNCHANGED <<on, idx, unacked, ptlock, procVars, pc, ret, callVars, tickVars>>

\* trap() after the switch statement: no process, one to exit or one to preempt.
IntrReturn(c) ==
    /\ on[c] = Scheduler
    /\ Irq(c, "yield", "none")
    /\ UNCHANGED <<on, idx, unacked, ptlock, tickslock, procVars, pc, ret, callVars, tickVars>>

IntrExit(c) ==
    /\ InUser(c) /\ killed[on[c]]
    /\ Irq(c, "yield", "none")
    /\ Goto(on[c], "exit")
    /\ UNCHANGED <<on, idx, unacked, ptlock, tickslock, procVars, ret, callVars, tickVars>>

Yield(c) ==
    /\ on[c] # Scheduler /\ ~(InUser(c) /\ killed[on[c]]) /\ ptlock = Free
    /\ Irq(c, "yield", "none")
    /\ ptlock' = c
    /\ state' = [state EXCEPT ![on[c]] = "RUNNABLE"]
    /\ Goto(on[c], "sched")
    /\ ret' = [ret EXCEPT ![on[c]] = pc[on[c]]]
    /\ UNCHANGED <<on, idx, unacked, tickslock, sleeping, killed, callVars, tickVars>>

Timer(c) == TimerIntr(c) \/ TimerExit(c)
IntrStep(c) == \/ Tick(c) \/ WakeupTicks(c) \/ TickRelease(c)
               \/ IntrReturn(c) \/ IntrExit(c) \/ Yield(c)

------------------------------------------------------------------------------
\* What the kernel does by itself, and what user code asks for.
KernelStep(c, p) ==
    /\ on[c] = p /\ irq[c] = "none"
    /\ \/ Swtch(c, p) \/ Resume(c, p)
       \/ Pushcli(c, p) \/ AcquireTicks(c, p) \/ SleepReturn(c, p) \/ SleepCall(c, p)
       \/ SleepAcquire(c, p) \/ SleepRelease(c, p) \/ GoSleep(c, p)
       \/ Exit(c, p)

UserStep(c, p) ==
    /\ on[c] = p /\ irq[c] = "none"
    /\ CallSleep(c, p) \/ Kill(c, p) \/ CallKilled(c, p)

KernelSteps(c) == \E p \in Procs : KernelStep(c, p)
UserSteps(c) == \E p \in Procs : UserStep(c, p)

Next == \E c \in Cpus : \/ SchedulerStep(c) \/ KernelSteps(c) \/ UserSteps(c)
                        \/ Timer(c) \/ IntrStep(c)

\* A CPU keeps executing, a free lock is taken in the end, and there is time for
\* the interrupted code between two interrupts, to reach pushcli() too; a latched timer interrupt is
\* delivered once interrupts are on again.
Fairness == /\ \A c \in Cpus : /\ SF_vars(SchedulerStep(c) \/ KernelSteps(c))
                               /\ SF_vars(IntrStep(c)) /\ SF_vars(Timer(c))
            /\ \A p \in Procs : SF_vars(\E c \in Cpus : /\ on[c] = p /\ irq[c] = "none"
                                                      /\ Pushcli(c, p))

Spec == Init /\ [][Next]_vars
FairSpec == Spec /\ Fairness

------------------------------------------------------------------------------
(* Properties                                                                 *)

\* No two CPUs execute on one kernel stack: a process that gave up its CPU is not
\* dispatched again before swtch() has saved its context.
OneCpuPerProcess ==
    \A c, d \in Cpus : on[c] = on[d] /\ on[c] # Scheduler => c = d

\* With ptable.lock free, p->state is the truth: RUNNING exactly when some CPU
\* executes the process, and otherwise its saved context waits in sched().
StateIsTruth ==
    ptlock = Free => \A p \in Procs :
        /\ state[p] = "RUNNING" <=> \E c \in Cpus : on[c] = p
        /\ state[p] # "RUNNING" => pc[p] = "resume"

\* sched() is entered with ptable.lock and no other lock held ("Must hold only
\* ptable.lock"): its panics are not reached.
SchedHoldsOnlyPtableLock ==
    \A c \in Cpus : on[c] # Scheduler /\ pc[on[c]] = "sched" =>
        ptlock = c /\ tickslock # c /\ state[on[c]] # "RUNNING"

\* Processes switch safely, wherever ticks, wakeups and kills come between the steps of
\* sched(), sleep() and the scheduler: the three statements above.
SwitchIsSafe == OneCpuPerProcess /\ StateIsTruth /\ SchedHoldsOnlyPtableLock

\* A handler never spins for a lock that the code it interrupted holds.
HandlerNeverSelfDeadlocks ==
    \A c \in Cpus : /\ irq[c] = "tick" => tickslock # c
                    /\ irq[c] \in {"wakeup", "yield"} => ptlock # c

\* No lost wakeup: a process still SLEEPING in sys_sleep() although its time is up
\* is about to be woken, by the handler that has just counted the tick.
NoMissedTick == \A p \in Procs :
    state[p] = "SLEEPING" /\ Elapsed(p) >= n[p] => \E c \in Cpus : irq[c] = "wakeup"

\* A killed process exits, wherever it was when it was killed: kill() may miss a
\* process on its way into sleep(), but then the next tick wakes it.  (The ticks
\* of a CPU stop once a process has exited on it from the timer interrupt: trap() then
\* calls exit() before lapiceoi(), and no clock tick makes a process yield there.)
KilledExits == \A p \in Procs : []<>(killed[p] => state[p] = "ZOMBIE" \/ unacked # {})
==============================================================================
