---------------------------- MODULE SchedProofs ----------------------------
(***************************************************************************)
(* Proofs about context switches for any number of processes and CPUs.  The *)
(* invariant says of each CPU which of the two locks it holds, from what it  *)
(* executes and where its handler is; of each process that it waits in       *)
(* sched() while no CPU executes it; and of each sleeper that its time is    *)
(* not up, or that the handler which counted the tick has yet to wake it.    *)
(***************************************************************************)
EXTENDS Sched, WellFoundedInduction, TLAPS

\* Steps that need arithmetic or the theory of functions cite SMT.
USE ZenonT(30)

Labels == {"user", "acquire", "spin", "test", "sleep", "release", "gosleep", "sched",
           "resume", "reacquire", "respin", "exit"}
Open == {"user", "acquire", "reacquire"}            \* interrupts are on
Rets == Open \cup {"forkret"}
WithPtlock == {"resume", "release", "gosleep", "sched"}
WithTickslock == {"test", "sleep", "release"}

TypeOK ==
    /\ on \in [Cpus -> Procs \cup {Scheduler}]
    /\ idx \in [Cpus -> Nat]
    /\ irq \in [Cpus -> {"none", "tick", "wakeup", "release", "yield"}]
    /\ ptlock \in Cpus \cup {Free} /\ tickslock \in Cpus \cup {Free}
    /\ state \in [Procs -> {"RUNNABLE", "RUNNING", "SLEEPING", "ZOMBIE"}]
    /\ sleeping \in [Procs -> BOOLEAN] /\ killed \in [Procs -> BOOLEAN]
    /\ pc \in [Procs -> Labels] /\ ret \in [Procs -> Rets]
    /\ n \in [Procs -> Int] /\ ticks0 \in [Procs -> Int] /\ ticks \in Int

\* A process that no CPU executes has its context saved in sched().
OffInv == \A p \in Procs :
    (\A c \in Cpus : on[c] # p) => pc[p] = "resume" /\ state[p] # "RUNNING"

\* The locks a CPU holds; a handler has come where interrupts were on.
CpuOK(c) ==
    /\ on[c] # Scheduler => /\ state[on[c]] = "RUNNING" <=> pc[on[c]] # "sched"
                            /\ ptlock = c <=> pc[on[c]] \in WithPtlock
    /\ tickslock = c <=> \/ irq[c] \in {"wakeup", "release"}
                         \/ on[c] # Scheduler /\ pc[on[c]] \in WithTickslock
    /\ irq[c] # "none" => IF on[c] = Scheduler THEN ptlock # c ELSE pc[on[c]] \in Open

Waking == \E c \in Cpus : irq[c] = "wakeup"
Late(p) == Elapsed(p) >= n[p]

\* Who is to sleep has looked at the ticks under tickslock, and keeps that lock until it
\* has ptable.lock; so a tick that comes later finds it asleep.
SleepOK(p) ==
    /\ state[p] = "SLEEPING" => sleeping[p]
    /\ pc[p] \in {"sleep", "release"} => ~Late(p)
    /\ pc[p] = "gosleep" \/ state[p] = "SLEEPING" => ~Late(p) \/ Waking

IInv == /\ TypeOK /\ OneCpuPerProcess /\ OffInv
        /\ \A c \in Cpus : CpuOK(c)
        /\ \A p \in Procs : SleepOK(p)

-----------------------------------------------------------------------------
\* The process that scheduler() finds is one of those it looks for.
LEMMA MinIn == ASSUME NEW S \in SUBSET Procs, S # {} PROVE Min(S) \in S
<1> DEFINE R == OpToRel(<, Nat)
<1>1. S \subseteq Nat
  BY SMTT(30) DEF Procs
<1>2. PICK m \in S : \A k \in S : ~(<<k, m>> \in R)
  <2> HIDE DEF R
  <2>1. IsWellFoundedOn(R, Nat)
    BY NatLessThanWellFounded DEF R
  <2> QED
    BY <1>1, <2>1, WFMin
<1>3. \A k \in S : m <= k
  <2>1. R = {ss \in Nat \X Nat : ss[1] < ss[2]}
    BY DEF OpToRel, R
  <2>2. ASSUME NEW k \in S, k < m PROVE <<k, m>> \in R
    <3> HIDE DEF R
    <3>1. <<k, m>> \in Nat \X Nat
      BY <1>1
    <3> QED
      BY <2>1, <2>2, <3>1
  <2>3. \A k \in S : ~(k < m)
    <3> HIDE DEF R
    <3> QED
      BY <1>2, <2>2
  <2> QED
    BY SMTT(30), <1>1, <2>3
<1> QED
  BY <1>3 DEF Min

LEMMA Names == Scheduler \notin Procs /\ Free \notin Cpus /\ Procs \subseteq Nat
BY SMTT(30) DEF Scheduler, Free, Procs, Cpus

\* A step that leaves the contexts where they are disturbs only its own CPU and the
\* process there.
LEMMA PlaceStep ==
  ASSUME IInv, NEW c \in Cpus, on' = on,
         \A d \in Cpus \ {c} : /\ irq'[d] = irq[d]
                               /\ ptlock' = d <=> ptlock = d
                               /\ tickslock' = d <=> tickslock = d,
         \A q \in Procs : q # on[c] => /\ pc'[q] = pc[q]
                                       /\ state'[q] = "RUNNING" <=> state[q] = "RUNNING",
         CpuOK(c)'
  PROVE  OneCpuPerProcess' /\ OffInv' /\ \A d \in Cpus : CpuOK(d)'
<1>1. OneCpuPerProcess'
  BY DEF IInv, OneCpuPerProcess
<1>2. OffInv'
  BY DEF IInv, OffInv
<1>3. ASSUME NEW d \in Cpus, d # c PROVE CpuOK(d)'
  <2>1. CpuOK(d) /\ on'[d] = on[d] /\ irq'[d] = irq[d]
    BY <1>3 DEF IInv
  <2>2. (ptlock' = d <=> ptlock = d) /\ (tickslock' = d <=> tickslock = d)
    BY <1>3
  <2>3. ASSUME on[d] # Scheduler
        PROVE  pc'[on[d]] = pc[on[d]] /\ (state'[on[d]] = "RUNNING" <=> state[on[d]] = "RUNNING")
    BY SMTT(30), <1>3, <2>3 DEF IInv, TypeOK, OneCpuPerProcess
  <2> QED
    BY <2>1, <2>2, <2>3 DEF CpuOK
<1> QED
  BY <1>1, <1>2, <1>3

LEMMA SleepStep ==
  ASSUME IInv, NEW p, ticks' = ticks, Waking => Waking',
         \A q \in Procs : q # p => /\ pc'[q] = pc[q] /\ n'[q] = n[q] /\ ticks0'[q] = ticks0[q]
                                   /\ sleeping'[q] = sleeping[q]
                                   /\ state'[q] = "SLEEPING" => state[q] = "SLEEPING",
         p \in Procs => SleepOK(p)'
  PROVE  \A q \in Procs : SleepOK(q)'
<1> SUFFICES ASSUME NEW q \in Procs, q # p PROVE SleepOK(q)'
  OBVIOUS
<1>1. Late(q)' <=> Late(q)
  BY DEF Late, Elapsed
<1>2. SleepOK(q)
  BY DEF IInv
<1> QED
  BY <1>1, <1>2 DEF SleepOK

-----------------------------------------------------------------------------
(* A process in the kernel or in user code, between interrupts               *)

Mine(c, p) == /\ on[c] = p /\ irq[c] = "none"
              /\ state[p] = "RUNNING" <=> pc[p] # "sched"
              /\ ptlock = c <=> pc[p] \in WithPtlock
              /\ tickslock = c <=> pc[p] \in WithTickslock
              /\ SleepOK(p)

LEMMA IsMine ==
  ASSUME IInv, NEW c \in Cpus, NEW p \in Procs, on[c] = p, irq[c] = "none"
  PROVE  Mine(c, p)
BY Names DEF IInv, CpuOK, Mine

\* What such a step of p on c leaves to others.
Apart(c, p) ==
    /\ on' = on /\ irq' = irq /\ ticks' = ticks
    /\ \A d \in Cpus \ {c} : /\ ptlock' = d <=> ptlock = d
                             /\ tickslock' = d <=> tickslock = d
    /\ \A q \in Procs \ {p} : /\ pc'[q] = pc[q] /\ n'[q] = n[q] /\ ticks0'[q] = ticks0[q]
                              /\ sleeping'[q] = sleeping[q]
                              /\ state'[q] = "RUNNING" <=> state[q] = "RUNNING"
                              /\ state'[q] = "SLEEPING" => state[q] = "SLEEPING"

LEMMA ProcStep ==
  ASSUME IInv, TypeOK', NEW c \in Cpus, NEW p \in Procs, Apart(c, p), Mine(c, p)'
  PROVE  IInv'
<1>1. CpuOK(c)'
  BY Names DEF Mine, CpuOK
<1>2. SleepOK(p)' /\ on[c] = p
  BY DEF Mine, Apart
<1>3. OneCpuPerProcess' /\ OffInv' /\ \A d \in Cpus : CpuOK(d)'
  BY <1>1, <1>2, PlaceStep DEF Apart
<1>4. Waking => Waking'
  BY DEF Waking, Apart
<1>5. \A q \in Procs : SleepOK(q)'
  BY SMTT(30), <1>2, <1>4, SleepStep DEF Apart
<1> QED
  BY <1>3, <1>5 DEF IInv

\* Steps that move p, and take or release locks, but change no state of a process.
LEMMA MoveInv ==
  ASSUME IInv, NEW c \in Cpus, NEW p \in Procs, on[c] = p, irq[c] = "none",
         \/ Resume(c, p) \/ Pushcli(c, p) \/ SleepCall(c, p) \/ SleepAcquire(c, p)
         \/ SleepRelease(c, p) \/ CallKilled(c, p)
  PROVE  IInv'
<1> USE DEF Goto, ReleaseTicks, cpuVars, procVars, callVars, tickVars
<1>1. /\ Mine(c, p) /\ UNCHANGED <<on, idx, irq, state, killed, n, ticks0, ticks>>
  BY IsMine DEF Resume, Pushcli, SleepCall, SleepAcquire, SleepRelease, CallKilled
<1>2. PICK l \in Labels : pc' = [pc EXCEPT ![p] = l]
  BY DEF Resume, ToUser, Pushcli, SleepCall, SleepAcquire, SleepRelease, CallKilled, IInv, TypeOK, Labels, Open, Rets
<1>3. TypeOK'
  <2>1. pc' \in [Procs -> Labels]
    BY <1>2 DEF IInv, TypeOK
  <2>2. ret' \in [Procs -> Rets] /\ sleeping' \in [Procs -> BOOLEAN]
    <3>1. /\ ret' = ret \/ ret' = [ret EXCEPT ![p] = "user"]
          /\ sleeping' = sleeping \/ sleeping' = [sleeping EXCEPT ![p] = FALSE]
      BY DEF Resume, Pushcli, SleepCall, SleepAcquire, SleepRelease, CallKilled
    <3>2. ret \in [Procs -> Rets] /\ sleeping \in [Procs -> BOOLEAN] /\ "user" \in Rets
      BY DEF IInv, TypeOK, Open, Rets
    <3> QED
      BY <3>1, <3>2
  <2>3. ptlock' \in Cpus \cup {Free} /\ tickslock' \in Cpus \cup {Free}
    BY DEF Resume, Pushcli, SleepCall, SleepAcquire, SleepRelease, CallKilled, IInv, TypeOK
  <2> QED
    BY <1>1, <2>1, <2>2, <2>3 DEF IInv, TypeOK
<1>4. pc'[p] = l /\ \A q \in Procs \ {p} : pc'[q] = pc[q]
  BY <1>2 DEF IInv, TypeOK
<1>5. \A q \in Procs \ {p} : sleeping'[q] = sleeping[q]
  BY DEF Resume, Pushcli, SleepCall, SleepAcquire, SleepRelease, CallKilled, IInv, TypeOK
<1>6. \A d \in Cpus \ {c} : (ptlock' = d <=> ptlock = d) /\ (tickslock' = d <=> tickslock = d)
  BY <1>1, Names DEF Mine, Resume, Pushcli, SleepCall, SleepAcquire, SleepRelease, CallKilled, WithPtlock, WithTickslock
<1>7. Apart(c, p)
  BY <1>1, <1>4, <1>5, <1>6 DEF Apart
<1>8. /\ pc[p] # "sched" /\ pc'[p] # "sched"
      /\ ptlock' = c <=> pc'[p] \in WithPtlock
      /\ tickslock' = c <=> pc'[p] \in WithTickslock
  <2>1. CASE Resume(c, p)
    <3>1. l \in Open \cup {"exit"}
      BY SMTT(30), <1>2, <1>4, <2>1 DEF Resume, ToUser, IInv, TypeOK, Open, Rets
    <3> QED
      BY <1>1, <1>4, <2>1, <3>1, Names DEF Resume, Mine, Open, WithPtlock, WithTickslock
  <2>2. CASE Pushcli(c, p)
    BY <1>1, <1>4, <2>2 DEF Pushcli, Mine, WithPtlock, WithTickslock, IInv, TypeOK
  <2>3. CASE SleepCall(c, p) \/ CallKilled(c, p)
    BY <1>1, <1>4, <2>3 DEF SleepCall, CallKilled, Mine, WithPtlock, WithTickslock, IInv, TypeOK
  <2>4. CASE SleepAcquire(c, p) \/ SleepRelease(c, p)
    BY SMTT(30), <1>1, <1>4, <2>4, Names DEF SleepAcquire, SleepRelease, Mine, WithPtlock, WithTickslock, IInv, TypeOK
  <2> QED
    BY <2>1, <2>2, <2>3, <2>4
<1>9. SleepOK(p)'
  <2>1. Late(p)' <=> Late(p)
    BY <1>1 DEF Late, Elapsed
  <2>2. state'[p] = "RUNNING"
    BY <1>1, <1>8 DEF Mine
  <2>3. pc'[p] \in {"sleep", "release", "gosleep"} => ~Late(p)
    <3>1. ASSUME Resume(c, p) \/ Pushcli(c, p) \/ CallKilled(c, p)
          PROVE  pc'[p] \notin {"sleep", "release", "gosleep"}
      BY <1>4, <3>1 DEF Resume, ToUser, Pushcli, CallKilled, IInv, TypeOK, Open, Rets
    <3>2. ASSUME SleepCall(c, p) PROVE ~Late(p)
      BY <3>2 DEF SleepCall, SleepOver, Late
    <3>3. ASSUME SleepAcquire(c, p) \/ SleepRelease(c, p) PROVE ~Late(p)
      BY <1>1, <3>3 DEF Mine, SleepOK, SleepAcquire, SleepRelease
    <3> QED
      BY <3>1, <3>2, <3>3
  <2> QED
    BY <2>1, <2>2, <2>3 DEF SleepOK
<1>10. Mine(c, p)'
  BY <1>1, <1>8, <1>9 DEF Mine
<1> QED
  BY <1>3, <1>7, <1>10, ProcStep

\* Steps of sys_sleep() that set its argument or its start.
LEMMA TimeInv ==
  ASSUME IInv, NEW c \in Cpus, NEW p \in Procs, on[c] = p, irq[c] = "none",
         CallSleep(c, p) \/ AcquireTicks(c, p) \/ SleepReturn(c, p)
  PROVE  IInv'
<1> USE DEF Goto, ReleaseTicks, cpuVars, procVars, callVars, tickVars
<1>1. Mine(c, p) /\ UNCHANGED <<on, idx, irq, ptlock, state, sleeping, killed, ret, ticks>>
  BY IsMine DEF CallSleep, AcquireTicks, SleepReturn
<1>2. PICK l \in {"acquire", "test", "user", "exit"} : pc' = [pc EXCEPT ![p] = l]
  BY DEF CallSleep, AcquireTicks, SleepReturn, ToUser
<1>3. (\E i \in Int : n' = [n EXCEPT ![p] = i]) \/ n' = n
  <2>1. ASSUME CallSleep(c, p) PROVE \E i \in Int : n' = [n EXCEPT ![p] = i]
    <3>1. PICK k \in 0..MaxN : n' = [n EXCEPT ![p] = k]
      BY <2>1 DEF CallSleep
    <3>2. k \in Int
      BY SMTT(30), SchedAssumption
    <3> QED
      BY <3>1, <3>2
  <2>2. ASSUME SleepReturn(c, p) PROVE \E i \in Int : n' = [n EXCEPT ![p] = i]
    <3>1. n' = [n EXCEPT ![p] = 0] /\ 0 \in Int
      BY SMTT(30), <2>2 DEF SleepReturn
    <3> QED
      BY <3>1
  <2> QED
    BY <2>1, <2>2 DEF AcquireTicks
<1>4. (\E i \in Int : ticks0' = [ticks0 EXCEPT ![p] = i]) \/ ticks0' = ticks0
  <2>1. ASSUME AcquireTicks(c, p) PROVE \E i \in Int : ticks0' = [ticks0 EXCEPT ![p] = i]
    <3>1. ticks0' = [ticks0 EXCEPT ![p] = IF pc[p] = "spin" THEN ticks ELSE ticks0[p]]
      BY <2>1 DEF AcquireTicks
    <3>2. (IF pc[p] = "spin" THEN ticks ELSE ticks0[p]) \in Int
      BY DEF IInv, TypeOK
    <3> QED
      BY <3>1, <3>2
  <2>2. ASSUME SleepReturn(c, p) PROVE \E i \in Int : ticks0' = [ticks0 EXCEPT ![p] = i]
    <3>1. ticks0' = [ticks0 EXCEPT ![p] = Tick0] /\ Tick0 \in Int
      BY SMTT(30), <2>2, SchedAssumption DEF SleepReturn
    <3> QED
      BY <3>1
  <2> QED
    BY <2>1, <2>2 DEF CallSleep
<1>5. /\ n' \in [Procs -> Int] /\ ticks0' \in [Procs -> Int]
      /\ \A q \in Procs \ {p} : n'[q] = n[q] /\ ticks0'[q] = ticks0[q]
  BY SMTT(30), <1>3, <1>4 DEF IInv, TypeOK
<1>6. /\ pc' \in [Procs -> Labels] /\ pc'[p] = l
      /\ \A q \in Procs \ {p} : pc'[q] = pc[q]
  BY <1>2 DEF IInv, TypeOK, Labels
<1>7. tickslock' \in Cpus \cup {Free}
  BY DEF CallSleep, AcquireTicks, SleepReturn, IInv, TypeOK
<1>8. TypeOK'
  BY <1>1, <1>5, <1>6, <1>7 DEF IInv, TypeOK
<1>9. \A d \in Cpus \ {c} : tickslock' = d <=> tickslock = d
  BY <1>1, Names DEF Mine, CallSleep, AcquireTicks, SleepReturn, WithTickslock
<1>10. Apart(c, p)
  BY <1>1, <1>5, <1>6, <1>9 DEF Apart
<1>11. pc[p] # "sched" /\ pc[p] \notin WithPtlock /\ l \notin WithPtlock /\ l # "sched"
  BY DEF CallSleep, AcquireTicks, SleepReturn, WithPtlock
<1>12. tickslock' = c <=> l \in WithTickslock
  <2>1. CASE CallSleep(c, p)
    BY <1>1, <1>2, <1>6, <2>1 DEF CallSleep, Mine, WithTickslock, IInv, TypeOK
  <2>2. CASE AcquireTicks(c, p)
    BY <1>6, <2>2 DEF AcquireTicks, WithTickslock, IInv, TypeOK
  <2>3. CASE SleepReturn(c, p)
    <3>1. l \in {"user", "exit"}
      BY <1>6, <2>3 DEF SleepReturn, ToUser, IInv, TypeOK
    <3> QED
      BY <2>3, <3>1, Names DEF SleepReturn, WithTickslock
  <2> QED
    BY <2>1, <2>2, <2>3
<1>13. SleepOK(p)'
  <2>1. state'[p] = "RUNNING" /\ pc'[p] \notin {"sleep", "release", "gosleep"}
    BY <1>1, <1>6, <1>11 DEF Mine
  <2> QED
    BY <2>1 DEF SleepOK
<1>14. Mine(c, p)'
  BY <1>1, <1>6, <1>11, <1>12, <1>13 DEF Mine
<1> QED
  BY <1>8, <1>10, <1>14, ProcStep

\* sleep() and exit() take the process out of RUNNING, with ptable.lock held.
LEMMA StopInv ==
  ASSUME IInv, NEW c \in Cpus, NEW p \in Procs, on[c] = p, irq[c] = "none",
         GoSleep(c, p) \/ Exit(c, p)
  PROVE  IInv'
<1> USE DEF Goto, cpuVars, procVars, callVars, tickVars
<1>1. Mine(c, p) /\ UNCHANGED <<on, idx, irq, tickslock, killed, n, ticks0, ticks>>
  BY IsMine DEF GoSleep, Exit
<1>2. /\ pc' = [pc EXCEPT ![p] = "sched"] /\ ptlock' = c
      /\ state' = [state EXCEPT ![p] = IF pc[p] = "gosleep" THEN "SLEEPING" ELSE "ZOMBIE"]
  BY <1>1 DEF GoSleep, Exit, Mine, WithPtlock
<1>3. /\ sleeping' \in [Procs -> BOOLEAN]
      /\ \A q \in Procs \ {p} : sleeping'[q] = sleeping[q]
      /\ pc[p] = "gosleep" => sleeping'[p]
  BY DEF GoSleep, Exit, IInv, TypeOK
<1>4. /\ pc'[p] = "sched" /\ state'[p] = IF pc[p] = "gosleep" THEN "SLEEPING" ELSE "ZOMBIE"
      /\ \A q \in Procs \ {p} : pc'[q] = pc[q] /\ state'[q] = state[q]
  BY <1>2 DEF IInv, TypeOK
<1>5. TypeOK'
  <2>1. ret' \in [Procs -> Rets]
    <3>1. ret \in [Procs -> Rets] /\ "reacquire" \in Rets
      BY DEF IInv, TypeOK, Open, Rets
    <3> QED
      BY <3>1 DEF GoSleep, Exit
  <2> QED
    BY <1>1, <1>2, <1>3, <2>1 DEF IInv, TypeOK, Labels
<1>6. \A d \in Cpus \ {c} : ptlock' = d <=> ptlock = d
  BY <1>1, <1>2, Names DEF Mine, GoSleep, Exit, WithPtlock
<1>7. Apart(c, p)
  BY <1>1, <1>3, <1>4, <1>6 DEF Apart
<1>8. SleepOK(p)'
  <2>1. (Late(p)' <=> Late(p)) /\ (Waking' <=> Waking)
    BY <1>1 DEF Late, Elapsed, Waking
  <2>2. pc[p] = "gosleep" => ~Late(p) \/ Waking
    BY <1>1 DEF Mine, SleepOK
  <2> QED
    BY <1>3, <1>4, <2>1, <2>2 DEF SleepOK
<1>9. tickslock # c
  BY <1>1 DEF Mine, GoSleep, Exit, WithTickslock
<1>10. Mine(c, p)'
  BY SMTT(30), <1>1, <1>2, <1>4, <1>8, <1>9 DEF Mine, WithPtlock, WithTickslock
<1> QED
  BY <1>5, <1>7, <1>10, ProcStep

LEMMA KillInv ==
  ASSUME IInv, NEW c \in Cpus, NEW p \in Procs, on[c] = p, irq[c] = "none", Kill(c, p)
  PROVE  IInv'
<1> USE DEF cpuVars, callVars, tickVars
<1>1. Mine(c, p) /\ UNCHANGED <<on, idx, irq, ptlock, tickslock, sleeping, ret, n, ticks0, ticks>>
  BY IsMine DEF Kill
<1>2. PICK q \in Procs : /\ killed' = [killed EXCEPT ![q] = TRUE]
                         /\ state' = [state EXCEPT ![q] = KillWake(state[q])]
                         /\ pc' = [pc EXCEPT ![p] = IF q = p THEN "exit" ELSE "user"]
  BY DEF Kill, Goto
<1>3. pc[p] = "user" /\ state[p] = "RUNNING" /\ pc'[p] \in {"exit", "user"}
  BY <1>1, <1>2 DEF Kill, Mine, IInv, TypeOK
<1>4. TypeOK'
  <2>1. state' \in [Procs -> {"RUNNABLE", "RUNNING", "SLEEPING", "ZOMBIE"}]
    BY <1>2 DEF IInv, TypeOK, KillWake
  <2>2. pc' \in [Procs -> Labels] /\ killed' \in [Procs -> BOOLEAN]
    BY <1>2 DEF IInv, TypeOK, Labels
  <2> QED
    BY <1>1, <2>1, <2>2 DEF IInv, TypeOK
<1>5. \A r \in Procs : /\ state'[r] = "RUNNING" <=> state[r] = "RUNNING"
                       /\ state'[r] = "SLEEPING" => state[r] = "SLEEPING"
  BY <1>2 DEF IInv, TypeOK, KillWake
<1>6. \A r \in Procs \ {p} : pc'[r] = pc[r]
  BY <1>2 DEF IInv, TypeOK
<1>7. Apart(c, p)
  BY <1>1, <1>5, <1>6 DEF Apart
<1>8. SleepOK(p)'
  BY <1>3, <1>5 DEF SleepOK
<1>9. Mine(c, p)'
  BY <1>1, <1>3, <1>5, <1>8 DEF Mine, WithPtlock, WithTickslock
<1> QED
  BY <1>4, <1>7, <1>9, ProcStep

-----------------------------------------------------------------------------
(* The scheduler                                                            *)

LEMMA SwtchInv ==
  ASSUME IInv, NEW c \in Cpus, NEW p \in Procs, on[c] = p, irq[c] = "none", Swtch(c, p)
  PROVE  IInv'
<1>1. Mine(c, p) /\ UNCHANGED <<idx, irq, ptlock, tickslock, state, sleeping, killed, ret, n, ticks0, ticks>>
  BY IsMine DEF Swtch, procVars, callVars, tickVars
<1>2. pc[p] = "sched" /\ on' = [on EXCEPT ![c] = Scheduler] /\ pc' = [pc EXCEPT ![p] = "resume"]
  BY DEF Swtch, Goto
<1>3. TypeOK'
  BY <1>1, <1>2 DEF IInv, TypeOK, Labels
<1>4. /\ on'[c] = Scheduler /\ pc'[p] = "resume" /\ state[p] # "RUNNING"
      /\ \A d \in Cpus \ {c} : on'[d] = on[d] /\ on[d] # p
      /\ \A q \in Procs \ {p} : pc'[q] = pc[q]
  BY <1>1, <1>2, Names DEF Mine, IInv, TypeOK, OneCpuPerProcess
<1>5. OneCpuPerProcess'
  BY SMTT(30), <1>4 DEF IInv, OneCpuPerProcess
<1>6. OffInv'
  BY SMTT(30), <1>1, <1>4 DEF IInv, OffInv
<1>7. CpuOK(c)'
  BY <1>1, <1>2, <1>4 DEF Mine, CpuOK, WithTickslock
<1>8. ASSUME NEW d \in Cpus \ {c} PROVE CpuOK(d)'
  <2>1. CpuOK(d) /\ on'[d] = on[d] /\ (on[d] # Scheduler => pc'[on[d]] = pc[on[d]])
    BY SMTT(30), <1>4 DEF IInv, TypeOK
  <2> QED
    BY <1>1, <2>1 DEF CpuOK
<1>9. \A q \in Procs : SleepOK(q)'
  <2>1. SleepOK(p)'
    <3>1. (Late(p)' <=> Late(p)) /\ (Waking' <=> Waking)
      BY <1>1 DEF Late, Elapsed, Waking
    <3> QED
      BY <1>1, <1>4, <3>1 DEF Mine, SleepOK
  <2>2. Waking => Waking'
    BY <1>1 DEF Waking
  <2> QED
    BY <1>1, <1>4, <2>1, <2>2, SleepStep
<1> QED
  BY <1>3, <1>5, <1>6, <1>7, <1>8, <1>9 DEF IInv

LEMMA SchedulerRunInv == ASSUME IInv, NEW c \in Cpus, SchedulerRun(c) PROVE IInv'
<1>1. PICK p \in Procs : p = Min(Runnable(c)) /\ state[p] = "RUNNABLE"
  BY MinIn DEF SchedulerRun, Runnable
<1>2. /\ on[c] = Scheduler /\ ptlock = c
      /\ state' = [state EXCEPT ![p] = "RUNNING"] /\ on' = [on EXCEPT ![c] = p]
      /\ idx' = [idx EXCEPT ![c] = p + 1]
      /\ UNCHANGED <<irq, ptlock, tickslock, sleeping, killed, pc, ret, n, ticks0, ticks>>
  BY <1>1 DEF SchedulerRun, callVars, tickVars
<1>3. TypeOK'
  <2>1. idx' \in [Cpus -> Nat]
    BY SMTT(30), <1>1, <1>2, Names DEF IInv, TypeOK
  <2> QED
    BY <1>1, <1>2, <2>1 DEF IInv, TypeOK
<1>4. ASSUME NEW d \in Cpus PROVE on[d] # p
  <2>1. CpuOK(d)
    BY DEF IInv
  <2>2. d = c => on[d] # p
    BY <1>1, <1>2, Names
  <2>3. on[d] = p => pc[p] = "sched" /\ ptlock = d
    BY <1>1, <2>1, Names DEF CpuOK, WithPtlock
  <2> QED
    BY <1>2, <2>2, <2>3
<1>5. pc[p] = "resume"
  BY <1>1, <1>4 DEF IInv, OffInv
<1>6. /\ on'[c] = p /\ state'[p] = "RUNNING"
      /\ \A d \in Cpus \ {c} : on'[d] = on[d]
      /\ \A q \in Procs \ {p} : state'[q] = state[q]
  BY <1>1, <1>2 DEF IInv, TypeOK
<1>7. OneCpuPerProcess'
  BY SMTT(30), <1>4, <1>6 DEF IInv, OneCpuPerProcess
<1>8. OffInv'
  <2> SUFFICES ASSUME NEW q \in Procs, \A d \in Cpus : on'[d] # q
               PROVE  pc'[q] = "resume" /\ state'[q] # "RUNNING"
    BY DEF OffInv
  <2>1. q # p
    BY <1>6
  <2>2. \A d \in Cpus : on[d] # q
    BY <1>2, <1>6, Names
  <2>3. pc[q] = "resume" /\ state[q] # "RUNNING"
    BY <2>2 DEF IInv, OffInv
  <2> QED
    BY <1>2, <1>6, <2>1, <2>3
<1>9. CpuOK(c)'
  <2>1. CpuOK(c) /\ irq[c] = "none"
    BY <1>2 DEF IInv, CpuOK
  <2> QED
    BY <1>2, <1>5, <1>6, <2>1 DEF CpuOK, WithPtlock, WithTickslock
<1>10. ASSUME NEW d \in Cpus \ {c} PROVE CpuOK(d)'
  <2>1. CpuOK(d) /\ on'[d] = on[d] /\ (on[d] # Scheduler => state'[on[d]] = state[on[d]])
    BY SMTT(30), <1>4, <1>6 DEF IInv, TypeOK
  <2> QED
    BY <1>2, <2>1 DEF CpuOK
<1>11. \A q \in Procs : SleepOK(q)'
  <2>1. Waking => Waking'
    BY <1>2 DEF Waking
  <2>2. SleepOK(p)'
    <3>1. pc'[p] = "resume" /\ state'[p] = "RUNNING"
      BY <1>2, <1>5, <1>6
    <3> QED
      BY <3>1 DEF SleepOK
  <2> QED
    BY <1>2, <1>6, <2>1, <2>2, SleepStep
<1> QED
  BY <1>3, <1>7, <1>8, <1>9, <1>10, <1>11 DEF IInv

LEMMA SchedulerLockInv ==
  ASSUME IInv, NEW c \in Cpus, SchedulerAcquire(c) \/ SchedulerRelease(c)
  PROVE  IInv'
<1>1. /\ on[c] = Scheduler /\ irq[c] = "none" /\ idx' \in [Cpus -> Nat]
      /\ UNCHANGED <<on, irq, tickslock, state, sleeping, killed, pc, ret, n, ticks0, ticks>>
  <2>1. CpuOK(c)
    BY DEF IInv
  <2> QED
    BY SMTT(30), <2>1 DEF SchedulerAcquire, SchedulerRelease, cpuVars, procVars, callVars, tickVars, CpuOK, IInv, TypeOK
<1>2. ptlock' \in {c, Free} /\ ptlock \in {c, Free}
  BY DEF SchedulerAcquire, SchedulerRelease
<1>3. TypeOK'
  BY <1>1, <1>2 DEF IInv, TypeOK
<1>4. \A d \in Cpus \ {c} : ptlock' = d <=> ptlock = d
  BY <1>2, Names
<1>5. CpuOK(c)'
  BY <1>1 DEF IInv, CpuOK
<1>6. OneCpuPerProcess' /\ OffInv' /\ \A d \in Cpus : CpuOK(d)'
  BY <1>1, <1>4, <1>5, PlaceStep
<1>7. Waking => Waking'
  BY <1>1 DEF Waking
<1>8. \A q \in Procs : SleepOK(q)'
  BY <1>1, <1>7, SleepStep, Names
<1> QED
  BY <1>3, <1>6, <1>8 DEF IInv

-----------------------------------------------------------------------------
(* The timer interrupt                                                      *)

\* Steps of a handler that leave the processes alone.
LEMMA HandlerInv ==
  ASSUME IInv, NEW c \in Cpus, TimerIntr(c) \/ TickRelease(c) \/ IntrReturn(c)
  PROVE  IInv'
<1> USE DEF procVars, callVars, tickVars, Irq, ReleaseTicks
<1>1. UNCHANGED <<on, idx, ptlock, state, sleeping, killed, pc, ret, n, ticks0, ticks>>
  BY DEF TimerIntr, TickRelease, IntrReturn
<1>2. PICK i \in {"none", "tick", "yield"} : irq' = [irq EXCEPT ![c] = i]
  BY DEF TimerIntr, TickRelease, IntrReturn
<1>3. irq'[c] = i /\ irq[c] # "wakeup" /\ \A d \in Cpus \ {c} : irq'[d] = irq[d]
  BY <1>2 DEF TimerIntr, TickRelease, IntrReturn, Interruptible, IInv, TypeOK
<1>4. CpuOK(c)
  BY DEF IInv
<1>5. /\ tickslock' \in Cpus \cup {Free}
      /\ \A d \in Cpus \ {c} : tickslock' = d <=> tickslock = d
      /\ tickslock' # c
  <2>1. CASE TickRelease(c)
    BY <1>4, <2>1, Names DEF TickRelease, CpuOK
  <2>2. CASE TimerIntr(c)
    BY <1>4, <2>2 DEF TimerIntr, Interruptible, CpuOK, IInv, TypeOK, WithTickslock
  <2>3. CASE IntrReturn(c)
    BY <1>4, <2>3 DEF IntrReturn, CpuOK, IInv, TypeOK
  <2> QED
    BY <2>1, <2>2, <2>3
<1>6. TypeOK'
  BY <1>1, <1>2, <1>5 DEF IInv, TypeOK
<1>7. IF on[c] = Scheduler THEN ptlock # c ELSE pc[on[c]] \in Open
  <2>1. CASE TimerIntr(c)
    BY <2>1 DEF TimerIntr, Interruptible, Open
  <2>2. CASE TickRelease(c) \/ IntrReturn(c)
    BY <1>4, <2>2 DEF TickRelease, IntrReturn, CpuOK
  <2> QED
    BY <2>1, <2>2
<1>8. CpuOK(c)'
  BY <1>1, <1>3, <1>4, <1>5, <1>7 DEF CpuOK, Open, WithTickslock
<1>9. OneCpuPerProcess' /\ OffInv' /\ \A d \in Cpus : CpuOK(d)'
  BY <1>1, <1>3, <1>5, <1>8, PlaceStep
<1>10. Waking => Waking'
  BY <1>3 DEF Waking
<1>11. \A q \in Procs : SleepOK(q)'
  BY <1>1, <1>10, SleepStep, Names
<1> QED
  BY <1>6, <1>9, <1>11 DEF IInv

\* trap() sends the interrupted process to exit() or yield().
LEMMA TrapInv ==
  ASSUME IInv, NEW c \in Cpus, TimerExit(c) \/ IntrExit(c) \/ Yield(c)
  PROVE  IInv'
<1> USE DEF procVars, callVars, tickVars, Irq, Goto
<1>1. PICK p \in Procs : p = on[c]
  BY DEF TimerExit, IntrExit, Yield, InUser, IInv, TypeOK
<1>2. CpuOK(c) /\ UNCHANGED <<on, idx, tickslock, sleeping, killed, n, ticks0, ticks>>
  BY DEF IInv, TimerExit, IntrExit, Yield
<1>3. pc[p] \in Open /\ irq[c] \in {"none", "yield"} /\ tickslock # c /\ state[p] = "RUNNING"
  <2>1. CASE TimerExit(c) \/ IntrExit(c)
    BY <1>1, <1>2, <2>1, Names DEF TimerExit, IntrExit, Interruptible, InUser, CpuOK, Open, WithTickslock
  <2>2. CASE Yield(c)
    BY <1>1, <1>2, <2>2, Names DEF Yield, CpuOK, Open, WithTickslock
  <2> QED
    BY <2>1, <2>2
<1>4. /\ irq' \in [Cpus -> {"none", "tick", "wakeup", "release", "yield"}] /\ irq'[c] = "none"
      /\ \A d \in Cpus \ {c} : irq'[d] = irq[d]
  BY <1>3 DEF TimerExit, Interruptible, IntrExit, Yield, IInv, TypeOK
<1>5. \/ /\ pc' = [pc EXCEPT ![p] = "exit"] /\ UNCHANGED <<ptlock, state, ret>>
      \/ /\ pc' = [pc EXCEPT ![p] = "sched"] /\ ptlock = Free /\ ptlock' = c
         /\ state' = [state EXCEPT ![p] = "RUNNABLE"] /\ ret' = [ret EXCEPT ![p] = pc[p]]
  BY <1>1 DEF TimerExit, IntrExit, Yield
<1>6. TypeOK'
  <2>1. /\ pc' \in [Procs -> Labels] /\ ptlock' \in Cpus \cup {Free}
        /\ state' \in [Procs -> {"RUNNABLE", "RUNNING", "SLEEPING", "ZOMBIE"}]
    BY <1>5 DEF IInv, TypeOK, Labels
  <2>2. ret' \in [Procs -> Rets]
    BY <1>3, <1>5 DEF IInv, TypeOK, Rets
  <2> QED
    BY <1>2, <1>4, <2>1, <2>2 DEF IInv, TypeOK
<1>7. \A q \in Procs \ {p} : pc'[q] = pc[q] /\ state'[q] = state[q]
  BY <1>5 DEF IInv, TypeOK
<1>8. \A d \in Cpus \ {c} : ptlock' = d <=> ptlock = d
  BY <1>5, Names
<1>9. \/ pc'[p] = "exit" /\ ptlock' = ptlock /\ state'[p] = "RUNNING"
      \/ pc'[p] = "sched" /\ ptlock' = c /\ state'[p] = "RUNNABLE"
  BY <1>3, <1>5 DEF IInv, TypeOK
<1>10. CpuOK(c)'
  <2>1. ptlock # c
    BY <1>1, <1>2, <1>3, Names DEF CpuOK, Open, WithPtlock
  <2>2. on'[c] = p /\ p # Scheduler
    BY <1>1, <1>2, Names
  <2> QED
    BY <1>2, <1>3, <1>4, <1>9, <2>1, <2>2 DEF CpuOK, WithPtlock, WithTickslock
<1>11. OneCpuPerProcess' /\ OffInv' /\ \A d \in Cpus : CpuOK(d)'
  BY <1>1, <1>2, <1>4, <1>7, <1>8, <1>10, PlaceStep
<1>12. Waking => Waking'
  BY <1>3, <1>4 DEF Waking
<1>13. SleepOK(p)'
  BY <1>9 DEF SleepOK
<1>14. \A q \in Procs : SleepOK(q)'
  BY <1>2, <1>7, <1>12, <1>13, SleepStep
<1> QED
  BY <1>6, <1>11, <1>14 DEF IInv

\* The tick is counted under tickslock: nobody is between the test and the sleep.
LEMMA TickInv == ASSUME IInv, NEW c \in Cpus, Tick(c) PROVE IInv'
<1>1. /\ UNCHANGED <<on, idx, ptlock, state, sleeping, killed, pc, ret, n, ticks0>>
      /\ tickslock = Free /\ tickslock' = c /\ ticks' = (ticks + 1) % TickMod
      /\ irq[c] = "tick" /\ irq' = [irq EXCEPT ![c] = "wakeup"]
  BY DEF Tick, Irq, NextTick, procVars, callVars
<1>2. irq'[c] = "wakeup" /\ \A d \in Cpus \ {c} : irq'[d] = irq[d]
  BY <1>1 DEF IInv, TypeOK
<1>3. TypeOK'
  <2>1. ticks' \in Int
    BY SMTT(30), <1>1, SchedAssumption DEF IInv, TypeOK
  <2> QED
    BY <1>1, <2>1 DEF IInv, TypeOK
<1>4. CpuOK(c)'
  BY <1>1, <1>2 DEF IInv, CpuOK
<1>5. OneCpuPerProcess' /\ OffInv' /\ \A d \in Cpus : CpuOK(d)'
  <2>1. \A d \in Cpus \ {c} : tickslock' = d <=> tickslock = d
    BY <1>1, Names
  <2> QED
    BY <1>1, <1>2, <1>4, <2>1, PlaceStep
<1>6. ASSUME NEW q \in Procs PROVE pc[q] \notin {"sleep", "release"}
  <2>1. SUFFICES ASSUME pc[q] \in {"sleep", "release"} PROVE FALSE
    OBVIOUS
  <2>2. PICK d \in Cpus : on[d] = q
    BY <2>1 DEF IInv, OffInv
  <2>3. tickslock = d
    BY <2>1, <2>2, Names DEF IInv, CpuOK, WithTickslock
  <2> QED
    BY <1>1, <2>3, Names
<1>7. Waking'
  BY <1>2 DEF Waking
<1>8. \A q \in Procs : SleepOK(q)'
  BY <1>1, <1>6, <1>7 DEF IInv, SleepOK
<1> QED
  BY <1>3, <1>5, <1>8 DEF IInv

\* The handler has ptable.lock, so nobody is between the release of tickslock and the
\* sleep: whoever is asleep now is woken, and nobody else goes to sleep late.
LEMMA WakeupInv == ASSUME IInv, NEW c \in Cpus, WakeupTicks(c) PROVE IInv'
<1>1. /\ UNCHANGED <<on, idx, ptlock, tickslock, sleeping, killed, pc, ret, n, ticks0, ticks>>
      /\ ptlock = Free /\ irq[c] = "wakeup" /\ irq' = [irq EXCEPT ![c] = "release"]
      /\ state' = [p \in Procs |-> IF state[p] = "SLEEPING" /\ sleeping[p]
                                   THEN "RUNNABLE" ELSE state[p]]
  BY DEF WakeupTicks, Irq, callVars, tickVars
<1>2. irq'[c] = "release" /\ \A d \in Cpus \ {c} : irq'[d] = irq[d]
  BY <1>1 DEF IInv, TypeOK
<1>3. TypeOK'
  BY <1>1 DEF IInv, TypeOK
<1>4. \A q \in Procs : (state'[q] = "RUNNING" <=> state[q] = "RUNNING") /\ state'[q] # "SLEEPING"
  BY <1>1 DEF IInv, SleepOK
<1>5. CpuOK(c)'
  <2>1. CpuOK(c) /\ (on[c] # Scheduler => on[c] \in Procs)
    BY DEF IInv, TypeOK
  <2> QED
    BY <1>1, <1>2, <1>4, <2>1 DEF CpuOK
<1>6. OneCpuPerProcess' /\ OffInv' /\ \A d \in Cpus : CpuOK(d)'
  BY <1>1, <1>2, <1>4, <1>5, PlaceStep
<1>7. ASSUME NEW q \in Procs PROVE pc[q] # "gosleep"
  <2>1. SUFFICES ASSUME pc[q] = "gosleep" PROVE FALSE
    OBVIOUS
  <2>2. PICK d \in Cpus : on[d] = q
    BY <2>1 DEF IInv, OffInv
  <2>3. ptlock = d
    BY <2>1, <2>2, Names DEF IInv, CpuOK, WithPtlock
  <2> QED
    BY <1>1, <2>3, Names
<1>8. ASSUME NEW q \in Procs PROVE SleepOK(q)'
  <2>1. Late(q)' <=> Late(q)
    BY <1>1 DEF Late, Elapsed
  <2>2. SleepOK(q)
    BY DEF IInv
  <2> QED
    BY <1>1, <1>4, <1>7, <2>1, <2>2 DEF SleepOK
<1> QED
  BY <1>3, <1>6, <1>8 DEF IInv

-----------------------------------------------------------------------------
LEMMA InitInv == Init => IInv
<1> SUFFICES ASSUME Init PROVE IInv
  OBVIOUS
<1>1. TypeOK
  BY SMTT(30), SchedAssumption DEF Init, TypeOK, Labels, Open, Rets
<1>2. OneCpuPerProcess /\ OffInv
  BY DEF Init, OneCpuPerProcess, OffInv
<1>3. \A c \in Cpus : CpuOK(c)
  BY Names DEF Init, CpuOK
<1>4. \A p \in Procs : SleepOK(p)
  BY DEF Init, SleepOK
<1> QED
  BY <1>1, <1>2, <1>3, <1>4 DEF IInv

LEMMA NextInv == ASSUME IInv, [Next]_vars PROVE IInv'
<1>1. ASSUME UNCHANGED vars PROVE IInv'
  BY SMTT(30), <1>1 DEF vars, cpuVars, procVars, callVars, tickVars, IInv, TypeOK, OneCpuPerProcess, OffInv,
              CpuOK, SleepOK, Late, Elapsed, Waking
<1>2. ASSUME NEW c \in Cpus, SchedulerStep(c) PROVE IInv'
  BY <1>2, SchedulerRunInv, SchedulerLockInv DEF SchedulerStep
<1>3. ASSUME NEW c \in Cpus, NEW p \in Procs, KernelStep(c, p) PROVE IInv'
  BY <1>3, SwtchInv, MoveInv, TimeInv, StopInv DEF KernelStep
<1>4. ASSUME NEW c \in Cpus, NEW p \in Procs, UserStep(c, p) PROVE IInv'
  BY <1>4, MoveInv, TimeInv, KillInv DEF UserStep
<1>5. ASSUME NEW c \in Cpus, Timer(c) \/ IntrStep(c) PROVE IInv'
  BY <1>5, HandlerInv, TrapInv, TickInv, WakeupInv DEF Timer, IntrStep
<1> QED
  BY <1>1, <1>2, <1>3, <1>4, <1>5 DEF Next, KernelSteps, UserSteps

LEMMA Invariance == Spec => []IInv
BY InitInv, NextInv, PTL DEF Spec

\* For any number of processes and CPUs: no two CPUs execute one process, p->state tells
\* the truth whenever ptable.lock is free, and sched() is entered with that lock alone, so
\* that none of its panics is reached.
THEOREM SwitchSafe == Spec => []SwitchIsSafe
<1>1. ASSUME IInv PROVE StateIsTruth
  <2>1. ASSUME ptlock = Free, NEW p \in Procs, NEW c \in Cpus, on[c] = p PROVE state[p] = "RUNNING"
    BY <1>1, <2>1, Names DEF IInv, CpuOK, WithPtlock
  <2> QED
    BY <1>1, <2>1 DEF IInv, OffInv, StateIsTruth
<1>2. ASSUME IInv PROVE SchedHoldsOnlyPtableLock
  <2>1. ASSUME NEW c \in Cpus, on[c] # Scheduler, pc[on[c]] = "sched"
        PROVE  ptlock = c /\ tickslock # c /\ state[on[c]] # "RUNNING"
    BY <1>2, <2>1 DEF IInv, CpuOK, WithPtlock, WithTickslock, Open
  <2> QED
    BY <2>1 DEF SchedHoldsOnlyPtableLock
<1>3. IInv => SwitchIsSafe
  BY <1>1, <1>2 DEF IInv, SwitchIsSafe
<1> QED
  BY Invariance, <1>3, PTL

\* The timer's handler never spins for a lock that the code it interrupted holds, since
\* acquire() turns interrupts off before it takes the lock.
THEOREM HandlerSafe == Spec => []HandlerNeverSelfDeadlocks
<1>1. IInv => HandlerNeverSelfDeadlocks
  <2>1. ASSUME IInv, NEW c \in Cpus, irq[c] \in {"tick", "wakeup", "yield"} PROVE ptlock # c
    BY <2>1 DEF IInv, CpuOK, Open, WithPtlock
  <2>2. ASSUME IInv, NEW c \in Cpus, irq[c] = "tick" PROVE tickslock # c
    BY <2>2 DEF IInv, CpuOK, Open, WithTickslock
  <2> QED
    BY <2>1, <2>2 DEF HandlerNeverSelfDeadlocks
<1> QED
  BY Invariance, <1>1, PTL

\* No wakeup is lost between sys_sleep()'s look at ticks and its sleep(): a sleeper whose
\* time is up is about to be woken, though ticks wraps around and kill() wakes anybody.
THEOREM TickNotMissed == Spec => []NoMissedTick
<1>1. IInv => NoMissedTick
  BY DEF IInv, SleepOK, Late, Waking, NoMissedTick
<1> QED
  BY Invariance, <1>1, PTL
=============================================================================
