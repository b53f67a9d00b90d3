----------------------------- MODULE ProcProofs -----------------------------
(***************************************************************************)
(* The process table stays consistent for every size of the table and any   *)
(* number of forks: proof that TableConsistent is an invariant of Proc.      *)
(* None of its three statements is inductive: they need that a slot which    *)
(* fork() fills belongs to that fork() alone and has no children, that only  *)
(* wait() sleeps, and that pids in use are below nextpid.                    *)
(* At the end, what the checks on a process's system call arguments admit.   *)
(***************************************************************************)
EXTENDS Proc, Args, WellFoundedInduction, TLAPS

\* Steps that SMT leaves open cite Zenon.
USE SMTT(30)

States == {"UNUSED", "EMBRYO", "SLEEPING", "RUNNABLE", "ZOMBIE"}

TypeOK ==
    /\ state \in [Slots -> States]
    /\ pid \in [Slots -> Nat]
    /\ parent \in [Slots -> Slots \cup {Nobody}]
    /\ killed \in [Slots -> BOOLEAN]
    /\ pc \in [Slots -> {"user", "trap", "fork", "wait"}]
    /\ child \in [Slots -> Slots \cup {Nobody}]
    /\ nextpid \in Nat

\* Who is whose child.
TreeInv ==
    /\ Alive(Initproc) /\ parent[Initproc] = Nobody
    /\ \A s \in Slots : state[s] \in {"UNUSED", "EMBRYO"} => parent[s] = Nobody
    /\ \A s \in Slots \ {Initproc} :
          state[s] \in {"RUNNABLE", "SLEEPING", "ZOMBIE"} => parent[s] # Nobody
    /\ \A s \in Slots : parent[s] # Nobody => parent[s] # s /\ Alive(parent[s])

\* Where a process can be, and what fork() works on.
CallInv ==
    /\ \A s \in Slots : pc[s] # "user" => Alive(s)
    /\ \A s \in Slots : state[s] = "SLEEPING" => pc[s] = "wait"
    /\ \A p \in Slots : pc[p] = "fork" => child[p] \in Slots /\ state[child[p]] = "EMBRYO"
    /\ \A p, q \in Slots : pc[p] = "fork" /\ pc[q] = "fork" /\ child[p] = child[q] => p = q

PidInv ==
    /\ \A s \in Slots : state[s] # "UNUSED" => pid[s] # 0 /\ pid[s] < nextpid
    /\ nextpid > 0
    /\ PidsUnique

IInv == TypeOK /\ TreeInv /\ CallInv /\ PidInv /\ SleepingParentHasLiveChild

-----------------------------------------------------------------------------
\* The first slot that a loop over the table finds is one of those it looks for.
LEMMA MinIn == ASSUME NEW S \in SUBSET Slots, S # {} PROVE Min(S) \in S
<1> DEFINE R == OpToRel(<, Nat)
<1>1. S \subseteq Nat
  BY DEF Slots
<1>2. PICK n \in S : \A k \in S : ~(<<k, n>> \in R)
  <2> HIDE DEF R
  <2>1. IsWellFoundedOn(R, Nat)
    BY ZenonT(30), NatLessThanWellFounded DEF R
  <2> QED
    BY ZenonT(30), <1>1, <2>1, WFMin
<1>3. \A k \in S : n <= k
  <2>1. R = {ss \in Nat \X Nat : ss[1] < ss[2]}
    BY ZenonT(30) DEF OpToRel, R
  <2>2. ASSUME NEW k \in S, k < n PROVE <<k, n>> \in R
    <3> HIDE DEF R
    <3>1. <<k, n>> \in Nat \X Nat
      BY <1>1
    <3> QED
      BY <2>1, <2>2, <3>1
  <2>3. \A k \in S : ~(k < n)
    <3> HIDE DEF R
    <3> QED
      BY ZenonT(30), <1>2, <2>2
  <2> QED
    BY <1>1, <2>3
<1> QED
  BY <1>3 DEF Min

LEMMA SlotsNat == /\ Initproc \in Slots /\ Nobody \notin Slots /\ Initproc # Nobody
BY ProcAssumption DEF Slots, Initproc, Nobody

\* The invariant gives the property that the runs check.
LEMMA InvImplies == IInv => TableConsistent
BY DEF IInv, TreeInv, PidInv, TableConsistent, ParentCanWait, Alive

LEMMA InitInv == Init => IInv
<1> SUFFICES ASSUME Init PROVE IInv
  OBVIOUS
<1>1. TypeOK
  BY SlotsNat DEF Init, TypeOK, States
<1>2. TreeInv
  BY SlotsNat DEF Init, TreeInv, Alive
<1>3. CallInv
  BY DEF Init, CallInv
<1>4. PidInv
  BY SlotsNat DEF Init, PidInv, PidsUnique
<1>5. SleepingParentHasLiveChild
  BY DEF Init, SleepingParentHasLiveChild
<1> QED
  BY <1>1, <1>2, <1>3, <1>4, <1>5 DEF IInv

\* An interrupt may mark the process killed, and changes nothing else in the table.
LEMMA TrapInv == ASSUME IInv, NEW p \in Slots, Trap(p) \/ TrapReturn(p) PROVE IInv'
<1> USE SlotsNat DEF IInv
<1>1. /\ UNCHANGED <<state, pid, parent, child, nextpid>> /\ state[p] = "RUNNABLE"
      /\ \E l \in {"user", "trap"} : pc' = [pc EXCEPT ![p] = l]
      /\ pc[p] # "fork"
  BY DEF Trap, TrapReturn, InUser
<1>2. killed' \in [Slots -> BOOLEAN]
  BY ZenonT(30) DEF Trap, TrapReturn, TypeOK
<1>5. TypeOK'
  BY ZenonT(30), <1>1, <1>2 DEF TypeOK, States
<1>6. TreeInv'
  BY <1>1 DEF TypeOK, TreeInv, Alive
<1>7. CallInv'
  BY <1>1 DEF TypeOK, CallInv, Alive
<1>8. PidInv'
  BY <1>1 DEF TypeOK, PidInv, PidsUnique
<1>9. SleepingParentHasLiveChild'
  BY <1>1 DEF SleepingParentHasLiveChild, Children, Zombies
<1> QED
  BY <1>5, <1>6, <1>7, <1>8, <1>9 DEF IInv

\* allocproc() takes a slot nobody points to.
LEMMA AllocProcInv == ASSUME IInv, NEW p \in Slots, AllocProc(p) PROVE IInv'
<1> USE SlotsNat DEF IInv
<1> DEFINE s == Min(Unused)
<1>1. s \in Slots /\ state[s] = "UNUSED"
  BY MinIn DEF AllocProc, Unused
<1>2. /\ state[p] = "RUNNABLE" /\ pc[p] = "user"
      /\ state' = [state EXCEPT ![s] = "EMBRYO"]
      /\ pid' = [pid EXCEPT ![s] = nextpid]
      /\ child' = [child EXCEPT ![p] = s]
      /\ nextpid' = nextpid + 1
      /\ pc' = [pc EXCEPT ![p] = "fork"]
      /\ UNCHANGED <<parent, killed>>
  BY DEF AllocProc, InUser, Bump
<1> HIDE DEF s
<1>5. TypeOK'
  BY <1>1, <1>2 DEF TypeOK, States, Nobody
<1>6. TreeInv'
  BY <1>1, <1>2 DEF TypeOK, TreeInv, CallInv, Alive, Nobody
<1>7. CallInv'
  BY <1>1, <1>2 DEF TypeOK, TreeInv, CallInv, Alive, Nobody
<1>8. PidInv'
  BY <1>1, <1>2 DEF TypeOK, CallInv, PidInv, PidsUnique, Nobody
<1>9. SleepingParentHasLiveChild'
  BY <1>1, <1>2 DEF TypeOK, TreeInv, CallInv, SleepingParentHasLiveChild, Alive, Children, Zombies, Nobody
<1> QED
  BY <1>5, <1>6, <1>7, <1>8, <1>9 DEF IInv

\* A fork() that fails gives back the slot it took.
LEMMA ForkFailsInv == ASSUME IInv, NEW p \in Slots, ForkFails(p) PROVE IInv'
<1> USE SlotsNat DEF IInv
<1>5. TypeOK'
  BY ZenonT(30) DEF TypeOK, States, ForkFails, Nobody
<1>6. TreeInv'
  BY DEF TypeOK, TreeInv, CallInv, Alive, ForkFails, Nobody
<1>7. CallInv'
  BY DEF TypeOK, TreeInv, CallInv, Alive, ForkFails, Nobody
<1>8. PidInv'
  BY DEF TypeOK, CallInv, PidInv, PidsUnique, ForkFails, Nobody
<1>9. SleepingParentHasLiveChild'
  BY DEF TypeOK, TreeInv, CallInv, SleepingParentHasLiveChild, Alive, Children, Zombies, ForkFails, Nobody
<1> QED
  BY <1>5, <1>6, <1>7, <1>8, <1>9 DEF IInv

\* The child of a fork() that succeeds has its caller for a parent.
LEMMA ForkDoneInv == ASSUME IInv, NEW p \in Slots, ForkDone(p) PROVE IInv'
<1> USE SlotsNat DEF IInv
<1>5. TypeOK'
  BY ZenonT(30) DEF TypeOK, States, ForkDone, Nobody
<1>6. TreeInv'
  BY DEF TypeOK, TreeInv, CallInv, Alive, ForkDone, Nobody
<1>7. CallInv'
  BY DEF TypeOK, TreeInv, CallInv, Alive, ForkDone, Nobody
<1>8. PidInv'
  BY DEF TypeOK, CallInv, PidInv, PidsUnique, ForkDone, Nobody
<1>9. SleepingParentHasLiveChild'
  BY DEF TypeOK, TreeInv, CallInv, SleepingParentHasLiveChild, Alive, Children, Zombies, ForkDone, Nobody
<1> QED
  BY <1>5, <1>6, <1>7, <1>8, <1>9 DEF IInv

\* exit() hands the children to init and wakes whoever may have to reap.
LEMMA ExitInv == ASSUME IInv, NEW p \in Slots, Exit(p) PROVE IInv'
<1> USE SlotsNat DEF IInv
<1>5. TypeOK'
  BY DEF TypeOK, States, Exit, Reparent, WakeInit, Wakeup1, Children, Zombies
<1>6. TreeInv'
  BY DEF TypeOK, TreeInv, CallInv, Alive, Exit, Reparent, WakeInit, Wakeup1, Children, Zombies
<1>7. CallInv'
  BY DEF TypeOK, TreeInv, CallInv, Alive, Exit, Reparent, WakeInit, Wakeup1, Children, Zombies
<1>8. PidInv'
  BY DEF TypeOK, CallInv, PidInv, PidsUnique, Exit, Reparent, WakeInit, Wakeup1, Children, Zombies
<1>9. SleepingParentHasLiveChild'
  BY DEF TypeOK, TreeInv, CallInv, SleepingParentHasLiveChild, Alive, Children, Zombies, Exit, Reparent, WakeInit, Wakeup1, Children, Zombies
<1> QED
  BY <1>5, <1>6, <1>7, <1>8, <1>9 DEF IInv

\* wait() starts.
LEMMA WaitCallInv == ASSUME IInv, NEW p \in Slots, WaitCall(p) PROVE IInv'
<1> USE SlotsNat DEF IInv
<1>5. TypeOK'
  BY DEF TypeOK, States, WaitCall, InUser
<1>6. TreeInv'
  BY DEF TypeOK, TreeInv, CallInv, Alive, WaitCall, InUser
<1>7. CallInv'
  BY DEF TypeOK, TreeInv, CallInv, Alive, WaitCall, InUser
<1>8. PidInv'
  BY DEF TypeOK, CallInv, PidInv, PidsUnique, WaitCall, InUser
<1>9. SleepingParentHasLiveChild'
  BY DEF TypeOK, TreeInv, CallInv, SleepingParentHasLiveChild, Alive, Children, Zombies, WaitCall, InUser
<1> QED
  BY <1>5, <1>6, <1>7, <1>8, <1>9 DEF IInv

\* wait() frees the slot of a zombie, which has no children.
LEMMA WaitReapInv == ASSUME IInv, NEW p \in Slots, WaitReap(p) PROVE IInv'
<1> USE SlotsNat DEF IInv
<1> DEFINE z == Min(Zombies(p))
<1>1. z \in Slots /\ state[z] = "ZOMBIE" /\ parent[z] = p
  BY MinIn DEF WaitReap, Zombies, Children
<1>2. /\ state[p] = "RUNNABLE" /\ pc[p] = "wait"
      /\ state' = [state EXCEPT ![z] = "UNUSED"]
      /\ pid' = [pid EXCEPT ![z] = 0]
      /\ parent' = [parent EXCEPT ![z] = Nobody]
      /\ killed' = [killed EXCEPT ![z] = FALSE]
      /\ pc' = [pc EXCEPT ![p] = "user"]
      /\ UNCHANGED <<child, nextpid>>
  BY DEF WaitReap
<1> HIDE DEF z
<1>5. TypeOK'
  BY <1>1, <1>2 DEF TypeOK, States, Nobody
<1>6. TreeInv'
  BY <1>1, <1>2 DEF TypeOK, TreeInv, CallInv, Alive, Nobody
<1>7. CallInv'
  BY <1>1, <1>2 DEF TypeOK, TreeInv, CallInv, Alive, Nobody
<1>8. PidInv'
  BY <1>1, <1>2 DEF TypeOK, CallInv, PidInv, PidsUnique, Nobody
<1>9. SleepingParentHasLiveChild'
  BY <1>1, <1>2 DEF TypeOK, TreeInv, CallInv, SleepingParentHasLiveChild, Alive, Children, Zombies, Nobody
<1> QED
  BY <1>5, <1>6, <1>7, <1>8, <1>9 DEF IInv

\* wait() returns without a child.
LEMMA WaitFailsInv == ASSUME IInv, NEW p \in Slots, WaitFails(p) PROVE IInv'
<1> USE SlotsNat DEF IInv
<1>5. TypeOK'
  BY DEF TypeOK, States, WaitFails
<1>6. TreeInv'
  BY DEF TypeOK, TreeInv, CallInv, Alive, WaitFails
<1>7. CallInv'
  BY DEF TypeOK, TreeInv, CallInv, Alive, WaitFails
<1>8. PidInv'
  BY DEF TypeOK, CallInv, PidInv, PidsUnique, WaitFails
<1>9. SleepingParentHasLiveChild'
  BY DEF TypeOK, TreeInv, CallInv, SleepingParentHasLiveChild, Alive, Children, Zombies, WaitFails
<1> QED
  BY <1>5, <1>6, <1>7, <1>8, <1>9 DEF IInv

\* wait() sleeps when there are children and none has exited.
LEMMA WaitSleepInv == ASSUME IInv, NEW p \in Slots, WaitSleep(p) PROVE IInv'
<1> USE SlotsNat DEF IInv
<1>5. TypeOK'
  BY DEF TypeOK, States, WaitSleep, GivesUp, Zombies, Children
<1>6. TreeInv'
  BY DEF TypeOK, TreeInv, CallInv, Alive, WaitSleep, GivesUp, Zombies, Children
<1>7. CallInv'
  BY DEF TypeOK, TreeInv, CallInv, Alive, WaitSleep, GivesUp, Zombies, Children
<1>8. PidInv'
  BY DEF TypeOK, CallInv, PidInv, PidsUnique, WaitSleep, GivesUp, Zombies, Children
<1>9. SleepingParentHasLiveChild'
  BY DEF TypeOK, TreeInv, CallInv, SleepingParentHasLiveChild, Alive, Children, Zombies, WaitSleep, GivesUp, Zombies, Children
<1> QED
  BY <1>5, <1>6, <1>7, <1>8, <1>9 DEF IInv

\* kill() marks one slot and wakes the process in it.
LEMMA KillInv == ASSUME IInv, NEW p \in Slots, NEW n, NEW k \in BOOLEAN, Kill(p, n, k) PROVE IInv'
<1> USE SlotsNat DEF IInv
<1> DEFINE s == Min(Target(n))
<1>1. s \in Slots
  BY MinIn DEF Kill, Target
<1>2. /\ killed' = [killed EXCEPT ![s] = @ \/ k]
      /\ state' = [state EXCEPT ![s] = KillWake(@)]
      /\ UNCHANGED <<pid, parent, pc, child, nextpid>>
  BY DEF Kill
<1> HIDE DEF s
<1>5. TypeOK'
  BY <1>1, <1>2 DEF TypeOK, States, KillWake
<1>6. TreeInv'
  BY <1>1, <1>2 DEF TypeOK, TreeInv, CallInv, Alive, KillWake
<1>7. CallInv'
  BY <1>1, <1>2 DEF TypeOK, TreeInv, CallInv, Alive, KillWake
<1>8. PidInv'
  BY <1>1, <1>2 DEF TypeOK, CallInv, PidInv, PidsUnique, KillWake
<1>9. SleepingParentHasLiveChild'
  BY <1>1, <1>2 DEF TypeOK, TreeInv, CallInv, SleepingParentHasLiveChild, Alive, Children, Zombies, KillWake
<1> QED
  BY <1>5, <1>6, <1>7, <1>8, <1>9 DEF IInv

\* Every step of the process table keeps the invariant.
LEMMA NextInv == IInv /\ [Next]_vars => IInv'
<1> SUFFICES ASSUME IInv, [Next]_vars PROVE IInv'
  OBVIOUS
<1>1. CASE Next
  BY <1>1, TrapInv, AllocProcInv, ForkFailsInv, ForkDoneInv, ExitInv, WaitCallInv, WaitReapInv,
     WaitFailsInv, WaitSleepInv, KillInv DEF Next, Fork, WaitStep
<1>2. CASE UNCHANGED vars
  BY <1>2 DEF vars, IInv, TypeOK, TreeInv, CallInv, PidInv, PidsUnique, Alive,
     SleepingParentHasLiveChild, Zombies, Children
<1> QED
  BY <1>1, <1>2

\* For every NPROC, through any order of fork(), exit(), wait() and kill(): the table is a
\* tree with init at the root, nobody sleeps in wait() beside a child that has exited, and
\* a pid names one process.
THEOREM TableIsConsistent == Spec => []TableConsistent
<1>1. Spec => []IInv
  BY InitInv, NextInv, PTL DEF Spec
<1> QED
  BY <1>1, InvImplies, PTL

-----------------------------------------------------------------------------
(* What argptr() lets through is what the process owns: the buffer lies    *)
(* below sz with all its bytes, and every such buffer is let through.  The *)
(* wrapping sum is exact because sz never exceeds KERNBASE.                *)
THEOREM ArgptrExact ==
  ASSUME NEW W \in Nat, NEW top \in Nat, 2 * top <= W,
         NEW i \in 0..(W - 1), NEW size \in 0..(W - 1)
  PROVE  Argptr(W, top, i, size) <=> (2 * size < W /\ i < top /\ i + size <= top)
<1>1. CASE 2 * size < W /\ i < top
  <2>1. i + size \in 0..(W - 1)
    BY <1>1
  <2>2. (i + size) % W = i + size
    BY <2>1
  <2>3. QED
    BY <1>1, <2>2 DEF Argptr
<1>2. CASE ~(2 * size < W /\ i < top)
  BY <1>2 DEF Argptr
<1>3. QED
  BY <1>1, <1>2

(* The same of fetchint(): an argument on the user stack is read only if   *)
(* all of it is memory of the process, for a stack pointer of any value.   *)
THEOREM FetchintExact ==
  ASSUME NEW W \in Nat, NEW top \in Nat, 2 * top <= W,
         NEW a \in 0..(W - 1), NEW n \in Nat, 2 * n < W
  PROVE  Fetchint(W, top, a, n) <=> (a < top /\ a + n <= top)
<1>1. CASE a < top
  <2>1. a + n \in 0..(W - 1)
    BY <1>1
  <2>2. (a + n) % W = a + n
    BY <2>1
  <2>3. QED
    BY <1>1, <2>2 DEF Fetchint
<1>2. CASE ~(a < top)
  BY <1>2 DEF Fetchint
<1>3. QED
  BY <1>1, <1>2
=============================================================================
