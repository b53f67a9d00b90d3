------------------------------ MODULE Console ------------------------------
(***************************************************************************)
(* The console and the processes around it (kernel/dev/char/console.c, the *)
(* signal part of kernel/trap.c and kernel/sysproc.c, main() of bin/sh and *)
(* bin/init): the input ring that interrupts fill and reads drain,         *)
(* ^C and the foreground process, handlers and masks, the shell that waits *)
(* for its job, and init that starts another shell.                        *)
(* cons.lock makes each interrupt and each stretch of a read one step.     *)
(***************************************************************************)
EXTENDS Naturals, Sequences, FiniteSets, SequencesExt

CONSTANTS NPROC,       \* slots of ptable; slot 1 is init
          INPUT_BUF, WRAP,     \* size of the ring; 2^32, where indices wrap
          NREAD        \* bytes a job asks for (the shell reads one at a time)

ASSUME ConsoleAssumption == /\ NPROC \in Nat \ {0, 1}
                            /\ INPUT_BUF \in Nat \ {0} /\ WRAP % INPUT_BUF = 0 /\ WRAP > INPUT_BUF
                            /\ NREAD \in Nat \ {0}

Slots == 1..NPROC
Chars == {"x", "nl", "eof"}    \* a printing character, newline, ^D

VARIABLES ring, r, w, e,       \* input.buf and its read, write, edit index
          fg,          \* input.fgproc, a slot of ptable or 0
          state, role, parent, pc, got,        \* processes
          pending, handler, blocked            \* SIGINT

tty == <<ring, r, w, e>>
procs == <<state, role, parent, pc, got>>
sig == <<pending, handler, blocked>>
vars == <<ring, r, w, e, fg, state, role, parent, pc, got, pending, handler, blocked>>

Init ==
  /\ ring = [i \in 0..INPUT_BUF-1 |-> "x"]
  /\ r = 0 /\ w = 0 /\ e = 0 /\ fg = 0
  /\ state = [s \in Slots |-> IF s = 1 THEN "RUN" ELSE "UNUSED"]
  /\ role = [s \in Slots |-> IF s = 1 THEN "init" ELSE "job"]
  /\ parent = [s \in Slots |-> 0]
  /\ pc = [s \in Slots |-> IF s = 1 THEN "fork" ELSE "user"]
  /\ got = [s \in Slots |-> <<>>]
  /\ pending = [s \in Slots |-> FALSE]
  /\ handler = [s \in Slots |-> FALSE]
  /\ blocked = [s \in Slots |-> FALSE]

-----------------------------------------------------------------------------
(* Interrupts *)

Sub(a, b) == (a + WRAP - b) % WRAP
Inc(a) == (a + 1) % WRAP
At(i) == ring[i % INPUT_BUF]

Wakeup_Not(st) == st
Wakeup(st) == [s \in Slots |-> IF pc[s] = "reading" /\ st[s] = "SLEEP" THEN "RUN" ELSE st[s]]

(* consoleintr(), default case: a full ring also ends the line             *)
Room_One(a, b) == Sub(a, b) <= INPUT_BUF
Room(a, b) == Sub(a, b) < INPUT_BUF

Type(c) ==
  /\ IF Room(e, r)
     THEN LET ends == c \in {"nl", "eof"} \/ Inc(e) = (r + INPUT_BUF) % WRAP
          IN /\ ring' = [ring EXCEPT ![e % INPUT_BUF] = c]
             /\ e' = Inc(e)
             /\ w' = IF ends THEN Inc(e) ELSE w
             /\ state' = IF ends THEN Wakeup(state) ELSE state
     ELSE UNCHANGED <<ring, e, w, state>>
  /\ UNCHANGED <<r, fg, role, parent, pc, got, sig>>

(* ^H and DEL *)
Backspace == /\ e # w
             /\ e' = Sub(e, 1)
             /\ UNCHANGED <<ring, r, w, fg, procs, sig>>

(* ^U: back to w or to a newline *)
KillLine ==
  LET stops == {n \in 0..Sub(e, w) : n = Sub(e, w) \/ At(Sub(e, n + 1)) = "nl"}
      n == CHOOSE k \in stops : \A j \in stops : k <= j
  IN /\ e' = Sub(e, n)
     /\ UNCHANGED <<ring, r, w, fg, procs, sig>>

Doomed(s) == pending[s] /\ ~blocked[s]
InUser(s) == state[s] = "RUN" /\ pc[s] \notin {"reading", "asleep"}

(* kill(fgproc->pid, SIGINT): the process in that slot now, or, when the   *)
(* slot is free (pid 0), some free slot, which nobody is in                *)
Killed == IF state[fg] # "UNUSED" THEN {fg} ELSE {}
KillWakes(st) == [s \in Slots |-> IF s \in Killed /\ st[s] = "SLEEP" THEN "RUN" ELSE st[s]]

(* exit(): children go to init *)
Zombie(st, s) == [st EXCEPT ![s] = "ZOMBIE"]
Reparent(s) == [q \in Slots |-> IF parent[q] = s THEN 1 ELSE parent[q]]
Exit(s) ==
  /\ state' = Zombie(state, s)
  /\ parent' = Reparent(s)
  /\ got' = [got EXCEPT ![s] = <<>>]
  /\ UNCHANGED <<role, pc>>

(* ^C: the rest of consoleintr(), on a processor that runs a process v in  *)
(* user mode (v # 0) or not.  trap() goes on to deliver a signal that the  *)
(* interrupt itself brought v: its handler runs, or v exits.               *)
CtrlC(v) ==
  LET hit == v \in Killed /\ ~blocked[v]
      woken == Wakeup(KillWakes(state))
  IN /\ fg \notin {0, 1}
     /\ v # 0 => InUser(v) /\ ~Doomed(v)
     /\ ring' = [ring EXCEPT ![r % INPUT_BUF] = "nl"]
     /\ e' = Inc(r) /\ w' = Inc(r)
     /\ pending' = [s \in Slots |-> (s \in Killed /\ ~hit) \/ pending[s]]
     /\ IF hit /\ ~handler[v]
        THEN state' = Zombie(woken, v) /\ parent' = Reparent(v)
             /\ got' = [got EXCEPT ![v] = <<>>] /\ UNCHANGED <<role, pc>>
        ELSE state' = woken /\ UNCHANGED <<role, parent, pc, got>>
     /\ UNCHANGED <<r, fg, handler, blocked>>

Interrupt == \/ \E c \in Chars : Type(c)
             \/ Backspace \/ KillLine
             \/ \E v \in {0} \cup Slots : CtrlC(v)

-----------------------------------------------------------------------------
(* Processes.  A process with a signal that is not blocked gets no further *)
(* than the next entry to or return from the kernel: trap() makes it exit. *)

Runs(s) == InUser(s) /\ ~Doomed(s)

TrapExit(s) == InUser(s) /\ Doomed(s) /\ Exit(s) /\ UNCHANGED <<tty, fg, sig>>

(* consoleread(): what the loop takes before it returns or sleeps          *)
Avail == [i \in 1..Sub(w, r) |-> At(r + i - 1)]
Asked(s) == IF role[s] = "sh" THEN 1 ELSE NREAD

Read(s) ==
  /\ Runs(s)
  /\ role[s] = "job" \/ pc[s] = "gets"
  /\ pc' = [pc EXCEPT ![s] = "reading"]
  /\ UNCHANGED <<tty, fg, state, role, parent, got, sig>>

Stops(s) == {i \in 1..Len(Avail) : \/ Avail[i] \in {"nl", "eof"}
                                   \/ Len(got[s]) + i = Asked(s)}

(* where a process goes on after a read that gave it text t; the shell     *)
(* reads on to the end of its line                                         *)
Resume(s, t) == IF role[s] = "job" THEN {"user"}
                ELSE IF t = <<"eof">> THEN {"eof", "line"}
                ELSE IF t = <<"nl">> THEN {"line"} ELSE {"gets"}

ReadReturns(s) ==
  /\ pc[s] = "reading" /\ state[s] = "RUN" /\ Stops(s) # {}
  /\ LET i == CHOOSE k \in Stops(s) : \A j \in Stops(s) : k <= j
         kept == Avail[i] = "eof" /\ (i > 1 \/ got[s] # <<>>)
         n == IF kept THEN i - 1 ELSE i
     IN /\ r' = (r + n) % WRAP
        /\ \E next \in Resume(s, got[s] \o SubSeq(Avail, 1, n)) : pc' = [pc EXCEPT ![s] = next]
        /\ got' = [got EXCEPT ![s] = <<>>]
  /\ UNCHANGED <<ring, w, e, fg, state, role, parent, sig>>

GivesUp_Deaf(s) == FALSE
GivesUp(s) == Doomed(s)

(* nothing left: return -1 to a process that has been signalled, or sleep  *)
ReadSleeps(s) ==
  /\ pc[s] = "reading" /\ state[s] = "RUN" /\ Stops(s) = {}
  /\ r' = w
  /\ IF GivesUp(s)
     THEN /\ pc' = [pc EXCEPT ![s] = "user"]
          /\ got' = [got EXCEPT ![s] = <<>>]
          /\ UNCHANGED state
     ELSE /\ state' = [state EXCEPT ![s] = "SLEEP"]
          /\ got' = [got EXCEPT ![s] = @ \o Avail]
          /\ UNCHANGED pc
  /\ UNCHANGED <<ring, w, e, fg, role, parent, sig>>

(* The other calls a job sleeps in: wait(), a pipe's, sys_sleep().  Their  *)
(* loops test killed, which SIGINT does not set: a process that ^C wakes   *)
(* sleeps on until the child, the bytes or the tick it waits for comes.    *)
Block(s) ==
  /\ Runs(s) /\ role[s] = "job"
  /\ pc' = [pc EXCEPT ![s] = "asleep"]
  /\ state' = [state EXCEPT ![s] = "SLEEP"]
  /\ UNCHANGED <<tty, fg, role, parent, got, sig>>

Unblock(s) ==
  /\ pc[s] = "asleep" /\ state[s] = "SLEEP"
  /\ pc' = [pc EXCEPT ![s] = "user"]
  /\ state' = [state EXCEPT ![s] = "RUN"]
  /\ UNCHANGED <<tty, fg, role, parent, got, sig>>

SleepOn(s) ==
  /\ pc[s] = "asleep" /\ state[s] = "RUN"
  /\ state' = [state EXCEPT ![s] = "SLEEP"]
  /\ UNCHANGED <<tty, fg, role, parent, pc, got, sig>>

(* fork(), in init and in the shell                                        *)
Free == {s \in Slots : state[s] = "UNUSED"}
Child == CHOOSE c \in Free : \A d \in Free : c <= d
After(s) == IF role[s] = "init" THEN "wait" ELSE "setfg"

Fork(s) ==
  /\ Runs(s) /\ Free # {}
  /\ pc[s] \in {"fork", "line"}
  /\ state' = [state EXCEPT ![Child] = "RUN"]
  /\ role' = [role EXCEPT ![Child] = IF role[s] = "init" THEN "sh" ELSE "job"]
  /\ parent' = [parent EXCEPT ![Child] = s]
  /\ pc' = [pc EXCEPT ![Child] = IF role[s] = "init" THEN "gets" ELSE "user", ![s] = After(s)]
  /\ UNCHANGED <<tty, fg, got, sig>>

(* fork1() ends a shell that cannot fork; so does end of file on a line    *)
(* of its own; a job exits when it likes                                   *)
ExitCall(s) ==
  /\ Runs(s)
  /\ \/ role[s] = "job"
     \/ pc[s] = "eof"
     \/ role[s] = "sh" /\ pc[s] = "line" /\ Free = {}
  /\ Exit(s)
  /\ UNCHANGED <<tty, fg, sig>>

(* cd: the shell does it itself *)
Cd(s) == /\ Runs(s) /\ pc[s] = "line"
         /\ pc' = [pc EXCEPT ![s] = "gets"]
         /\ UNCHANGED <<tty, fg, state, role, parent, got, sig>>

(* setfg(pid) of the job, setfg(getpid()) after it *)
Job(s) == {c \in Slots : parent[c] = s /\ role[c] = "job" /\ state[c] # "UNUSED"}
Chosen_Self(s) == {s}
Chosen(s) == IF pc[s] = "setfg" THEN Job(s) ELSE {s}
SetForeground(s) ==
  /\ Runs(s) /\ pc[s] \in {"setfg", "unset"}
  /\ fg' \in Chosen(s)
  /\ pc' = [pc EXCEPT ![s] = IF pc[s] = "setfg" THEN "wait" ELSE "gets"]
  /\ UNCHANGED <<tty, state, role, parent, got, sig>>

(* wait() of the shell and of init, which goes on when its shell is gone;  *)
(* the signal state of the free slot is what allocproc() will make it      *)
Wait(s) ==
  /\ Runs(s) /\ pc[s] = "wait"
  /\ \E c \in Slots :
        /\ parent[c] = s /\ state[c] = "ZOMBIE"
        /\ state' = [state EXCEPT ![c] = "UNUSED"]
        /\ parent' = [parent EXCEPT ![c] = 0]
        /\ pending' = [pending EXCEPT ![c] = FALSE]
        /\ handler' = [handler EXCEPT ![c] = FALSE]
        /\ blocked' = [blocked EXCEPT ![c] = FALSE]
        /\ pc' = [pc EXCEPT ![c] = "user", ![s] = IF role[s] = "sh" THEN "unset"
                                                   ELSE IF role[c] = "sh" THEN "fork" ELSE "wait"]
  /\ UNCHANGED <<tty, fg, role, got>>

(* sigaction(SIGINT, h) and sigprocmask(mask) *)
Signals(s) ==
  /\ InUser(s) /\ role[s] = "job" /\ ~Doomed(s)
  /\ \/ handler' = [handler EXCEPT ![s] = TRUE] /\ UNCHANGED blocked
     \/ blocked' = [blocked EXCEPT ![s] = ~@] /\ UNCHANGED handler
  /\ UNCHANGED <<tty, fg, procs, pending>>

Step(s) == \/ TrapExit(s) \/ Read(s) \/ ReadReturns(s) \/ ReadSleeps(s)
           \/ Block(s) \/ Unblock(s) \/ SleepOn(s)
           \/ Fork(s) \/ ExitCall(s) \/ Cd(s)
           \/ SetForeground(s) \/ Wait(s) \/ Signals(s)

Next == Interrupt \/ \E s \in Slots : Step(s)

Spec == Init /\ [][Next]_vars

(* The scheduler runs every process again and again; the user need not     *)
(* type, and programs need not call anything, but calls in progress and    *)
(* the loops of the shell and init go on.  Nothing promises that what a    *)
(* job sleeps for comes (Unblock).                                         *)
Fairness == \A s \in Slots :
  /\ WF_vars(TrapExit(s)) /\ WF_vars(ReadReturns(s) \/ ReadSleeps(s))
  /\ WF_vars(SetForeground(s)) /\ WF_vars(Wait(s))
FairSpec == Spec /\ Fairness

-----------------------------------------------------------------------------
(* Refinement: the ring, its three wrapping indices and the put-back of ^D *)
(* in consoleread() and consoleintr() give readers the edited lines in     *)
(* order, each character to one read, and never lose or repeat one.        *)
T == INSTANCE Tty WITH
       Readers <- Slots,
       ready <- Avail,
       edit <- [i \in 1..Sub(e, w) |-> At(w + i - 1)],
       got <- got
LineDiscipline == T!Spec

(* ^C never hits the shell between its setfg(pid) and the end of its       *)
(* wait(): the job is the foreground process for all of that time.         *)
ShellSpared == \A s \in Slots :
  role[s] = "sh" /\ pc[s] = "wait" /\ state[s] # "ZOMBIE" /\ state[s] # "UNUSED" => ~pending[s]

(* No lost wakeup in consoleread(): a reader asleep on input.r while there *)
(* is something to read wakes up, a ring filled to the brim included.      *)
ReaderWoken == \A s \in Slots : []<>~(state[s] = "SLEEP" /\ pc[s] = "reading" /\ r # w)

(* ^C works: a process that has a SIGINT it does not block, and computes   *)
(* or reads the console, is gone some time later.  One that sleeps in      *)
(* wait(), on a pipe or in sys_sleep() goes when that call returns.        *)
InterruptEnds == \A s \in Slots :
  []<>~(Doomed(s) /\ state[s] \in {"RUN", "SLEEP"} /\ pc[s] # "asleep")
=============================================================================
