--------------------------------- MODULE Pipe ---------------------------------
(***************************************************************************)
(* kernel/pipe.c: a ring buffer of PIPESIZE bytes between the writers and    *)
(* the readers of one pipe.  p->lock is held from the entry of pipewrite()   *)
(* and piperead() to their return except inside sleep(), so what they do     *)
(* between two sleeps is one step.  kill() does not take p->lock: it may     *)
(* come between the test of killed and the moment the process sleeps.        *)
(***************************************************************************)
EXTENDS Integers, Sequences, FiniteSets, FiniteSetsExt

CONSTANTS Writers, Readers,
          Vals,        \* bytes
          PIPESIZE,
          CountMod,    \* nread and nwrite are unsigned: 2^32 in the code
          Count0,      \* their common value when the behaviour starts
          MaxWrite, MaxRead   \* longest write() and read()

ASSUME PipeAssumption ==
    /\ Writers \cap Readers = {}
    /\ PIPESIZE \in Nat \ {0} /\ CountMod \in Nat
    /\ CountMod % PIPESIZE = 0 /\ PIPESIZE < CountMod
    /\ Count0 \in 0..(CountMod - 1)
    /\ MaxWrite \in Nat \ {0} /\ MaxRead \in Nat \ {0}

Procs == Writers \cup Readers

VARIABLES data, nread, nwrite, readopen, writeopen,  \* struct pipe
          pc,       \* "out", "in" (wants p->lock), "full" or "empty" (holds
                    \* p->lock, about to sleep), "asleep"
          todo,     \* bytes the call still has to move
          killed

pipeVars == <<data, nread, nwrite, readopen, writeopen>>
vars == <<pipeVars, pc, todo, killed>>

Init == /\ data \in {[i \in 0..(PIPESIZE - 1) |-> v] : v \in Vals}
        /\ nread = Count0 /\ nwrite = Count0
        /\ readopen = TRUE /\ writeopen = TRUE
        /\ pc = [p \in Procs |-> "out"]
        /\ todo = [p \in Procs |-> 0]
        /\ killed = [p \in Procs |-> FALSE]

Used == (nwrite - nread) % CountMod
Full == nwrite = (nread + PIPESIZE) % CountMod
Empty == nread = nwrite
LockFree == \A p \in Procs : pc[p] \notin {"full", "empty"}
Enter(p) == pc[p] = "in" /\ LockFree

\* wakeup(&p->nread) wakes the readers, wakeup(&p->nwrite) the writers.
Wakeup_None(f, who) == f
Wakeup(f, who) == [p \in Procs |-> IF p \in who /\ f[p] = "asleep" THEN "in" ELSE f[p]]

-------------------------------------------------------------------------------
Call(p) ==
    /\ pc[p] = "out" /\ ~killed[p]
    /\ IF p \in Writers THEN writeopen ELSE readopen
    /\ \E k \in 1..(IF p \in Writers THEN MaxWrite ELSE MaxRead) :
          todo' = [todo EXCEPT ![p] = k]
    /\ pc' = [pc EXCEPT ![p] = "in"]
    /\ UNCHANGED <<pipeVars, killed>>

-------------------------------------------------------------------------------
(* pipewrite()                                                                *)

Slot_Shifted(i) == (i + 1) % PIPESIZE
Slot(i) == i % PIPESIZE

\* Copies as many bytes as fit; the rest of the call waits.
CopyIn(p, k) ==
    /\ \E s \in [0..(k - 1) -> Vals] :
          data' = [i \in 0..(PIPESIZE - 1) |->
                     IF \E j \in 0..(k - 1) : Slot((nwrite + j) % CountMod) = i
                     THEN s[CHOOSE j \in 0..(k - 1) : Slot((nwrite + j) % CountMod) = i]
                     ELSE data[i]]
    /\ nwrite' = (nwrite + k) % CountMod
    /\ todo' = [todo EXCEPT ![p] = @ - k]
    /\ UNCHANGED <<nread, readopen, writeopen, killed>>

Room == PIPESIZE - Used

WriteDone(p) ==
    /\ p \in Writers /\ Enter(p)
    /\ todo[p] <= Room
    /\ CopyIn(p, todo[p])
    /\ pc' = [Wakeup(pc, Readers) EXCEPT ![p] = "out"]

\* The buffer is full: give up, or wake the readers and get ready to sleep.
WriteFull(p) ==
    /\ p \in Writers /\ Enter(p)
    /\ todo[p] > Room
    /\ CopyIn(p, Room)
    /\ pc' = IF ~readopen \/ killed[p] THEN [pc EXCEPT ![p] = "out"]
             ELSE [Wakeup(pc, Readers) EXCEPT ![p] = "full"]

-------------------------------------------------------------------------------
(* piperead()                                                                 *)

ReadWait(p) ==
    /\ p \in Readers /\ Enter(p)
    /\ Empty /\ writeopen
    /\ pc' = [pc EXCEPT ![p] = IF killed[p] THEN "out" ELSE "empty"]
    /\ UNCHANGED <<pipeVars, todo, killed>>

Read(p) ==
    /\ p \in Readers /\ Enter(p)
    /\ ~Empty \/ ~writeopen
    /\ LET k == Min({todo[p], Used})
       IN nread' = (nread + k) % CountMod
    /\ todo' = [todo EXCEPT ![p] = 0]
    /\ pc' = [Wakeup(pc, Writers) EXCEPT ![p] = "out"]
    /\ UNCHANGED <<data, nwrite, readopen, writeopen, killed>>

\* sleep(chan, &p->lock)
Sleep(p) ==
    /\ pc[p] \in {"full", "empty"}
    /\ pc' = [pc EXCEPT ![p] = "asleep"]
    /\ UNCHANGED <<pipeVars, todo, killed>>

-------------------------------------------------------------------------------
(* pipeclose(): the last reference to an end goes; nobody is in a call on it. *)

CloseWrite ==
    /\ writeopen /\ LockFree
    /\ \A p \in Writers : pc[p] = "out"
    /\ writeopen' = FALSE
    /\ pc' = Wakeup(pc, Readers)
    /\ UNCHANGED <<data, nread, nwrite, readopen, todo, killed>>

CloseRead ==
    /\ readopen /\ LockFree
    /\ \A p \in Readers : pc[p] = "out"
    /\ readopen' = FALSE
    /\ pc' = Wakeup(pc, Writers)
    /\ UNCHANGED <<data, nread, nwrite, writeopen, todo, killed>>

Kill(p) ==
    /\ ~killed[p]
    /\ killed' = [killed EXCEPT ![p] = TRUE]
    /\ pc' = [pc EXCEPT ![p] = IF @ = "asleep" THEN "in" ELSE @]
    /\ UNCHANGED <<pipeVars, todo>>

-------------------------------------------------------------------------------
Step(p) == WriteDone(p) \/ WriteFull(p) \/ ReadWait(p) \/ Read(p) \/ Sleep(p)

Next == \/ \E p \in Procs : Call(p) \/ Step(p) \/ Kill(p)
        \/ CloseWrite \/ CloseRead

Spec == Init /\ [][Next]_vars

\* A process that can run does run, and gets the lock in the end; each end is
\* closed in the end, as when its processes exit.
FairSpec == /\ Spec
            /\ \A p \in Procs : SF_vars(Step(p))
            /\ WF_vars(CloseWrite) /\ WF_vars(CloseRead)

-------------------------------------------------------------------------------
(* Properties                                                                 *)

\* Bytes come out in the order they went in, none lost, none twice, also when the
\* counters wrap around.
Stream == INSTANCE Fifo WITH
    Capacity <- PIPESIZE,
    queue <- [i \in 1..Used |-> data[(nread + i - 1) % PIPESIZE]]
InOrder == Stream!Spec

\* No lost wakeup: whoever sleeps in the pipe, or is about to, still has a reason to.
\* The one exception: pipewrite() of a killed writer returns without waking the
\* readers for the bytes it did copy.
Abandoned == \E w \in Writers : killed[w] /\ pc[w] = "out" /\ todo[w] > 0
SleepersHaveReason ==
    \A p \in Procs :
       /\ p \in Readers /\ pc[p] \in {"asleep", "empty"} => writeopen /\ (Empty \/ Abandoned)
       /\ p \in Writers /\ pc[p] \in {"asleep", "full"} => readopen /\ Full

\* Every call on the pipe returns once the other end is closed, if not before. A closed
\* end stays closed, so a call that never returns leaves a suffix that is all spent inside it.
CallsReturn == \A p \in Procs :
    []<>~(pc[p] # "out" /\ IF p \in Writers THEN ~readopen ELSE ~writeopen)
===============================================================================
