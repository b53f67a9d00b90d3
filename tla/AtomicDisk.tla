------------------------------ MODULE AtomicDisk ------------------------------
(***************************************************************************)
(* What the logging layer of kernel/log.c promises its callers.  A file     *)
(* system operation is the stretch between begin_op() and end_op().  The    *)
(* disk, as the next boot will find it, only ever moves to contents that    *)
(* the cache had while no operation was open, and it moves there at once.   *)
(* A crash takes the cache back to the disk.                                *)
(***************************************************************************)
CONSTANTS Procs,    \* the processes
          Blocks,   \* the home blocks of the file system
          Vals      \* what a block may hold

VARIABLES durable,  \* contents of every block after a crash and a recovery
          current,  \* contents of every block as bread() returns them
          open      \* processes between begin_op() and end_op()

vars == <<durable, current, open>>

Init == /\ durable \in [Blocks -> Vals]
        /\ current = durable
        /\ open = {}

Begin(p) == /\ p \notin open
            /\ open' = open \cup {p}
            /\ UNCHANGED <<durable, current>>

Write(p, b, v) == /\ p \in open
                  /\ current' = [current EXCEPT ![b] = v]
                  /\ UNCHANGED <<durable, open>>

End(p) == /\ p \in open
          /\ open' = open \ {p}
          /\ UNCHANGED <<durable, current>>

Commit == /\ open = {}
          /\ durable' = current
          /\ UNCHANGED <<current, open>>

Crash == /\ current' = durable
         /\ open' = {}
         /\ UNCHANGED durable

Next == \/ \E p \in Procs : Begin(p) \/ End(p)
        \/ \E p \in Procs, b \in Blocks, v \in Vals : Write(p, b, v)
        \/ Commit
        \/ Crash

Spec == Init /\ [][Next]_vars
===============================================================================
