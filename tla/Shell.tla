------------------------------- MODULE Shell -------------------------------
(***************************************************************************)
(* The shell at work (bin/sh/sh.c): main() forks a child that parses the   *)
(* line and runs the tree with runcmd(): redirections, lists, pipelines    *)
(* and background jobs, over processes, descriptor tables and pipe ends.   *)
(* Of the programs it starts only what matters to the others is kept: one  *)
(* reads its input to the end, one stops at once, one writes until its     *)
(* output is closed.  Any fork(), pipe(), open() or exec() may fail.       *)
(***************************************************************************)
EXTENDS ShParse

CONSTANTS Lines,       \* lines the parser is checked on
          RunLines,    \* those of them that are run
          NPROC, NFD   \* processes; descriptors of a process

ASSUME ShellAssumption == RunLines \subseteq Lines /\ NPROC > 1 /\ NFD >= 5

Procs == 1..NPROC      \* 1 is the shell
Fds == 0..NFD-1

VARIABLES line,        \* what was typed
          cmd, pc,     \* per process: what runcmd() is to run, and where it is
          fds,         \* ofile[]
          parent, state,
          bg,          \* below a BACK node
          broken       \* some fork() failed

vars == <<line, cmd, pc, fds, parent, state, bg, broken>>

None == [kind |-> "none", id |-> 0]
Tty == [kind |-> "tty", id |-> 0]
File == [kind |-> "file", id |-> 0]
ReadEnd(k) == [kind |-> "r", id |-> k]
WriteEnd(k) == [kind |-> "w", id |-> k]

Init == /\ line \in Lines
        /\ cmd = [p \in Procs |-> IF p = 1 THEN Parsecmd(line) ELSE ERR]
        /\ pc = [p \in Procs |-> "prompt"]
        /\ fds = [p \in Procs |-> [f \in Fds |-> IF p = 1 /\ f < 3 THEN Tty ELSE None]]
        /\ parent = [p \in Procs |-> 0]
        /\ state = [p \in Procs |-> IF p = 1 THEN "run" ELSE "unused"]
        /\ bg = [p \in Procs |-> FALSE]
        /\ broken = FALSE

-----------------------------------------------------------------------------
(* the kernel's side of descriptors: fdalloc() takes the lowest            *)
Lowest(t) == First({f \in Fds : t[f] = None})
Close(t, f) == [t EXCEPT ![f] = None]
Install(t, x) == [t EXCEPT ![Lowest(t)] = x]
Dup(t, f) == Install(t, t[f])
OpenSomewhere(x) == \E p \in Procs, f \in Fds : state[p] = "run" /\ fds[p][f] = x

At(p, where) == state[p] = "run" /\ pc[p] = where
Goto(p, where) == pc' = [pc EXCEPT ![p] = where]

(* exit(): descriptors close; init takes and reaps the children            *)
Exit(p) ==
  /\ fds' = [fds EXCEPT ![p] = [f \in Fds |-> None]]
  /\ state' = [q \in Procs |-> IF q = p THEN (IF parent[p] = 0 THEN "unused" ELSE "zombie")
                               ELSE IF parent[q] = p /\ state[q] = "zombie" THEN "unused" ELSE state[q]]
  /\ parent' = [q \in Procs |-> IF parent[q] = p THEN 0 ELSE parent[q]]
  /\ UNCHANGED <<line, cmd, pc, bg>>

Free == {p \in Procs : state[p] = "unused"}

(* fork1(): the child starts at "where" with command c, the parent goes on *)
(* at "next"; a failure ends the caller                                    *)
Fork1(p, where, c, next, back) ==
  \/ /\ Free # {}
     /\ LET n == First(Free)
        IN /\ state' = [state EXCEPT ![n] = "run"]
           /\ parent' = [parent EXCEPT ![n] = p]
           /\ fds' = [fds EXCEPT ![n] = fds[p]]
           /\ cmd' = [cmd EXCEPT ![n] = c]
           /\ pc' = [pc EXCEPT ![n] = where, ![p] = next]
           /\ bg' = [bg EXCEPT ![n] = bg[p] \/ back]
     /\ UNCHANGED <<line, broken>>
  \/ broken' = TRUE /\ Exit(p)

Reap(p, next) ==
  \E c \in Procs : /\ parent[c] = p /\ state[c] = "zombie"
                   /\ state' = [state EXCEPT ![c] = "unused"]
                   /\ parent' = [parent EXCEPT ![c] = 0]
                   /\ Goto(p, next)
                   /\ UNCHANGED <<line, cmd, fds, bg, broken>>

(* wait() without children returns at once                                 *)
WaitFor(p, next) == \/ Reap(p, next)
                    \/ /\ \A c \in Procs : parent[c] # p
                       /\ Goto(p, next) /\ UNCHANGED <<line, cmd, fds, parent, state, bg, broken>>

-----------------------------------------------------------------------------
(* main(): one line *)
Prompt == /\ At(1, "prompt") /\ line \in RunLines
          /\ Fork1(1, "parse", cmd[1], "wait", FALSE)
Wait == At(1, "wait") /\ WaitFor(1, "done")

(* the child: parsecmd(), whose panics exit; Init has its result, which    *)
(* depends on the line alone                                               *)
Parse(p) == /\ At(p, "parse")
            /\ IF cmd[p].type = "ERR" THEN Exit(p) /\ UNCHANGED broken
               ELSE Goto(p, "runcmd") /\ UNCHANGED <<line, cmd, fds, parent, state, bg, broken>>

Runs(p, type) == At(p, "runcmd") /\ cmd[p].type = type

(* EXEC: no words, no such program, or a program of one of the three kinds *)
Exec(p) ==
  /\ Runs(p, "EXEC")
  /\ \/ Exit(p) /\ UNCHANGED broken
     \/ /\ cmd[p].argv # <<>>
        /\ \E kind \in {"drain", "quit", "yes"} : Goto(p, kind)
        /\ UNCHANGED <<line, cmd, fds, parent, state, bg, broken>>

Redir(p) ==
  /\ Runs(p, "REDIR")
  /\ \/ Exit(p) /\ UNCHANGED broken
     \/ /\ fds' = [fds EXCEPT ![p] = Install(Close(fds[p], cmd[p].fd), File)]
        /\ cmd' = [cmd EXCEPT ![p] = cmd[p].cmd]
        /\ UNCHANGED <<line, pc, parent, state, bg, broken>>

List(p) == Runs(p, "LIST") /\ Fork1(p, "runcmd", cmd[p].left, "list", FALSE)
ListWait(p) == At(p, "list") /\ WaitFor(p, "list2")
ListRight(p) == /\ At(p, "list2")
                /\ cmd' = [cmd EXCEPT ![p] = cmd[p].right]
                /\ Goto(p, "runcmd")
                /\ UNCHANGED <<line, fds, parent, state, bg, broken>>

(* BACK: the parent does not wait *)
Back(p) == Runs(p, "BACK") /\ Fork1(p, "runcmd", cmd[p].cmd, "exit", TRUE)

(* PIPE: p[0] and p[1] are the two lowest free descriptors                 *)
NewPipe == First({k \in 1..(2 * NPROC) : ~OpenSomewhere(ReadEnd(k)) /\ ~OpenSomewhere(WriteEnd(k))})
P0(t) == First({f \in Fds : t[f].kind = "r" /\ f > 2})
P1(t) == First({f \in Fds : t[f].kind = "w" /\ f > 2})

Pipe(p) ==
  /\ Runs(p, "PIPE")
  /\ \/ Exit(p) /\ UNCHANGED broken
     \/ /\ fds' = [fds EXCEPT ![p] = Install(Install(fds[p], ReadEnd(NewPipe)), WriteEnd(NewPipe))]
        /\ Goto(p, "left")
        /\ UNCHANGED <<line, cmd, parent, state, bg, broken>>
PipeLeft(p) == At(p, "left") /\ Fork1(p, "setleft", cmd[p].left, "right", FALSE)
PipeRight(p) == At(p, "right") /\ Fork1(p, "setright", cmd[p].right, "close", FALSE)

CloseBoth(t) == Close(Close(t, P0(t)), P1(t))
EndsOf(t, f) == CloseBoth(Dup(Close(t, f), IF f = 0 THEN P0(t) ELSE P1(t)))
Set(p, t) == /\ fds' = [fds EXCEPT ![p] = t]
             /\ UNCHANGED <<line, cmd, parent, state, bg, broken>>
SetLeft(p) == At(p, "setleft") /\ Set(p, EndsOf(fds[p], 1)) /\ Goto(p, "runcmd")
RightEnds_KeepW(t) == LET u == Dup(Close(t, 0), P0(t)) IN Close(u, P0(u))
RightEnds(t) == EndsOf(t, 0)
SetRight(p) == At(p, "setright") /\ Set(p, RightEnds(fds[p])) /\ Goto(p, "runcmd")

ParentEnds_Open(t) == Close(t, P0(t))
ParentEnds(t) == CloseBoth(t)
PipeClose(p) == At(p, "close") /\ Set(p, ParentEnds(fds[p])) /\ Goto(p, "wait1")

Second_Skip == "exit"
Second == "wait2"
PipeWait(p) == \/ At(p, "wait1") /\ WaitFor(p, Second)
               \/ At(p, "wait2") /\ WaitFor(p, "exit")

Done(p) == At(p, "exit") /\ Exit(p) /\ UNCHANGED broken

-----------------------------------------------------------------------------
(* Programs: "drain" ends at the end of its input, "yes" when nobody has   *)
(* the other end of its output open; any may stop earlier                  *)
InputEnds(p) == fds[p][0].kind = "r" => ~OpenSomewhere(WriteEnd(fds[p][0].id))
OutputClosed(p) == fds[p][1].kind = "w" => ~OpenSomewhere(ReadEnd(fds[p][1].id))

Program(p) == /\ \/ At(p, "quit")
                 \/ At(p, "drain") /\ InputEnds(p)
                 \/ At(p, "yes") /\ OutputClosed(p)
              /\ Exit(p) /\ UNCHANGED broken

Step(p) == \/ Parse(p) \/ Exec(p) \/ Redir(p) \/ List(p) \/ ListWait(p) \/ ListRight(p)
           \/ Back(p) \/ Pipe(p) \/ PipeLeft(p) \/ PipeRight(p) \/ SetLeft(p)
           \/ SetRight(p) \/ PipeClose(p) \/ PipeWait(p) \/ Done(p) \/ Program(p)

Next == Prompt \/ Wait \/ \E p \in Procs : Step(p)

Spec == Init /\ [][Next]_vars
(* The scheduler runs some process as long as one can run.  That is less   *)
(* than it does, and enough: no process of a line runs for ever.           *)
Fairness == WF_vars(Wait \/ \E p \in Procs : Step(p))
FairSpec == Spec /\ Fairness

-----------------------------------------------------------------------------
(* The recursive descent accepts exactly the lines of the grammar and      *)
(* builds for each the one tree the grammar gives it (parsecmd and all it  *)
(* calls; MAXARGS words are too many).                                     *)
ParsesGrammar ==
  pc[1] = "prompt" => Grammar(line) = IF cmd[1].type = "ERR" THEN {} ELSE {cmd[1]}

(* A program starts with descriptors 0, 1 and 2 and no other: no pipe end  *)
(* that runcmd() opened on the way stays open in it by accident, and its   *)
(* input and output are not the two ends of one pipe.                      *)
NoStrayEnds == \A p \in Procs :
  state[p] = "run" /\ pc[p] \in {"drain", "quit", "yes"} =>
     /\ \A f \in Fds : f > 2 => fds[p][f] = None
     /\ fds[p][0].kind # "w" /\ fds[p][1].kind # "r"
     /\ fds[p][0].kind = "r" => fds[p][1] # WriteEnd(fds[p][0].id)

(* When the shell prompts again, whatever of the line still runs is in the *)
(* background, unless a fork() failed: the waits of runcmd() match its     *)
(* forks.                                                                  *)
PromptMeansDone ==
  pc[1] = "done" /\ ~broken => \A p \in Procs \ {1} : state[p] = "run" => bg[p]

(* Every line ends: the shell prompts again, or waits for a program that   *)
(* writes for ever to one that reads for ever.  No process waits for an    *)
(* end of file that cannot come because a pipe end is open elsewhere.      *)
Endless == \E p \in Procs : At(p, "yes") /\
             (fds[p][1].kind = "w" => \E q \in Procs : At(q, "drain") /\ fds[q][0] = ReadEnd(fds[p][1].id))
LineEnds == []<>(~At(1, "wait") \/ Endless)
=============================================================================
