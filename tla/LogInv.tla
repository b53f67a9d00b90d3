-------------------------------- MODULE LogInv --------------------------------
(***************************************************************************)
(* The inductive invariant of the log, for calls that stay inside            *)
(* begin_op() ... end_op() and log at least two blocks fewer than they       *)
(* reserve.                                                                  *)
(***************************************************************************)
EXTENDS Log

\* Every log_write() is inside an operation, the log area is as large as LOGSIZE
\* says, and an operation leaves two of the blocks it reserved unused: one block
\* of the area is the header, and log_write() wants a free one even to absorb.
Disciplined == Outside = {} /\ OpBlocks + 2 <= MAXOPBLOCKS /\ LOGSIZE <= SIZE

CommitPCs == {"wlog", "whead", "install", "clear", "erase", "done"}
HoldPCs == {"buf", "check", "append", "relse"}

\* The blocks that the open operations have reserved and not used.
Free == {t \in Procs \X (1..MAXOPBLOCKS) : t[1] \in InOp /\ Cardinality(wrote[t[1]]) < t[2]}

\* log.outstanding counts the open operations; a commit runs alone.
ControlInv ==
    /\ eph = {}
    /\ outstanding = Cardinality(InOp)
    /\ committing => InOp = {}
    /\ \A p \in Procs : pc[p] \in CommitPCs => committing
    /\ \A p, q \in Procs : pc[p] \in CommitPCs /\ pc[q] \in CommitPCs => p = q
    /\ \A p \in Procs : (hold[p] # None) <=> (pc[p] \in HoldPCs)
    /\ \A p \in Procs : p \notin InOp => wrote[p] = {}
    /\ boot = "up" /\ ~committing /\ InOp = {} => lh = <<>>
    /\ boot # "up" => ~committing /\ \A p \in Procs : pc[p] = "idle"

\* What is in the header and what is reserved fits in the log.
SpaceInv ==
    /\ Len(lh) + Cardinality(Free) <= LOGSIZE
    /\ Len(lh) + 2 <= LOGSIZE
    /\ Len(dhead) + 2 <= LOGSIZE
    /\ \A p \in InOp : wrote[p] \subseteq Range(lh) /\ Cardinality(wrote[p]) <= OpBlocks
    /\ \A p \in Procs : pc[p] \in {"buf", "check", "append"} =>
          hold[p] \in wrote[p] \/ Cardinality(wrote[p]) < OpBlocks

\* The first n blocks of the header are in the log as they are in the cache.
Copied(n) == \A k \in 1..n : dlog[k] = cache[lh[k]]

\* How far a commit has come.
CommitInv(p) ==
    /\ pc[p] = "wlog" => tail < Len(lh) /\ Copied(tail)
    /\ pc[p] = "whead" => lh # <<>> /\ Copied(Len(lh))
    /\ pc[p] = "install" => /\ dhead = lh /\ Copied(Len(lh)) /\ tail < Len(lh)
                            /\ \A k \in 1..tail : lh[k] \notin dirty
    /\ pc[p] = "clear" => dhead = lh /\ Copied(Len(lh)) /\ dirty = {}
    /\ pc[p] = "erase" => /\ lh = <<>> /\ dirty = {}
                          /\ \A k \in DOMAIN dhead : dlog[k] = cache[dhead[k]]
    /\ pc[p] = "done" => lh = <<>> /\ dirty = {} /\ dhead = <<>>

UpInv ==
    /\ \A b \in Blocks : cache[b] = home[b] \/ b \in dirty \/ Held(b)
    /\ dirty \subseteq Range(lh)
    /\ \A p \in Procs : pc[p] = "relse" => hold[p] \in dirty
    /\ (\A p \in Procs : pc[p] \notin {"install", "clear", "erase"}) => dhead = <<>>
    /\ \A p \in Procs : CommitInv(p)

BootInv ==
    /\ cache = home /\ dirty = {}
    /\ boot = "off" => lh = <<>>
    /\ boot = "install" => /\ lh = dhead /\ tail < Len(lh)
                           /\ \A k \in 1..tail : home[dhead[k]] = dlog[k]
    /\ boot = "clear" => lh = dhead /\ \A k \in DOMAIN dhead : home[dhead[k]] = dlog[k]

DiskInv ==
    /\ \A i, j \in DOMAIN dhead : dhead[i] = dhead[j] => dlog[i] = dlog[j]
    /\ boot = "up" => UpInv
    /\ boot # "up" => BootInv

\* The inductive invariant.
IInv == TypeOK /\ ControlInv /\ SpaceInv /\ DiskInv
===============================================================================
