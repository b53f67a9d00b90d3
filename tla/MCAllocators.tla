---------------------------- MODULE MCAllocators ----------------------------
(***************************************************************************)
(* The two allocators of the kernel and the trees built from what they     *)
(* give: pages in page tables (Vm) and disk blocks in inodes (FileBlocks). *)
(* They share no state, so a behaviour is one of the one or of the other.  *)
(*                                                                         *)
(* Programs for exec: one page of code with data after it, a second        *)
(* segment in the next page table, an unaligned one, one that wraps past   *)
(* the end of the address space, and a file cut short.                     *)
(***************************************************************************)
EXTENDS Vm, FileBlocks

VARIABLE part

Segment(v, size, filesz) == [vaddr |-> v, memsz |-> size, filesz |-> filesz, whole |-> TRUE]
MCPrograms == { <<Segment(0, 3, 1)>>,
                <<Segment(0, 2, 2), Segment(4, 1, 1)>>,
                <<Segment(0, 2, 1), Segment(3, 1, 1)>>,
                <<Segment(0, 2, 2), Segment(WORD - 2, 4, 1)>>,
                <<[Segment(0, 4, 4) EXCEPT !.whole = FALSE]>> }

AllocatorsInit == /\ Init /\ FileInit
                  /\ part = "file" \/ (part = "vm" /\ limit = Min(Limits))
AllocatorsNext == /\ UNCHANGED part
                  /\ \/ part = "vm" /\ Next /\ UNCHANGED fvars
                     \/ part = "file" /\ FileNext /\ UNCHANGED vars
AllocatorsSpec == AllocatorsInit /\ [][AllocatorsNext]_<<vars, fvars, part>>
=============================================================================
