--------------------------- MODULE AddressSpaces ---------------------------
(***************************************************************************)
(* What the virtual memory system promises: every process has an array of  *)
(* pages of its own.  sbrk adds zeroed pages at the end or drops the last  *)
(* ones, fork starts the child with a copy, exec replaces the whole array  *)
(* by the image of the program.  A call that fails changes nothing, but    *)
(* for an sbrk that gives all pages back: they are gone when it fails.     *)
(***************************************************************************)
EXTENDS Naturals

CONSTANTS Procs,       \* process slots
          UPAGES,      \* pages below KERNBASE
          Images       \* the arrays a program file can start with

VARIABLE img           \* img[p][i]: the content of page i, "none" if absent

Empty == [i \in 0..UPAGES-1 |-> "none"]

Init == \E p \in Procs, v \in {"zero", "text"} :
           img = [q \in Procs |-> IF q = p THEN [Empty EXCEPT ![0] = v] ELSE Empty]

Top(a) == {i \in 0..UPAGES-1 : \A j \in 0..i : a[j] # "none"}
Resize(a, n) == [i \in 0..UPAGES-1 |-> IF i >= n THEN "none"
                                       ELSE IF a[i] = "none" THEN "zero" ELSE a[i]]

Store(p) == \E I \in SUBSET Top(img[p]) :
              img' = [img EXCEPT ![p] = [i \in 0..UPAGES-1 |-> IF i \in I THEN "user" ELSE img[p][i]]]
Sbrk(p) == /\ img[p] # Empty
           /\ \E n \in 1..UPAGES : img' = [img EXCEPT ![p] = Resize(img[p], n)]
Fork(p, c) == img[c] = Empty /\ img[p] # Empty /\ img' = [img EXCEPT ![c] = img[p]]
Exec(p) == img[p] # Empty /\ \E a \in Images : img' = [img EXCEPT ![p] = a]
SbrkAll(p) == img' = [img EXCEPT ![p] = Empty]
Reaped(c) == img' = [img EXCEPT ![c] = Empty]

Next == \/ \E c \in Procs : Reaped(c)
        \/ \E p \in Procs : \/ Store(p) \/ Sbrk(p) \/ SbrkAll(p) \/ Exec(p)
                            \/ \E c \in Procs \ {p} : Fork(p, c)

Spec == Init /\ [][Next]_img
=============================================================================
