-------------------------------- MODULE Tty --------------------------------
(***************************************************************************)
(* What the console promises its readers: a line being edited, a queue of  *)
(* finished lines, and reads that take from the head of that queue.        *)
(***************************************************************************)
EXTENDS Naturals, Sequences

CONSTANTS Readers, Chars, INPUT_BUF

VARIABLES edit,        \* characters that can still be erased
          ready,       \* characters that can be read
          got          \* what a read in progress has been given so far

Init == edit = <<>> /\ ready = <<>> /\ got = [s \in Readers |-> <<>>]

Ends(c) == c \in {"nl", "eof"} \/ Len(ready) + Len(edit) + 1 = INPUT_BUF

Type(c) == /\ Len(ready) + Len(edit) < INPUT_BUF
           /\ edit' = IF Ends(c) THEN <<>> ELSE Append(edit, c)
           /\ ready' = IF Ends(c) THEN ready \o Append(edit, c) ELSE ready
           /\ UNCHANGED got

Erase == edit # <<>> /\ edit' = SubSeq(edit, 1, Len(edit) - 1) /\ UNCHANGED <<ready, got>>
KillLine == edit' = <<>> /\ UNCHANGED <<ready, got>>
Interrupt == edit' = <<>> /\ ready' = <<"nl">>

(* a read takes characters up to a newline, or the end of file mark alone, *)
(* and returns with them or waits for more                                 *)
Take(s, k) == /\ k \in 1..Len(ready)
              /\ \A i \in 1..k : ready[i] = "eof" => k = 1 /\ got[s] = <<>>
              /\ \A i \in 1..(k - 1) : ready[i] # "nl"
              /\ ready' = SubSeq(ready, k + 1, Len(ready))
              /\ \/ got' = [got EXCEPT ![s] = <<>>]
                 \/ /\ ready[k] \notin {"nl", "eof"}
                    /\ got' = [got EXCEPT ![s] = @ \o SubSeq(ready, 1, k)]
              /\ UNCHANGED edit

(* a read cut short by a signal keeps nothing of what it took              *)
Abort(s) == /\ \A i \in DOMAIN ready : ready[i] \notin {"nl", "eof"}
            /\ ready' = <<>>
            /\ got' = [got EXCEPT ![s] = <<>>]
            /\ UNCHANGED edit

Drop(s) == got' = [got EXCEPT ![s] = <<>>] /\ UNCHANGED <<edit, ready>>

Next == \/ \E c \in Chars : Type(c)
        \/ Erase \/ KillLine
        \/ Interrupt /\ (UNCHANGED got \/ \E s \in Readers : got' = [got EXCEPT ![s] = <<>>])
        \/ \E s \in Readers : Drop(s) \/ Abort(s) \/ \E k \in 1..INPUT_BUF : Take(s, k)

Spec == Init /\ [][Next]_<<edit, ready, got>>
=============================================================================
