----------------------------- MODULE MCUserland -----------------------------
(***************************************************************************)
(* User programs: the shell (Shell) and the library's allocator (Heap).    *)
(* A command's processes have heaps of their own, so a behaviour is one of *)
(* the shell's or one of a heap's.                                         *)
(*                                                                         *)
(* Lines: every one of up to four characters, those of five without a      *)
(* blank or a "<", those of five that are words and ">" with blanks, and   *)
(* the longer ones that are run.                                           *)
(***************************************************************************)
EXTENDS Shell, Heap

VARIABLE part

MCRunLines == { <<"a", "|", "a">>,
                <<"a", "|", "a", "|", "a">>,
                <<"a", ";", "a", ">", "a">>,
                <<"a", "|", "a", "&">>,
                <<"(", "a", ";", "a", ")", "|", "a">>,
                <<"a", "&", ";", "a", "|", "a">>,
                <<"a", "&", "a">> }
MCLines == MCRunLines \cup UNION {[1..n -> Symbols \cup {"a", " "}] : n \in 0..4}
           \cup [1..5 -> (Symbols \ {"<"}) \cup {"a"}]
           \cup [1..5 -> {"a", " ", ">"}]

UserlandInit == /\ Init /\ HeapInit
                /\ part = "shell" \/ (part = "heap" /\ line = <<>>)
UserlandNext == /\ UNCHANGED part
                /\ \/ part = "shell" /\ Next /\ UNCHANGED hvars
                   \/ part = "heap" /\ HeapNext /\ UNCHANGED vars
UserlandSpec == UserlandInit /\ [][UserlandNext]_<<vars, hvars, part>> /\ Fairness
=============================================================================
