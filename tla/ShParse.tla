------------------------------ MODULE ShParse ------------------------------
(***************************************************************************)
(* The shell's parser (bin/sh/sh.c): gettoken(), peek() and the recursive  *)
(* descent from parsecmd() down, on a line of characters in which "a"      *)
(* stands for any character of a word.  A word is known by the index of    *)
(* its first character.  Below it, the grammar the parser implements.      *)
(***************************************************************************)
EXTENDS Naturals, Sequences, FiniteSets, SequencesExt

CONSTANT MAXARGS

Symbols == {"<", "|", ">", "&", ";", "(", ")"}
Blank == " "

(* struct cmd and its constructors *)
EXEC(args) == [type |-> "EXEC", argv |-> args]
REDIR(cmd, file, fd) == [type |-> "REDIR", cmd |-> cmd, file |-> file, fd |-> fd]
PIPE(left, right) == [type |-> "PIPE", left |-> left, right |-> right]
LIST(left, right) == [type |-> "LIST", left |-> left, right |-> right]
BACK(cmd) == [type |-> "BACK", cmd |-> cmd]
ERR == [type |-> "ERR"]

-----------------------------------------------------------------------------
First(S) == CHOOSE i \in S : \A j \in S : i <= j
Skip(l, s) == First({i \in s..(Len(l) + 1) : i > Len(l) \/ l[i] # Blank})
Peek(l, s, toks) == Skip(l, s) <= Len(l) /\ l[Skip(l, s)] \in toks

(* the token at s, past the blanks at q: its kind, where it starts, where  *)
(* the next one does                                                       *)
Token(l, q) ==
  LET double == q <= Len(l) /\ l[q] = ">" /\ q < Len(l) /\ l[q + 1] = ">"
      end == IF q > Len(l) THEN q
             ELSE IF double THEN q + 2
             ELSE IF l[q] \in Symbols THEN q + 1
             ELSE First({i \in q..(Len(l) + 1) : i > Len(l) \/ l[i] \in Symbols \cup {Blank}})
      ret == IF q > Len(l) THEN "end" ELSE IF double THEN "+" ELSE l[q]
  IN [ret |-> ret, q |-> q, next |-> Skip(l, end)]
Gettoken(l, s) == Token(l, Skip(l, s))

Fd(tok) == IF tok = "<" THEN 0 ELSE 1

(* a result is the command and the place the parser has reached            *)
Got(cmd, s) == [cmd |-> cmd, s |-> s, bad |-> FALSE]
Fail == [cmd |-> ERR, s |-> 1, bad |-> TRUE]

RECURSIVE Parseredirs(_, _, _), Parseargs(_, _, _, _), Parsepipe(_, _), Parseline(_, _)

(* parseredirs(): the redirections at s, each as <<file, fd>>, after rs    *)
Addredir(l, tok, file, rs) ==
  IF file.ret # "a" THEN Fail
  ELSE Parseredirs(l, file.next, Append(rs, <<file.q, Fd(tok.ret)>>))
Parseredirs(l, s, rs) ==
  IF ~Peek(l, s, {"<", ">"}) THEN Got(rs, Skip(l, s))
  ELSE LET tok == Gettoken(l, s) IN Addredir(l, tok, Gettoken(l, tok.next), rs)

Wrap(cmd, rs) == FoldLeft(LAMBDA c, x : REDIR(c, x[1], x[2]), cmd, rs)

(* parseexec()'s loop over the words of a simple command                   *)
Stop == {"|", ")", "&", ";"}
TooMany_None(n) == FALSE
TooMany(n) == n >= MAXARGS
Addarg(l, args, tok, after) ==
  IF tok.ret # "a" \/ TooMany(Len(args) + 1) \/ after.bad THEN Fail
  ELSE Parseargs(l, after.s, Append(args, tok.q), after.cmd)
Parseargs(l, s, args, rs) ==
  LET tok == Gettoken(l, s)
  IN IF Peek(l, s, Stop) \/ tok.ret = "end" THEN Got(Wrap(EXEC(args), rs), Skip(l, s))
     ELSE Addarg(l, args, tok, Parseredirs(l, tok.next, rs))

(* parseblock(): the ")" after the body, and the redirections after it     *)
Closeblock(l, body) ==
  LET after == Parseredirs(l, Gettoken(l, body.s).next, <<>>)
  IN IF body.bad \/ ~Peek(l, body.s, {")"}) \/ after.bad THEN Fail
     ELSE Got(Wrap(body.cmd, after.cmd), after.s)
Parseblock(l, s) == Closeblock(l, Parseline(l, Gettoken(l, s).next))

Parsewords(l, rs) == IF rs.bad THEN rs ELSE Parseargs(l, rs.s, <<>>, rs.cmd)
Parseexec(l, s) == IF Peek(l, s, {"("}) THEN Parseblock(l, s)
                   ELSE Parsewords(l, Parseredirs(l, s, <<>>))

(* the command so far and the one after the "|" or ";"                     *)
Piped(left, right) == IF right.bad THEN right ELSE Got(PIPE(left.cmd, right.cmd), right.s)
Listed(left, right) == IF right.bad THEN right ELSE Got(LIST(left.cmd, right.cmd), right.s)

Pipeafter(l, left) ==
  IF left.bad \/ ~Peek(l, left.s, {"|"}) THEN left
  ELSE Piped(left, Parsepipe(l, Gettoken(l, left.s).next))
Parsepipe(l, s) == Pipeafter(l, Parseexec(l, s))

RECURSIVE Parseback(_, _)
Parseback(l, res) == IF Peek(l, res.s, {"&"})
                     THEN Parseback(l, Got(BACK(res.cmd), Gettoken(l, res.s).next)) ELSE res

Listafter(l, left) ==
  IF left.bad \/ ~Peek(l, left.s, {";"}) THEN left
  ELSE Listed(left, Parseline(l, Gettoken(l, left.s).next))
Jobafter(l, first) == IF first.bad THEN first ELSE Parseback(l, first)
Parseline(l, s) == Listafter(l, Jobafter(l, Parsepipe(l, s)))

(* parsecmd(): characters left over are an error                           *)
Parsecmd(l) == LET res == Parseline(l, 1)
               IN IF res.bad \/ Skip(l, res.s) <= Len(l) THEN ERR ELSE res.cmd

-----------------------------------------------------------------------------
(* The grammar: the set of trees of the tokens from i to j.                *)
(*   line  = pipe "&"* [";" line]        pipe = exec ["|" pipe]            *)
(*   exec  = "(" line ")" redir*  |  (word | redir)*                       *)
(*   redir = ("<" | ">" | ">>") word                                       *)

RECURSIVE Tokens(_, _)
Tokens(l, s) == LET t == Gettoken(l, s)
                IN IF t.ret = "end" THEN <<>> ELSE <<t>> \o Tokens(l, t.next)

IsRedir(ts, i) == ts[i].ret \in {"<", ">", "+"}
FileOf(ts, i) == i > 1 /\ IsRedir(ts, i - 1)
Redirs(ts, i, j) == [k \in 1..Cardinality({n \in i..j : IsRedir(ts, n)}) |->
  LET at == CHOOSE n \in i..j : IsRedir(ts, n) /\ Cardinality({x \in i..n : IsRedir(ts, x)}) = k
  IN <<ts[at + 1].q, Fd(ts[at].ret)>>]
Words(ts, i, j) == LET w == SelectSeq([k \in 1..(j - i + 1) |-> i + k - 1], LAMBDA k : ~IsRedir(ts, k) /\ ~FileOf(ts, k))
                   IN [k \in DOMAIN w |-> ts[w[k]].q]
OnlyRedirs(ts, i, j) == /\ \A k \in i..j : ts[k].ret = "a" \/ IsRedir(ts, k)
                        /\ \A k \in i..j : IsRedir(ts, k) => k < j /\ ts[k + 1].ret = "a"

RECURSIVE LineTrees(_, _, _), PipeTrees(_, _, _)
ExecTrees(ts, i, j) ==
  (IF OnlyRedirs(ts, i, j) /\ Len(Words(ts, i, j)) < MAXARGS
   THEN {Wrap(EXEC(Words(ts, i, j)), Redirs(ts, i, j))} ELSE {})
  \cup UNION {IF /\ ts[i].ret = "(" /\ ts[k].ret = ")"
                 /\ OnlyRedirs(ts, k + 1, j) /\ Words(ts, k + 1, j) = <<>>
              THEN {Wrap(t, Redirs(ts, k + 1, j)) : t \in LineTrees(ts, i + 1, k - 1)} ELSE {} : k \in (i + 1)..j}

PipeTrees(ts, i, j) ==
  ExecTrees(ts, i, j)
  \cup UNION {IF ts[k].ret # "|" THEN {}
              ELSE {PIPE(a, b) : a \in ExecTrees(ts, i, k - 1), b \in PipeTrees(ts, k + 1, j)} : k \in i..j}

Backs(t, n) == FoldLeft(LAMBDA c, k : BACK(c), t, [k \in 1..n |-> k])
JobTrees(ts, i, j) ==
  UNION {IF \A n \in (j - k + 1)..j : ts[n].ret = "&"
         THEN {Backs(t, k) : t \in PipeTrees(ts, i, j - k)} ELSE {} : k \in 0..(j - i + 1)}
LineTrees(ts, i, j) ==
  JobTrees(ts, i, j)
  \cup UNION {IF ts[k].ret # ";" THEN {}
              ELSE {LIST(a, b) : a \in JobTrees(ts, i, k - 1), b \in LineTrees(ts, k + 1, j)} : k \in i..j}

Grammar(l) == LET ts == Tokens(l, 1) IN LineTrees(ts, 1, Len(ts))
=============================================================================
