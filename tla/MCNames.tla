------------------------------- MODULE MCNames -------------------------------
(* An image of mkfs's: the root, its directory d, the file d/a.               *)
EXTENDS Names, TLC

MCInums == 1..4
MCNames == {"a", "d"}

a == <<"/", "a">>
d == <<"/", "d">>
da == <<"/", "d", "a">>
MCOps == {<<"open", da, <<>>>>, <<"open", a, <<>>>>, <<"creat", a, <<>>>>, <<"creat", da, <<>>>>,
          <<"mkdir", a, <<>>>>, <<"mknod", a, <<>>>>, <<"chdir", d, <<>>>>,
          <<"unlink", da, <<>>>>, <<"unlink", a, <<>>>>, <<"unlink", d, <<>>>>,
          <<"link", da, a>>, <<"link", da, <<"..">>>>, <<"symlink", a, da>>,
          <<"symlink", a, <<"/">>>>, <<"link", a, <<"/", "d", "d">>>>, <<"creat", <<"d">>, <<>>>>}

MCShortTargets == {<<>>, <<"/">>, a, d}   \* "/d/a" has four bytes

Symmetry == Permutations(Procs)

NewInode(t) == [Free EXCEPT !.type = t, !.nlink = 1]
MCImage == << <<NewInode("dir"), NewInode("dir"), NewInode("file"), Free>>,
              <<[NoDir EXCEPT !["."] = 1, ![".."] = 1, !["d"] = 2],
                [NoDir EXCEPT !["."] = 2, ![".."] = 1, !["a"] = 3], NoDir, NoDir>> >>
==============================================================================
