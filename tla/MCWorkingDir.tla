---------------------------- MODULE MCWorkingDir ----------------------------
(***************************************************************************)
(* /d/s and /d/a with a file in each, a link /l to /d/s and one from /d/s  *)
(* back to /d.                                                             *)
(***************************************************************************)
EXTENDS WorkingDir, TLC

Tree == (<<>> :> Dir("rw")) @@ (<<"d">> :> Dir("rw")) @@ (<<"l">> :> Link(<<"d", "s">>))
        @@ (<<"d", "s">> :> Dir("rw")) @@ (<<"d", "a">> :> Dir("rw"))
        @@ (<<"d", "s", "f">> :> File("data", "rw"))
        @@ (<<"d", "s", "l">> :> Link(<<"d">>))

Anywhere ==
  {[backend |-> b, tree |-> Tree, cwd |-> c, bytes |-> n] :
     b \in {"linux", "windows"}, c \in {<<"d">>, <<"d", "a">>}, n \in {1000}}

Rel(names) == [absolute |-> FALSE, names |-> names]
Abs(names) == [absolute |-> TRUE, names |-> names]

Written ==
  {Rel(<<"s">>), Rel(<<"a">>), Rel(<<Up>>), Rel(<<"l">>), Rel(<<"f">>),
   Rel(<<Up, "a">>), Rel(<<Up, Up, Up, "l", "f">>), Rel(<<"s", "l", Up>>),
   Rel(<<"s", Up, "a">>), Abs(<<"l">>), Abs(<<"d", "s", "f">>), Abs(<<"l", "l", "a">>)}
HomeDirectory == {Abs(<<"d">>)}

Swaps == {[at |-> <<"d", "a">>, node |-> Link(<<"d", "s">>)],
          [at |-> <<"l">>, node |-> Link(<<"d">>)],
          [at |-> <<"l">>, node |-> Dir("rw")]}
=============================================================================
