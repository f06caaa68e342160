----------------------------- MODULE MCDirCache -----------------------------
(***************************************************************************)
(* Small trees for DirCache: /d with files and a directory s in it, also   *)
(* with a link that leads to a directory, to itself or back up, and on     *)
(* Windows a directory link to nowhere.                                    *)
(***************************************************************************)
EXTENDS DirCache, TLC

Bare == (<<>> :> Dir("rw")) @@ (<<"d">> :> Dir("rw"))
        @@ (<<"d", "a">> :> File("data", "rw")) @@ (<<"d", "s">> :> Dir("rw"))
Plain == Bare @@ (<<"d", "s", "a">> :> File("data", "rw"))
LinkInside(target) == Plain @@ (<<"d", "s", "l">> :> DirLink(target))

Linked == Bare @@ (<<"l">> :> DirLink(<<"d">>)) @@ (<<"s">> :> Link(<<"a">>))
Lost == (<<>> :> Dir("rw")) @@ (<<"d">> :> Dir("rw")) @@ (<<"d", "s">> :> DirLink(<<"a">>))
Trees == {Plain, Linked,
          LinkInside(<<"d">>),
          LinkInside(<<"d", "s", "l">>)}

Shared == {<<"d", "a">>, <<"d", "s">>, <<"d", "s", "a">>}

(* Everything is older than the build, but for one path. *)
But(t, q, time) == [p \in DOMAIN t |-> IF p = q THEN time ELSE 0]

Builds ==
  {[backend |-> "linux", tree |-> t, time |-> But(t, <<"d", "s">>, 1)] :
     t \in Trees} \cup
  {[backend |-> b, tree |-> Linked, time |-> But(Linked, <<"d", "a">>, 2)] :
     b \in {"linux", "windows"}} \cup
  {[backend |-> "windows", tree |-> LinkInside(<<"d">>),
    time |-> But(LinkInside(<<"d">>), <<"d", "s">>, 1)],
   [backend |-> "windows", tree |-> Lost, time |-> But(Lost, <<"d">>, 1)]}

Deep == [deep |-> TRUE, names |-> {}]
Some(names) == [deep |-> FALSE, names |-> names]
TimestampOf(p) == [ask |-> "timestamp", path |-> p, pattern |-> <<>>]
Expand(pattern) == [ask |-> "glob", path |-> <<>>, pattern |-> pattern]

Asked == {TimestampOf(<<"d">>), TimestampOf(<<"d", "s", "a">>),
          Expand(<<Some({"d", "s"}), Deep, Some({"a", "s"})>>)}
=============================================================================
