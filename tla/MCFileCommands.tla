--------------------------- MODULE MCFileCommands ---------------------------
(***************************************************************************)
(* Requests for all the file commands on the trees of MCCopyTree.          *)
(***************************************************************************)
EXTENDS MCCopyTree, FileCommands

Ask(b, call, from, options, tree, future) ==
  [backend |-> b, call |-> call, from |-> from, to |-> from, slash |-> FALSE,
   masked |-> FALSE, options |-> options, tree |-> For(b, tree), future |-> future]

(* One tree for each thing a directory may hold. *)
Holding(node) ==
  (<<>> :> Dir("rw")) @@ (<<"s">> :> Dir("rw"))
  @@ (<<"s", "a">> :> File("new", "ro")) @@ (<<"s", "b">> :> node)

LinuxTrees ==
  {Holding(Dir("ro")), Holding(Dir("rw")) @@ (<<"s", "b", "a">> :> File("new", "rw")),
   Holding(Dir("ro")) @@ (<<"s", "b", "a">> :> File("empty", "rw")),
   Holding(Other)}
Links ==
  {Holding(Link(<<"s">>)), Holding(Link(<<"s", "a">>)),
   Holding(Link(<<"d">>)), Holding(Link(<<"s", "b">>)),
   Holding(Link(<<"d">>)) @@ (<<"d">> :> Dir("rw")) @@ (<<"d", "a">> :> File("old", "rw")),
   Holding(Link(<<"d">>)) @@ (<<"d">> :> Link(<<"s", "d">>))}
WindowsTrees ==
  {Holding(Dir("rw")) @@ (<<"s", "b", "a">> :> File("new", "rw")),
   (<<>> :> Dir("rw")) @@ (<<"s">> :> Dir("rw")) @@ (<<"s", "b">> :> File("new", "rw"))
     @@ (<<"s", "d">> :> Link(<<"d">>)) @@ (<<"d">> :> Dir("rw"))
     @@ (<<"d", "a">> :> File("old", "rw"))}

(* What rm removes first is what a link leads to that it lists later, or   *)
(* what its operand leads through.                                         *)
Knotted ==
  {Ask(b, "rm", p, {"r", "f"},
       Holding(Dir("rw")) @@ (<<"s", "b", "a">> :> Link(q)) @@ (<<"d">> :> Link(<<"s", "b", "a">>)),
       {}) :
     b \in {"linux", "windows"}, p \in {<<"s">>, <<"d", "b">>},
     q \in {<<"s">>, <<"s", "a">>, <<"s", "b">>}}

Removals ==
  Knotted \cup
  {Ask("linux", "rm", p, o, t, {}) :
     p \in {<<"s">>, <<"s", "b">>, <<"d", "a">>}, o \in {{}, {"f"}, {"r"}, {"r", "f"}},
     t \in LinuxTrees \cup Links}
  \cup {Ask("windows", "rm", p, o, t, {}) :
     p \in {<<"s">>, <<"s", "b">>}, o \in {{}, {"r", "f"}},
     t \in WindowsTrees \cup Links}
  \cup {Ask(b, "rm", <<"s">>, {"r", "f"}, t, {<<"d", "a">>, <<"s", "a">>}) :
     b \in {"linux", "windows"}, t \in WindowsTrees}

Makings ==
  {Ask(b, "mkdir", p, o, t, {}) :
     b \in {"linux", "windows"}, p \in {<<"d">>, <<"s", "b">>, <<"s", "b", "d">>},
     o \in {{}, {"p"}}, t \in Links \cup {Holding(Dir("ro")), Holding(File("old", "ro"))}}

Touches ==
  {Ask(b, "touch", p, o, t, {}) :
     b \in {"linux", "windows"}, p \in {<<"d">>, <<"s", "b">>, <<"s", "b", "d">>},
     o \in {{}, {"c"}},
     t \in Links \cup {Holding(Dir("rw")), Holding(File("old", "ro"))}}

(* Local time is five hours behind, four from 26 April to 25 October 1970: *)
(* 2:30 is skipped on the first day, 1:30 comes twice on the last.         *)
Eastern == {[from |-> -2147483647, offset |-> -18000],
            [from |-> 9961200, offset |-> -14400],
            [from |-> 25682400, offset |-> -18000]}

Date(digits, year, month, day, hour, minute, second) ==
  [digits |-> digits, year |-> year, month |-> month, day |-> day,
   hour |-> hour, minute |-> minute, second |-> second]

Dates ==
  {Date(8, 0, m, d, 12, 0, 0) : m \in {0, 1, 2, 13}, d \in {0, 1, 29, 30, 31, 32}}
  \cup {Date(10, y, m, 31, 23, 59, s) :
          y \in {0, 37, 69, 70, 99}, m \in {11, 12}, s \in {0, 59, 60, 61}}
  \cup {Date(12, y, 2, 29, h, 30, 0) : y \in {1902, 1969, 1970, 1972, 2000, 2023}, h \in {0, 24}}
  \cup {Date(12, 1970, 4, 26, h, 30, 0) : h \in 1 .. 3}
  \cup {Date(12, 1970, 10, 25, h, 30, 0) : h \in 0 .. 2}
  \cup {Date(12, 1969, 12, 31, 18, 59, 59), Date(12, 1969, 12, 31, 19, 0, 0)}

Stampings ==
  {Ask(b, "touch", p, {"t"}, Holding(Link(<<"d">>)), {}) @@ [date |-> d] :
     b \in {"linux", "windows"}, p \in {<<"d">>, <<"s", "a">>}, d \in Dates}
  \cup {Ask(b, "touch", p, {"t"} \cup o, t, {}) @@ [date |-> Date(8, 0, 1, 1, 0, 0, 0)] :
     b \in {"linux", "windows"}, p \in {<<"d">>, <<"s", "b">>}, o \in {{}, {"c"}},
     t \in Links}

(* A directory link to nowhere, and what umask leaves.                     *)
Oddities ==
  {[Ask("windows", c, p, o, Holding(Other), {}) EXCEPT !.tree = Holding(DirLink(<<"d">>))] :
     c \in {"mkdir", "touch"}, p \in {<<"s", "b">>, <<"s", "b", "d">>}, o \in {{}, {"p"}}}
  \cup {[Ask("windows", "rm", p, {"r", "f"}, Holding(Other), {})
            EXCEPT !.tree = Holding(DirLink(<<"d">>))] : p \in {<<"s">>, <<"s", "b">>}}
  \cup {[Ask("linux", c, <<"d", "d">>, o, t, {}) EXCEPT !.masked = TRUE] :
     c \in {"mkdir", "touch"}, o \in {{}, {"p"}},
     t \in {Holding(Pipe), Holding(Pipe) @@ (<<"d">> :> Dir("rw"))}}

Questions ==
  {Ask(b, "test", p, {o}, t, {}) :
     b \in {"linux", "windows"}, p \in {<<"d">>, <<"s", "a">>, <<"s", "b">>},
     o \in {"e", "f", "d", "s", "r", "w"},
     t \in Links \cup {Holding(Dir("rw")), Holding(File("empty", "ro"))}}

AllRequests == CopyRequests \cup Removals \cup Makings \cup Touches
               \cup Stampings \cup Oddities \cup Questions
=============================================================================
