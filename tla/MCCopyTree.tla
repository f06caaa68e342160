----------------------------- MODULE MCCopyTree -----------------------------
(***************************************************************************)
(* Small trees for CopyTree: /s is the source, /d the destination.         *)
(***************************************************************************)
EXTENDS CopyTree, TLC

Tree(s, d) == s @@ d @@ (<<>> :> Dir("rw"))

Below1(mode, node) ==
  (<<"s">> :> Dir(mode)) @@ (<<"s", "a">> :> File("new", "ro"))
  @@ (<<"s", "b">> :> node)

DanglingInTheMiddle ==
  Below1("rw", Link(<<"b">>)) @@ (<<"s", "d">> :> File("new", "rw"))

Sources ==
  {<<"s">> :> File("new", "rw"), <<"s">> :> Pipe,
   Below1("rw", Dir("ro")),
   Below1("ro", Dir("rw")) @@ (<<"s", "b", "a">> :> File("empty", "rw")),
   (<<"s">> :> Dir("rw")) @@ (<<"s", "a">> :> File("new", "rw"))
     @@ (<<"s", "b">> :> Dir("rw")) @@ (<<"s", "b", "a">> :> File("empty", "rw")),
   Below1("rw", Other),
   Below1("rw", Link(<<"s">>)),
   Below1("ro", Link(<<"s", "a">>)),
   Below1("rw", Link(<<"d">>)),
   DanglingInTheMiddle}

Nothing == [p \in {} |-> Other]

Destinations ==
  {Nothing,
   <<"d">> :> Dir("rw"),
   <<"d">> :> Dir("ro"),
   <<"d">> :> File("old", "rw"),
   <<"d">> :> Link(<<"s">>),
   <<"d">> :> Link(<<"b">>),
   (<<"d">> :> Dir("rw")) @@ (<<"d", "s">> :> Dir("rw"))
     @@ (<<"d", "s", "a">> :> File("old", "rw")),
   (<<"d">> :> Dir("rw")) @@ (<<"d", "s">> :> Dir("rw"))
     @@ (<<"d", "s", "a">> :> Dir("rw")),
   (<<"d">> :> Dir("rw")) @@ (<<"d", "s">> :> Dir("ro"))
     @@ (<<"d", "s", "b">> :> Link(<<"s">>)),
   (<<"d">> :> Dir("rw")) @@ (<<"d", "s">> :> Dir("rw"))
     @@ (<<"d", "s", "b">> :> Link(<<"d", "s">>)),
   (<<"d">> :> Dir("rw")) @@ (<<"d", "s">> :> Dir("rw"))
     @@ (<<"d", "s", "b">> :> Link(<<"s">>)),
   (<<"d">> :> Dir("rw")) @@ (<<"d", "s">> :> File("old", "ro"))}

Trees == {Tree(s, d) : s \in Sources, d \in Destinations}

(* On Windows a link is made for what it leads to, and there are no pipes. *)
ForWindows(t) ==
  [p \in DOMAIN t |->
     CASE t[p].kind = "link" -> [t[p] EXCEPT !.directory = Is(t, Stat(t, p), "dir")]
       [] t[p].kind = "pipe" -> Other
       [] OTHER -> t[p]]
For(b, t) == IF b = "windows" THEN ForWindows(t) ELSE t

Operands ==
  {[from |-> <<"s">>, to |-> <<"d">>, slash |-> FALSE],
   [from |-> <<"s">>, to |-> <<"d">>, slash |-> TRUE],
   [from |-> <<"s">>, to |-> <<"s", "b">>, slash |-> FALSE],
   [from |-> <<"s", "a">>, to |-> <<"s">>, slash |-> FALSE],
   [from |-> <<"s", "a">>, to |-> <<"d">>, slash |-> FALSE],
   [from |-> <<"s", "b">>, to |-> <<"d">>, slash |-> FALSE]}

(* The counterpart of what is copied lies in the source: by a link in the   *)
(* destination, or because the source is below the destination.            *)
ThroughTheDestination ==
  {[from |-> <<"s">>, to |-> <<"d">>,
    tree |-> Tree((<<"s">> :> Dir("rw")) @@ (<<"s", "b">> :> Dir("rw"))
                    @@ (<<"s", "b", "a">> :> Dir("rw")),
                  (<<"d">> :> Dir("rw")) @@ (<<"d", "s">> :> Dir("rw"))
                    @@ (<<"d", "s", "b">> :> Link(<<"s">>)))],
   [from |-> <<"d", "d">>, to |-> <<>>,
    tree |-> Tree((<<"d">> :> Dir("rw")) @@ (<<"d", "d">> :> Dir("rw")),
                  (<<"d", "d", "d">> :> Dir("rw"))
                    @@ (<<"d", "d", "d", "a">> :> Dir("rw")))]}

(* Two directories are copied to one; a file is written over through a      *)
(* name that the copy makes itself.                                         *)
OneForTwo ==
  Tree((<<"s">> :> Dir("rw")) @@ (<<"s", "a">> :> Dir("rw")) @@ (<<"s", "b">> :> Dir("ro")),
       (<<"d">> :> Dir("rw")) @@ (<<"d", "s">> :> Dir("rw"))
         @@ (<<"d", "s", "b">> :> Link(<<"d", "s", "a">>)))
OverItself ==
  Tree((<<"s">> :> Dir("rw")) @@ (<<"s", "a">> :> Dir("rw"))
         @@ (<<"s", "a", "a">> :> File("new", "rw")) @@ (<<"s", "b">> :> Dir("rw"))
         @@ (<<"s", "b", "a">> :> File("empty", "rw")) @@ (<<"s", "d">> :> Link(<<"d", "s", "a">>)),
       (<<"d">> :> Dir("rw")) @@ (<<"d", "s">> :> Dir("rw")) @@ (<<"d", "s", "a">> :> Dir("rw"))
         @@ (<<"d", "s", "b">> :> Dir("rw")) @@ (<<"d", "s", "d">> :> Link(<<"d", "s", "b">>)))
TwoNamesForOne ==
  {[from |-> <<"s">>, to |-> <<"d">>, tree |-> t] : t \in {OneForTwo, OverItself}}

CopyOf(b, call, tree, from, to) ==
  [backend |-> b, call |-> call, tree |-> For(b, tree), from |-> from, to |-> to,
   slash |-> FALSE, masked |-> FALSE, options |-> {}, future |-> {}]

(* Files that umask makes read-only, and a pipe among them.                *)
UnderMask ==
  {[CopyOf("linux", c, Tree(s, d), <<"s">>, <<"d">>) EXCEPT !.masked = TRUE] :
     c \in {"cp", "cp -r"}, d \in {Nothing, <<"d">> :> Dir("rw"), <<"d">> :> File("old", "rw")},
     s \in {<<"s">> :> File("new", "rw"), Below1("rw", File("old", "rw")), Below1("rw", Pipe)}}

(* Directory links that lead nowhere, for directories with entries and     *)
(* without.                                                                *)
ToNowhere ==
  {[CopyOf("windows", "cp -r", Tree(s, <<>> :> Dir("rw")), <<"s">>, <<"d">>)
      EXCEPT !.tree = @ @@ d] :
     s \in {<<"s">> :> Dir("rw"), Below1("rw", Dir("ro"))},
     d \in {<<"d">> :> DirLink(<<"b">>),
            (<<"d">> :> Dir("rw")) @@ (<<"d", "s">> :> DirLink(<<"b">>)),
            (<<"d">> :> Dir("rw")) @@ (<<"d", "s">> :> Dir("rw"))
              @@ (<<"d", "s", "b">> :> DirLink(<<"b">>))}}

CopyRequests ==
  {CopyOf(b, "cp -r", o.tree, o.from, o.to) :
     b \in {"linux", "windows"}, o \in ThroughTheDestination \cup TwoNamesForOne}
  \cup
  {[CopyOf(b, c, t, o.from, o.to) EXCEPT !.slash = o.slash] :
     b \in {"linux", "windows"},
     c \in {"cp", "cp -r", "os_copy_dir", "os_copy_file"},
     t \in Trees, o \in Operands}
  \cup UnderMask \cup ToNowhere

(* Two files and a link to nowhere, to a place that does not exist. *)
DanglingLink ==
  {CopyOf("linux", "os_copy_dir", Tree(DanglingInTheMiddle, Nothing), <<"s">>, <<"d">>)}
=============================================================================
