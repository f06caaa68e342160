------------------------------ MODULE FileTree ------------------------------
(***************************************************************************)
(* The directory tree as the system calls of the back ends see it.  A tree *)
(* is a function from the paths that exist, as sequences of names from the *)
(* root without links, to nodes.  A path a program uses may lead through   *)
(* links.  The kernel is not part of the repository: this module says what *)
(* oslinux.c and oswindows.c rely on.  Hard links are left out: two paths  *)
(* are the same file when they resolve to the same place.                  *)
(***************************************************************************)
EXTENDS Naturals, SequencesExt

CONSTANTS Name,      \* names of directory entries
          Content,   \* what a file may contain
          MaxLinks,  \* links the kernel follows in one path (40 on Linux)
          MaxPath    \* names in the longest path (PATH_MAX)

ASSUME LimitsAssumption == MaxLinks \in Nat /\ MaxPath \in Nat

Path == Seq(Name)

\* A file that was created or truncated and not written completely
Torn == "torn"

\* "rw" and "ro": whether the owner may write.  "open" is the 0700 of a
\* directory that is being populated.  A link on Windows was made for a
\* directory or for a file, whatever it leads to.  To open a "pipe" is to wait
\* for its other end; what is "other", a socket or a device, is just no file.
Node == [kind : {"dir"}, mode : {"rw", "ro", "open"}]
        \cup [kind : {"file"}, mode : {"rw", "ro"}, data : Content \cup {Torn}]
        \cup [kind : {"link"}, target : Path, directory : BOOLEAN]
        \cup [kind : {"pipe", "other"}]

Dir(m) == [kind |-> "dir", mode |-> m]
File(d, m) == [kind |-> "file", mode |-> m, data |-> d]
Link(p) == [kind |-> "link", target |-> p, directory |-> FALSE]
DirLink(p) == [kind |-> "link", target |-> p, directory |-> TRUE]
Pipe == [kind |-> "pipe"]
Other == [kind |-> "other"]

Entries(t, d) == {Last(p) : p \in {q \in DOMAIN t : q # <<>> /\ Front(q) = d}}

With(t, p, node) == [q \in DOMAIN t \cup {p} |-> IF q = p THEN node ELSE t[q]]
WithFile(t, p, d, m) == [t EXCEPT ![p] = File(d, m)]
Without(t, p) == [q \in DOMAIN t \ {p} |-> t[q]]

-----------------------------------------------------------------------------
Found(p) == [error |-> "none", at |-> p]
Error(e) == [error |-> e, at |-> <<>>]

\* The kernel walks a path name by name, from the root again at each link.
Position == [at : Path, rest : Path, links : 0 .. MaxLinks]
Ahead(w) == Append(w.at, Head(w.rest))
IsFollowed(t, w, followLast) ==
  t[Ahead(w)].kind = "link" /\ (followLast \/ Tail(w.rest) # <<>>)
Onward(t, w, followLast) ==
  IF IsFollowed(t, w, followLast)
  THEN [at |-> <<>>, rest |-> t[Ahead(w)].target \o Tail(w.rest),
        links |-> w.links - 1]
  ELSE [at |-> Ahead(w), rest |-> Tail(w.rest), links |-> w.links]

Reached(t, followLast) ==
  LET From[w \in Position] ==
        IF w.rest = <<>> THEN Found(w.at)
        ELSE IF t[w.at].kind # "dir" THEN Error("ENOTDIR")
        ELSE IF Ahead(w) \notin DOMAIN t THEN Error("ENOENT")
        ELSE IF IsFollowed(t, w, followLast) /\ w.links = 0 THEN Error("ELOOP")
        ELSE From[Onward(t, w, followLast)]
  IN  From
Walk(t, path, followLast) ==
  IF Len(path) > MaxPath THEN Error("ENAMETOOLONG")
  ELSE Reached(t, followLast)[[at |-> <<>>, rest |-> path, links |-> MaxLinks]]

Stat(t, path) == Walk(t, path, TRUE)
Lstat(t, path) == Walk(t, path, FALSE)

\* fstatat: the name of an entry alone, from its directory.
StatAt(t, directory, n) ==
  Reached(t, TRUE)[[at |-> directory, rest |-> <<n>>, links |-> MaxLinks]]

Is(t, found, kind) ==
  found.error = "none" /\ found.at \in DOMAIN t /\ t[found.at].kind = kind

\* On Windows a link has the attribute of what it was made for, also when it
\* leads nowhere.
HasDirectoryAttribute(t, p) ==
  \/ Is(t, Lstat(t, p), "dir")
  \/ Is(t, Lstat(t, p), "link") /\ t[Lstat(t, p).at].directory

\* Where a new entry of that name would be, if one can be made: nothing has
\* the name, not even a link to nowhere, and the directory may be written.
NewPlace(t, path, modes) ==
  LET parent == Stat(t, Front(path))
      place == Append(parent.at, Last(path))
  IN  {p \in {place} :
         /\ path # <<>>
         /\ Len(path) <= MaxPath
         /\ Is(t, parent, "dir")
         /\ t[parent.at].mode \in modes
         /\ p \notin DOMAIN t}
=============================================================================
