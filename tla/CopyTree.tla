------------------------------ MODULE CopyTree ------------------------------
(***************************************************************************)
(* Copying a file or a directory tree: cp of shell.lua, os_copy_file and   *)
(* os_copy_dir with both back ends, oslinux.c and oswindows.c.  The calls  *)
(* of copy_dir_exact (copy_directory_tree on Windows) nest; a sequence of  *)
(* frames holds their locals.  A step is what lies between two points at   *)
(* which another outcome of a system call matters.                         *)
(***************************************************************************)
EXTENDS FileTree

CONSTANTS Requests,   \* [backend, call, from, to, slash, masked, tree], see
                      \* CopyCalls; masked: umask denies the owner to write
          MaxFaults   \* system calls that may fail for reasons of their own

ASSUME RequestsAssumption ==
  /\ MaxFaults \in Nat
  /\ \A r \in Requests :
       /\ r.backend \in {"linux", "windows"} /\ r.masked \in BOOLEAN
       /\ r.from \in Path \ {<<>>} /\ r.to \in Path
       /\ <<>> \in DOMAIN r.tree /\ DOMAIN r.tree \subseteq Path
       /\ \A p \in DOMAIN r.tree : r.tree[p] \in Node

\* Torn is what a call leaves: what a file holds before it is its content.
ASSUME WholeAssumption ==
  \A r \in Requests : \A p \in DOMAIN r.tree :
    r.tree[p].kind = "file" => r.tree[p].data # Torn

\* The root is a directory, and what exists is in a directory.
ASSUME TreesAssumption ==
  \A r \in Requests :
    /\ r.tree[<<>>].kind = "dir"
    /\ \A p \in DOMAIN r.tree \ {<<>>} :
         Front(p) \in DOMAIN r.tree /\ r.tree[Front(p)].kind = "dir"

VARIABLES req,      \* the call, and the tree it found
          fs,       \* the tree
          pc,       \* request, enter, read, file, write, close, done
          stack,    \* open directories, the innermost last
          args,     \* from and to of the callee
          writing,  \* the file being written
          ret,      \* what the last call returned
          faults,   \* failures so far
          missed    \* an error followed a child that went well (Linux)

vars == <<req, fs, pc, stack, args, writing, ret, faults, missed>>

CopyCalls == {"cp", "cp -r", "os_copy_dir", "os_copy_file"}

Copying == req.call \in CopyCalls
Linux == req.backend = "linux"
Windows == req.backend = "windows"

NoFile == [place |-> <<>>, created |-> FALSE, source |-> <<>>]

Init ==
  /\ req \in Requests
  /\ fs = req.tree
  /\ pc = "request"
  /\ stack = <<>>
  /\ args = [from |-> req.from, to |-> req.to]
  /\ writing = NoFile
  /\ ret = 0
  /\ faults = 0
  /\ missed = FALSE

Top == Last(stack)
SetTop(frame) == stack' = Append(Front(stack), frame)

-----------------------------------------------------------------------------
(* Returning to the caller whose frames are s. *)
ReturnUnheard(s, value) ==                  \* mutant: drops a child's result
  /\ ret' = value
  /\ stack' = s
  /\ pc' = IF s = <<>> THEN "done" ELSE "read"
Return(s, value) ==
  /\ ret' = value
  /\ IF s = <<>>
     THEN stack' = <<>> /\ pc' = "done"
     ELSE /\ stack' = Append(Front(s), [Last(s) EXCEPT !.result = value])
          /\ pc' = IF value = 0 THEN "read" ELSE "close"

(* A system call that fails although nothing in the tree says so: no      *)
(* memory, no descriptors, an I/O error.                                   *)
Fault == faults < MaxFaults /\ faults' = faults + 1

-----------------------------------------------------------------------------
IsDirectory(t, p) == IF Linux THEN Is(t, Stat(t, p), "dir")
                     ELSE HasDirectoryAttribute(t, p)
Probe(t, p) == IF Linux THEN Stat(t, p) ELSE Lstat(t, p)
(* What is left of the permissions that open and mkdir are given. *)
Masked(mode) == IF Linux /\ req.masked THEN "ro" ELSE mode
(* Permissions of a directory in which an entry can be made. *)
Writable == IF Linux THEN {"rw", "open"} ELSE {"rw", "ro", "open"}

Missing(found) == \/ found.error = "ENOENT"
                  \/ Windows /\ found.error = "ENOTDIR"

(* The paths copy_destination returns: one or none. *)
Destination(t) ==
  {p \in {req.to, Append(req.to, Last(req.from))} :
     IF IsDirectory(t, req.to) THEN p # req.to
     ELSE /\ p = req.to
          /\ ~req.slash
          /\ (Probe(t, p).error = "none" \/ Missing(Probe(t, p)))}

(* realpath of what exists, and of the parent of what does not. *)
Canonical(t, p) ==
  IF Stat(t, p).error = "none" THEN {Stat(t, p).at}
  ELSE LET parent == Stat(t, Front(p))
       IN  {c \in {Append(parent.at, Last(p))} : parent.error = "none"}

SamePath(parent, p) == parent = p           \* mutant: forgets children
SameOrChild(parent, p) == IsPrefix(parent, p)

Separate(t, p) ==
  IF Linux
  THEN /\ Stat(t, req.from).error = "none"
       /\ Stat(t, p).error \in {"none", "ENOENT"}
       /\ \E c \in Canonical(t, p) : ~SameOrChild(Stat(t, req.from).at, c)
  ELSE /\ Is(t, Lstat(t, req.from), "dir")
       /\ ~SameOrChild(req.from, p)

CopiesDirectory(t) ==
  \/ req.call = "os_copy_dir"
  \/ (req.call = "cp -r" /\ Is(t, Lstat(t, req.from), "dir"))
CopiesFile(t) ==
  \/ req.call = "os_copy_file"
  \/ (req.call \in {"cp", "cp -r"} /\ ~Is(t, Lstat(t, req.from), "dir"))

CopyDir ==
  /\ pc = "request"
  /\ CopiesDirectory(fs)
  /\ \E p \in Destination(fs) :
       /\ Separate(fs, p)
       /\ args' = [from |-> req.from, to |-> p]
  /\ pc' = "enter"
  /\ UNCHANGED <<req, fs, stack, writing, ret, faults, missed>>

CopyFile ==
  /\ pc = "request"
  /\ CopiesFile(fs)
  /\ \E p \in Destination(fs) : args' = [from |-> req.from, to |-> p]
  /\ pc' = "file"
  /\ UNCHANGED <<req, fs, stack, writing, ret, faults, missed>>

RefuseCopy ==
  /\ pc = "request"
  /\ Copying
  /\ ~\E p \in Destination(fs) :
        CopiesFile(fs) \/ (CopiesDirectory(fs) /\ Separate(fs, p))
  /\ Return(stack, -1)
  /\ UNCHANGED <<req, fs, args, writing, faults, missed>>

-----------------------------------------------------------------------------
(* The beginning of copy_dir_exact: the source is opened first, then the  *)
(* destination is made.  copy_directory_tree makes the destination first. *)
Frame(t, place, created, result) ==
  [from |-> args.from, to |-> args.to, at |-> Stat(fs, args.from).at,
   place |-> place, created |-> created, result |-> result,
   listed |-> Entries(t, Stat(fs, args.from).at), seen |-> {}]

Opens(t) == Is(t, Stat(t, args.from), "dir")
Makeable(t) == {p \in NewPlace(t, args.to, Writable) :
                  Linux => Stat(t, args.to).error = "ENOENT"}
(* dir_exists is content with a directory link that leads to none.         *)
Nowhere(t) == /\ Windows /\ HasDirectoryAttribute(t, args.to)
              /\ ~Is(t, Stat(t, args.to), "dir")

EnterExisting ==
  /\ pc = "enter"
  /\ Opens(fs)
  /\ Is(fs, Stat(fs, args.to), "dir")
  /\ stack' = Append(stack, Frame(fs, Stat(fs, args.to).at, FALSE,
                                  IF Linux THEN -1 ELSE 0))
  /\ pc' = "read"
  /\ UNCHANGED <<req, fs, args, writing, ret, faults, missed>>

EnterNew ==
  /\ pc = "enter"
  /\ Opens(fs)
  /\ \E p \in Makeable(fs) :
       /\ fs' = With(fs, p, Dir(IF Linux THEN "open" ELSE "rw"))
       /\ stack' = Append(stack, Frame(IF Linux THEN fs ELSE fs', p, TRUE,
                                       IF Linux THEN -1 ELSE 0))
  /\ pc' = "read"
  /\ UNCHANGED <<req, args, writing, ret, faults, missed>>

(* Made, but it cannot be opened to the owner (Linux), or the source       *)
(* cannot be listed (Windows): back to the end of the function.            *)
EnterNewFails ==
  /\ pc = "enter"
  /\ \E p \in Makeable(fs) :
       /\ fs' = With(fs, p, Dir(Masked("rw")))
       /\ stack' = Append(stack, Frame(fs', p, TRUE, -1))
  /\ Opens(fs)
  /\ Fault
  /\ pc' = "close"
  /\ UNCHANGED <<req, args, writing, ret, missed>>

(* Every entry fails then, but there need not be one.                      *)
EnterNowhere ==
  /\ pc = "enter"
  /\ Opens(fs) /\ Nowhere(fs)
  /\ Return(stack, IF Entries(fs, Stat(fs, args.from).at) = {} THEN 0 ELSE -1)
  /\ UNCHANGED <<req, fs, args, writing, faults, missed>>

EnterFails ==
  /\ pc = "enter"
  /\ \/ Fault
     \/ /\ \/ ~Opens(fs)
           \/ /\ ~Is(fs, Stat(fs, args.to), "dir") /\ Makeable(fs) = {}
              /\ ~Nowhere(fs)
        /\ UNCHANGED faults
  /\ Return(stack, -1)
  /\ UNCHANGED <<req, fs, args, writing, missed>>

-----------------------------------------------------------------------------
(* One entry of the directory.  Entries made since it was opened may be    *)
(* returned or not.  Linux asks stat, which follows links; Windows has the *)
(* attributes from the listing and refuses links.                          *)
Child(n) == Append(Top.from, n)
Unread == Entries(fs, Top.at) \ Top.seen
SeenNothing(n) == Top                       \* mutant: reads an entry again
Seen(n) == [Top EXCEPT !.seen = @ \cup {n}]
Call(n, where) ==
  /\ SetTop(Seen(n))
  /\ args' = [from |-> Child(n), to |-> Append(Top.to, n)]
  /\ pc' = where
  /\ UNCHANGED <<req, fs, writing, ret, faults, missed>>

(* break without a result for this entry: what the last child returned     *)
(* stays.  On Windows every way out of the loop sets the result.           *)
LeaveLoop(frame) ==
  /\ SetTop([frame EXCEPT !.result = IF Linux THEN @ ELSE -1])
  /\ missed' = (missed \/ (Linux /\ Top.result = 0))
  /\ pc' = "close"
  /\ UNCHANGED <<req, fs, args, writing, ret>>

ReadDirectory(n) ==
  /\ pc = "read" /\ n \in Unread
  /\ Is(fs, Probe(fs, Child(n)), "dir")
  /\ Call(n, "enter")

ReadFile(n) ==
  /\ pc = "read" /\ n \in Unread
  /\ Is(fs, Probe(fs, Child(n)), "file")
  /\ Call(n, "file")

ReadOther(n) ==
  /\ pc = "read" /\ n \in Unread
  /\ \E kind \in {"pipe", "other", "link"} : Is(fs, Probe(fs, Child(n)), kind)
  /\ SetTop([Seen(n) EXCEPT !.result = -1])
  /\ pc' = "close"
  /\ UNCHANGED <<req, fs, args, writing, ret, faults, missed>>

ReadUnreachable(n) ==
  /\ pc = "read" /\ n \in Unread
  /\ (Probe(fs, Child(n)).error # "none" /\ UNCHANGED faults) \/ Fault
  /\ LeaveLoop(Seen(n))

ReadFails ==
  /\ pc = "read"
  /\ Fault
  /\ LeaveLoop(Top)

EndOfDirectory ==
  /\ pc = "read"
  /\ Top.listed \subseteq Top.seen
  /\ SetTop([Top EXCEPT !.result = 0])
  /\ pc' = "close"
  /\ UNCHANGED <<req, fs, args, writing, ret, faults, missed>>

-----------------------------------------------------------------------------
(* copy_file_exact, CopyFileW: an existing file is truncated, a missing    *)
(* one is created.  CopyFileW gives both the attributes of the source, at  *)
(* some time before it returns; open gives a new one what umask leaves.    *)
Source(t) == Stat(t, args.from)
Overwritten(t) ==
  {p \in {Stat(t, args.to).at} :
     /\ Is(t, Source(t), "file")
     /\ Is(t, Stat(t, args.to), "file")
     /\ p # Source(t).at
     /\ t[p].mode = "rw"}
Created(t) ==
  {p \in NewPlace(t, args.to, Writable) : Is(t, Source(t), "file")}

ModeOf(p) == fs[p].mode
OpenOver ==
  /\ pc = "file"
  /\ \E p \in Overwritten(fs) :
       /\ \E mode \in {ModeOf(p)} \cup (IF Linux THEN {} ELSE {ModeOf(Source(fs).at)}) :
            fs' = WithFile(fs, p, Torn, mode)
       /\ writing' = [place |-> p, created |-> FALSE, source |-> Source(fs).at]
  /\ pc' = "write"
  /\ UNCHANGED <<req, stack, args, ret, faults, missed>>

OpenNew ==
  /\ pc = "file"
  /\ \E p \in Created(fs) :
       /\ fs' = With(fs, p, File(Torn, Masked(ModeOf(Source(fs).at))))
       /\ writing' = [place |-> p, created |-> TRUE, source |-> Source(fs).at]
  /\ pc' = "write"
  /\ UNCHANGED <<req, stack, args, ret, faults, missed>>

(* copy_file_exact opens before it asks what it has opened: a pipe lets it *)
(* wait until someone writes to it, perhaps for ever, and is then refused. *)
Blocks == Linux /\ Is(fs, Source(fs), "pipe")
OpenPipe ==
  /\ pc = "file"
  /\ Blocks
  /\ Return(stack, -1)
  /\ UNCHANGED <<req, fs, args, writing, faults, missed>>

OpenFails ==
  /\ pc = "file"
  /\ ~Blocks
  /\ \/ (Overwritten(fs) \cup Created(fs) = {} /\ UNCHANGED faults)
     \/ Fault
  /\ Return(stack, -1)
  /\ UNCHANGED <<req, fs, args, writing, missed>>

Written ==
  /\ pc = "write"
  /\ fs' = WithFile(fs, writing.place, fs[writing.source].data,
                    ModeOf(IF Linux THEN writing.place ELSE writing.source))
  /\ writing' = NoFile
  /\ Return(stack, 0)
  /\ UNCHANGED <<req, args, faults, missed>>

(* A failing sendfile or close.  What was created is removed again; on     *)
(* Windows that is up to CopyFileW.                                        *)
WriteFailsLeaving ==                        \* mutant: no unlink
  /\ pc = "write"
  /\ Fault
  /\ writing' = NoFile
  /\ Return(stack, -1)
  /\ UNCHANGED <<req, fs, args, missed>>

WriteFails ==
  /\ pc = "write"
  /\ Fault
  /\ \/ writing.created /\ fs' = Without(fs, writing.place)
     \/ (~writing.created \/ Windows) /\ UNCHANGED fs
  /\ writing' = NoFile
  /\ Return(stack, -1)
  /\ UNCHANGED <<req, args, missed>>

-----------------------------------------------------------------------------
(* The end of copy_dir_exact: the permissions of the source, and away with *)
(* a directory that was made for nothing.                                  *)
Restored(mode) ==
  IF Top.created /\ Linux
  THEN [fs EXCEPT ![Top.place] = Dir(mode)] ELSE fs

CleanedAlways(t, result) ==                 \* mutant: also one that existed
  IF result # 0 /\ Entries(t, Top.place) = {} THEN Without(t, Top.place) ELSE t
Cleaned(t, result) ==
  IF Top.created /\ result # 0 /\ Entries(t, Top.place) = {}
  THEN Without(t, Top.place) ELSE t

CloseDirectory ==
  /\ pc = "close"
  /\ fs' = Cleaned(Restored(fs[Top.at].mode), Top.result)
  /\ Return(Front(stack), Top.result)
  /\ UNCHANGED <<req, args, writing, faults, missed>>

(* closedir or the last chmod fails. *)
CloseFails ==
  /\ pc = "close"
  /\ Linux
  /\ Fault
  /\ \E mode \in {fs[Top.at].mode, "open"} :
       fs' = Cleaned(Restored(mode), -1)
  /\ Return(Front(stack), -1)
  /\ UNCHANGED <<req, args, writing, missed>>

-----------------------------------------------------------------------------
Step ==
  \/ CopyDir \/ CopyFile \/ RefuseCopy
  \/ EnterExisting \/ EnterNew \/ EnterNewFails \/ EnterNowhere \/ EnterFails
  \/ \E n \in Name : \/ ReadDirectory(n) \/ ReadFile(n)
                     \/ ReadOther(n) \/ ReadUnreachable(n)
  \/ ReadFails \/ EndOfDirectory
  \/ OpenOver \/ OpenNew \/ OpenFails \/ Written \/ WriteFails
  \/ CloseDirectory \/ CloseFails

Next == Step \/ OpenPipe

(* One process that nothing stops but a pipe: no one has to write to it. *)
Spec == Init /\ [][Next]_vars /\ WF_vars(Step)

-----------------------------------------------------------------------------
Frames == [from : Path, to : Path, at : Path, place : Path,
           created : BOOLEAN, result : {-1, 0},
           listed : SUBSET Name, seen : SUBSET Name]

IsOf(kind, p) == p \in DOMAIN fs /\ fs[p].kind = kind

(* What is open is there: the two directories of every frame, the file     *)
(* that is read and the one that is written.                               *)
TypeOK ==
  /\ req \in Requests
  /\ DOMAIN fs \subseteq Path
  /\ \A p \in DOMAIN fs : fs[p] \in Node
  /\ pc \in {"request", "enter", "read", "file", "write", "close", "done"}
  /\ stack \in Seq(Frames)
  /\ pc \in {"read", "close"} => stack # <<>>
  /\ \A i \in DOMAIN stack :
       IsOf("dir", stack[i].at) /\ IsOf("dir", stack[i].place)
  /\ args \in [from : Path, to : Path]
  /\ writing \in [place : Path, created : BOOLEAN, source : Path]
  /\ pc = "write" => IsOf("file", writing.place) /\ IsOf("file", writing.source)
  /\ ret \in {-1, 0}
  /\ faults \in 0 .. MaxFaults
  /\ missed \in BOOLEAN

(* What there is below a path, links followed: the path itself is <<>>. *)
Relative == UNION {[1 .. k -> Name] : k \in 0 .. MaxPath}
Below(t, p) == {r \in Relative : Stat(t, p \o r).error = "none"}

SameNode(from, q) ==
  /\ Stat(fs, q).error = "none"
  /\ LET to == fs[Stat(fs, q).at]
     IN  /\ to.kind = from.kind
         /\ from.kind = "file" => to.data = from.data
         /\ Linux /\ Stat(fs, q).at \notin DOMAIN req.tree =>
              to.mode = IF from.kind = "file" THEN Masked(from.mode) ELSE from.mode
SameAt(p, q) ==
  LET from == req.tree[Stat(req.tree, p).at]
  IN  \/ SameNode(from, q)
      \/ Windows /\ from.kind = "dir" /\ HasDirectoryAttribute(fs, q)

Complete ==
  \E p \in Destination(req.tree) :
    \A r \in Below(req.tree, req.from) : SameAt(req.from \o r, p \o r)

(* Links in the destination lead two copies to one file or to one directory *)
(* that is new, or a copy to a file that is a source as well.  Nothing      *)
(* checks for that.                                                        *)
TwoNames ==
  \E q \in Destination(req.tree) :
    \E r, s \in Below(fs, req.from) :
      /\ r # s
      /\ Stat(fs, q \o r).error = "none"
      /\ \/ /\ Stat(fs, q \o r) = Stat(fs, q \o s)
            /\ \/ IsOf("file", Stat(fs, q \o r).at)
               \/ Stat(fs, q \o r).at \notin DOMAIN req.tree
         \/ /\ Stat(fs, q \o r) = Stat(fs, req.from \o s)
            /\ IsOf("file", Stat(fs, q \o r).at)

(***************************************************************************)
(* A copy that reports success is complete: every file and directory below *)
(* the source, links followed, is below the destination with the same      *)
(* content, and on Linux with the permissions that umask leaves to it      *)
(* where it is new (oslinux.c:264-368, oswindows.c:447-520); on Windows an *)
(* empty directory also counts as copied to a directory link that leads    *)
(* nowhere (oswindows.c:463).  This leaves out destinations                *)
(* in which two names are one file or one new directory, and on Linux runs *)
(* in which an entry could not be read or reached after another entry of   *)
(* its directory had been copied, see CopyComplete.                        *)
(***************************************************************************)
CompleteUnlessMissed ==
  Copying /\ pc = "done" /\ ret = 0 /\ ~missed => Complete \/ TwoNames

(***************************************************************************)
(* os.h:49-50: "Copy one directory tree. ... Return 0 on success and -1 on *)
(* failure."                                                               *)
(***************************************************************************)
CopyComplete == Copying /\ pc = "done" /\ ret = 0 => Complete

(***************************************************************************)
(* However the call ends on Linux, a file that it created is complete: a   *)
(* failing transfer or close takes the file away again, and no other file, *)
(* oslinux.c:240-246.  Only a file that it went on to write over, under a  *)
(* second name, may be left half written.                                  *)
(***************************************************************************)
NothingHalf ==
  Copying /\ pc = "done" /\ Linux =>
    \A p \in DOMAIN fs \ DOMAIN req.tree :
      fs[p].kind = "file" => fs[p].data # Torn \/ TwoNames

(***************************************************************************)
(* "never roll back copied or prior content" (oslinux.c:362): what was     *)
(* there before the call is there at any moment and of the same kind; only *)
(* files are written over, none that is read-only, and only on Windows     *)
(* may one become read-only by that (CopyFileW, oswindows.c:120).          *)
(***************************************************************************)
PriorStays ==
  \A p \in DOMAIN req.tree :
    /\ p \in DOMAIN fs
    /\ fs[p].kind = req.tree[p].kind
    /\ fs[p] # req.tree[p] =>
         /\ fs[p].kind = "file" /\ req.tree[p].mode = "rw"
         /\ Linux => fs[p].mode = "rw"
PriorKept == Copying => PriorStays

(***************************************************************************)
(* What a copy has made or changed is the counterpart of something below   *)
(* the source: nothing else is touched, in the destination or elsewhere,   *)
(* also when links lead out of the source or of the destination.           *)
(***************************************************************************)
Changed == {p \in DOMAIN fs : p \notin DOMAIN req.tree \/ fs[p] # req.tree[p]}
OnlyCounterparts ==
  Copying => \A p \in Changed :
    \E q \in Destination(req.tree) : \E r \in Below(fs, req.from) :
      /\ Stat(fs, q \o r) = Found(p)
      /\ fs[Stat(fs, req.from \o r).at].kind = fs[p].kind

(***************************************************************************)
(* A copy does not read a directory that it has made itself, except where  *)
(* the check against copying into itself (oslinux.c:447-466,               *)
(* oswindows.c:594) does not look: it resolves two paths, compares them on *)
(* Windows as they are written, and asks only whether the destination is   *)
(* below the source.  The source may be below the destination; a link      *)
(* below the source or below the destination may lead from one to the      *)
(* other; on Windows so may one in the two paths.                          *)
(***************************************************************************)
SourcePlace == Stat(req.tree, req.from).at
Unchecked(q, p) ==
  \/ \E c \in Canonical(req.tree, q) : IsPrefix(c, p)
  \/ IsPrefix(SourcePlace, p)
  \/ Windows /\ (IsPrefix(p, q) \/ IsPrefix(p, req.from))
Astray ==
  \E q \in Destination(req.tree) :
    \/ \E c \in Canonical(req.tree, q) : IsPrefix(c, SourcePlace)
    \/ \E p \in DOMAIN req.tree : req.tree[p].kind = "link" /\ Unchecked(q, p)
NotIntoItself ==
  (\E i \in DOMAIN stack : stack[i].at \notin DOMAIN req.tree) => Astray

(***************************************************************************)
(* Every copy of a tree ends, also when links make it endless: the kernel  *)
(* stops at so many links and at so long a path; a pipe in it is refused   *)
(* unopened (oslinux.c:331-342).  cp of one file ends unless it is a pipe, *)
(* opened before it is refused, to which no one writes (oslinux.c:187).    *)
(***************************************************************************)
Waiting == pc = "file" /\ stack = <<>> /\ Blocks
Terminates == <>(pc = "done" \/ Waiting)
=============================================================================
