---------------------------- MODULE FileCommands ----------------------------
(***************************************************************************)
(* The file commands of shell.lua other than cp: rm, mkdir, touch and the  *)
(* predicates of test, with the functions of both back ends they call.     *)
(* One command runs to its end in the tree of CopyTree, and it may as well *)
(* be a copy.  Meanwhile other processes create and remove entries.        *)
(*                                                                         *)
(* A command has one operand (req.from); shell.lua goes through several    *)
(* one after the other and stops at the first that fails.  -1 stands for   *)
(* the exit status 1 and for the error that a listing raises.              *)
(***************************************************************************)
EXTENDS CopyTree, Timestamp

CONSTANTS Empty,      \* the content of a new file
          MaxOthers   \* changes other processes make during one command

ASSUME CommandsAssumption == Empty \in Content /\ MaxOthers \in Nat

\* The digits that touch -t takes apart, shell.lua:214-244.  The clock shows
\* a year of four digits.
TouchDates ==
  {d \in [digits : {8, 10, 12}, year : Nat, month : Nat, day : Nat,
          hour : Nat, minute : Nat, second : Nat] :
     d.year < IF d.digits = 10 THEN 100 ELSE 10000}
ASSUME DatesAssumption ==
  /\ LinuxFields(Now).year \in Nat /\ LinuxFields(Now).year < 10000
  /\ \A r \in Requests :
       r.call = "touch" /\ "t" \in r.options => r.date \in TouchDates

VARIABLES at,       \* idle, look, unlink, list, next, mkdir, exists,
                    \* rmdir, touch, open, create, stamp
          path,     \* the operand of the next call
          frames,   \* rm -r: [path, todo], the innermost last
          time,     \* touch -t: the time its date stands for
          missing,  \* places that passed for missing when lstat failed
          stamped,  \* places whose time is the one the command set
          theirs    \* places that others have changed

copied == <<req, stack, args, writing, missed>>
own == <<at, path, frames, time, missing, stamped, theirs>>
allVars == <<vars, own>>

Option(o) == o \in req.options
Dated == req.call = "touch" /\ Option("t")

CommandsInit ==
  /\ Init
  /\ at = "idle"
  /\ path = req.from
  /\ frames = <<>>
  /\ time = 0
  /\ missing = {}
  /\ stamped = {}
  /\ theirs = {}

Finish(value) == pc' = "done" /\ ret' = value /\ at' = "idle"
Go(where) == at' = where /\ UNCHANGED <<pc, ret>>

(* A call of remove_path returns to the one that has the frames s. *)
Back(s, value) ==
  /\ frames' = s
  /\ IF s = <<>> \/ value # 0 THEN Finish(value) ELSE Go("next")

Prefix(n) == SubSeq(req.from, 1, n)

(* What the date of touch -t stands for; nothing is an invalid date. *)
TimesOf(date) ==
  IF ~InRange(Fields(date)) THEN {}
  ELSE IF Linux THEN LinuxTime(Fields(date)) ELSE WindowsTime(Fields(date))

InvalidDate ==
  /\ pc = "request" /\ at = "idle"
  /\ Dated /\ TimesOf(req.date) = {}
  /\ Finish(-1)
  /\ UNCHANGED <<copied, fs, faults, path, frames, time, missing, stamped, theirs>>

Begin ==
  /\ pc = "request" /\ at = "idle"
  /\ IF Dated THEN time' \in TimesOf(req.date) ELSE UNCHANGED time
  /\ \/ req.call = "rm" /\ Go("look")
     \/ req.call = "mkdir" /\ Go("mkdir")
     \/ req.call = "touch" /\ Go(IF Option("c") THEN "look" ELSE "touch")
  /\ path' = IF req.call = "mkdir" /\ Option("p") THEN Prefix(1) ELSE req.from
  /\ UNCHANGED <<copied, fs, faults, frames, missing, stamped, theirs>>

-----------------------------------------------------------------------------
(* os_path_type: a link is itself, never what it leads to. *)
PathTypeFollowing(t, p) ==                  \* mutant: stat for lstat
  CASE Stat(t, p).error # "none" -> "missing"
    [] Is(t, Stat(t, p), "dir") -> "directory"
    [] Is(t, Stat(t, p), "file") -> "file"
    [] OTHER -> "leaf"
PathType(t, p) ==
  CASE Lstat(t, p).error # "none" -> "missing"
    [] Is(t, Lstat(t, p), "dir") -> "directory"
    [] Is(t, Lstat(t, p), "file") -> "file"
    [] OTHER -> "leaf"

LookMissing ==
  /\ at = "look"
  /\ \/ PathType(fs, path) = "missing" /\ UNCHANGED <<faults, missing>>
     \/ /\ PathType(fs, path) # "missing" /\ Fault
        /\ missing' = missing \cup {Lstat(fs, path).at}
  /\ IF req.call = "touch" THEN Finish(0) /\ UNCHANGED frames
     ELSE Back(frames, IF Option("f") THEN 0 ELSE -1)
  /\ UNCHANGED <<copied, fs, path, time, stamped, theirs>>

Look ==
  /\ at = "look"
  /\ LET type == PathType(fs, path)
     IN  /\ type # "missing"
         /\ IF req.call = "touch" THEN Go("touch")
            ELSE IF type # "directory" THEN Go("unlink")
            ELSE IF Option("r") THEN Go("list") ELSE Finish(-1)
  /\ UNCHANGED <<copied, fs, faults, path, frames, time, missing, stamped, theirs>>

(* os_remove_file and os_remove_dir: what DeleteFileW or RemoveDirectoryW, *)
(* unlink or rmdir takes away.                                             *)
Leaf(t, p) == \/ t[p].kind # "dir"
              \/ Windows /\ Entries(t, p) = {}
Protected(t, p) ==
  IF Linux THEN t[Front(p)].mode \notin Writable
  ELSE t[p].kind \in {"dir", "file"} /\ t[p].mode = "ro"

DeletedOnly(t) ==                           \* mutant: DeleteFileW for all
  {p \in {Lstat(t, path).at} :
     /\ Lstat(t, path).error = "none"
     /\ Leaf(t, p) /\ ~Protected(t, p)
     /\ Windows => ~HasDirectoryAttribute(t, path)}
Deleted(t) ==
  {p \in {Lstat(t, path).at} :
     /\ Lstat(t, path).error = "none"
     /\ Leaf(t, p) /\ ~Protected(t, p)}
DeletedDir(t) ==
  {p \in {Lstat(t, path).at} :
     /\ IF Linux THEN Is(t, Lstat(t, path), "dir")
        ELSE HasDirectoryAttribute(t, path)
     /\ Entries(t, p) = {}
     /\ p # <<>> /\ ~Protected(t, p)}

Unlink ==
  /\ at = "unlink"
  /\ \E p \in Deleted(fs) : fs' = Without(fs, p)
  /\ Back(frames, 0)
  /\ UNCHANGED <<copied, faults, path, time, missing, stamped, theirs>>

UnlinkFails ==
  /\ at = "unlink"
  /\ (Deleted(fs) = {} /\ UNCHANGED faults) \/ Fault
  /\ Back(frames, -1)
  /\ UNCHANGED <<copied, fs, path, time, missing, stamped, theirs>>

-----------------------------------------------------------------------------
(* get_dir_cache of the directory, in one step (DirCache has its reads).   *)
(* Linux asks about what an entry leads to: an entry that leads nowhere is *)
(* left out, one that leads round and round fails the whole listing.       *)
EntryAt(t, p) == IF Linux THEN StatAt(t, Front(p), Last(p)) ELSE Found(p)

Opened(t) == Is(t, Stat(t, path), "dir")
Names(t) == Entries(t, Stat(t, path).at)
Entry(t, n) == EntryAt(t, Append(Stat(t, path).at, n))
Listed(t) == {n \in Names(t) : Entry(t, n).error # "ENOENT"}
Listable(t) ==
  \A n \in Names(t) :
    /\ Entry(t, n).error \in {"none", "ENOENT"}
    /\ Entry(t, n).at \notin req.future

List ==
  /\ at = "list"
  /\ Opened(fs) /\ Listable(fs)
  /\ frames' = Append(frames, [path |-> path, todo |-> Listed(fs)])
  /\ Go("next")
  /\ UNCHANGED <<copied, fs, faults, path, time, missing, stamped, theirs>>

ListFails ==
  /\ at = "list"
  /\ (~(Opened(fs) /\ Listable(fs)) /\ UNCHANGED faults) \/ Fault
  /\ Finish(-1)
  /\ UNCHANGED <<copied, fs, path, frames, time, missing, stamped, theirs>>

NextEntry(n) ==
  /\ at = "next"
  /\ n \in Last(frames).todo
  /\ path' = Append(Last(frames).path, n)
  /\ frames' = [frames EXCEPT ![Len(frames)].todo = @ \ {n}]
  /\ Go("look")
  /\ UNCHANGED <<copied, fs, faults, time, missing, stamped, theirs>>

(* The entries are gone: os_remove_dir of the directory itself. *)
EndOfEntries ==
  /\ at = "next"
  /\ Last(frames).todo = {}
  /\ path' = Last(frames).path
  /\ Go("rmdir")
  /\ UNCHANGED <<copied, fs, faults, frames, time, missing, stamped, theirs>>

Rmdir ==
  /\ at = "rmdir"
  /\ \E p \in DeletedDir(fs) : fs' = Without(fs, p)
  /\ Back(Front(frames), 0)
  /\ UNCHANGED <<copied, faults, path, time, missing, stamped, theirs>>

RmdirFails ==
  /\ at = "rmdir"
  /\ (DeletedDir(fs) = {} /\ UNCHANGED faults) \/ Fault
  /\ Finish(-1)
  /\ UNCHANGED <<copied, fs, path, frames, time, missing, stamped, theirs>>

-----------------------------------------------------------------------------
(* os_mkdir: 0 created, 1 existed, 2 failed.  lua_os_mkdir calls it for    *)
(* every prefix of the operand with -p.                                    *)
Made(result) ==
  IF ~Option("p") THEN Finish(IF result = 0 THEN 0 ELSE -1) /\ UNCHANGED path
  ELSE IF result = 2 THEN Finish(-1) /\ UNCHANGED path
  ELSE IF path = req.from THEN Finish(0) /\ UNCHANGED path
  ELSE path' = Prefix(Len(path) + 1) /\ Go("mkdir")

Mkdir ==
  /\ at = "mkdir"
  /\ \E p \in NewPlace(fs, path, Writable) : fs' = With(fs, p, Dir(Masked("rw")))
  /\ Made(0)
  /\ UNCHANGED <<copied, faults, frames, time, missing, stamped, theirs>>

(* EEXIST, ERROR_ALREADY_EXISTS: is it a directory? *)
MkdirCollides ==
  /\ at = "mkdir"
  /\ Lstat(fs, path).error = "none"
  /\ Go("exists")
  /\ UNCHANGED <<copied, fs, faults, path, frames, time, missing, stamped, theirs>>

MkdirFails ==
  /\ at = "mkdir"
  /\ \/ /\ NewPlace(fs, path, Writable) = {}
        /\ Lstat(fs, path).error # "none"
        /\ UNCHANGED faults
     \/ Fault
  /\ Made(2)
  /\ UNCHANGED <<copied, fs, frames, time, missing, stamped, theirs>>

ExistedAsAny == 1                           \* mutant: no dir_exists
Existed == IF IsDirectory(fs, path) THEN 1 ELSE 2

MkdirExists ==
  /\ at = "exists"
  /\ Made(Existed)
  /\ UNCHANGED <<copied, fs, faults, frames, time, missing, stamped, theirs>>

-----------------------------------------------------------------------------
(* os_touch on Linux: the time is set; where nothing is a file is made, by *)
(* O_CREAT at the end of the links if there are some.                      *)
LedTo[n \in 0 .. MaxLinks] ==
  IF n = 0 THEN path
  ELSE LET p == LedTo[n - 1]
       IN  IF Linux /\ Is(fs, Lstat(fs, p), "link")
           THEN fs[Lstat(fs, p).at].target ELSE p
NewFile == NewPlace(fs, LedTo[MaxLinks], Writable)
Creation(p) == With(fs, p, File(Empty, Masked("rw")))
OldFile ==
  {p \in {Stat(fs, path).at} :
     /\ Stat(fs, path).error = "none"
     /\ fs[p].kind # "dir"
     /\ Linux /\ fs[p].kind = "file" => fs[p].mode = "rw"}

Stamp ==
  /\ at \in {"touch", "stamp"} /\ Linux
  /\ Stat(fs, path).error = "none"
  /\ stamped' = stamped \cup {Stat(fs, path).at}
  /\ Finish(0)
  /\ UNCHANGED <<copied, fs, faults, path, frames, time, missing, theirs>>

StampMissing ==
  /\ at = "touch" /\ Linux
  /\ Stat(fs, path).error = "ENOENT"
  /\ Go("create")
  /\ UNCHANGED <<copied, fs, faults, path, frames, time, missing, stamped, theirs>>

StampFails ==
  /\ Linux
  /\ \/ /\ \/ at = "touch" /\ Stat(fs, path).error \notin {"none", "ENOENT"}
           \/ at = "stamp" /\ Stat(fs, path).error # "none"
        /\ UNCHANGED faults
     \/ at \in {"touch", "stamp"} /\ Fault
  /\ Finish(-1)
  /\ UNCHANGED <<copied, fs, path, frames, time, missing, stamped, theirs>>

Create ==
  /\ at = "create" /\ Linux
  /\ \/ \E p \in NewFile :
          /\ fs' = Creation(p)
          /\ stamped' = IF Option("t") THEN stamped ELSE stamped \cup {p}
     \/ OldFile # {} /\ UNCHANGED <<fs, stamped>>
  /\ IF Option("t") THEN Go("stamp") ELSE Finish(0)
  /\ UNCHANGED <<copied, faults, path, frames, time, missing, theirs>>

(* What fails may be close or SetFileTime: the new file stays.             *)
CreateFails ==
  /\ at = "create"
  /\ \/ NewFile \cup OldFile = {} /\ UNCHANGED <<fs, faults>>
     \/ Fault /\ UNCHANGED fs
     \/ Fault /\ \E p \in NewFile : fs' = Creation(p)
  /\ Finish(-1)
  /\ UNCHANGED <<copied, path, frames, time, missing, stamped, theirs>>

(* os_touch on Windows: whether something has the name decides how it is   *)
(* opened, OPEN_EXISTING or OPEN_ALWAYS; the time is set on the open file. *)
(* timestamp_to_filetime has nothing to refuse: see WindowsTime.           *)
SetTime(p) == Finish(0) /\ stamped' = stamped \cup {p}

Attributes ==
  /\ at = "touch" /\ Windows
  /\ Go(IF Lstat(fs, path).error = "none" THEN "open" ELSE "create")
  /\ UNCHANGED <<copied, fs, faults, path, frames, time, missing, stamped, theirs>>

OpenAlways ==
  /\ at = "create" /\ Windows
  /\ \/ \E p \in NewFile : fs' = Creation(p) /\ SetTime(p)
     \/ \E p \in OldFile : SetTime(p) /\ UNCHANGED fs
  /\ UNCHANGED <<copied, faults, path, frames, time, missing, theirs>>

OpenExisting ==
  /\ at = "open"
  /\ Stat(fs, path).error = "none"
  /\ SetTime(Stat(fs, path).at)
  /\ UNCHANGED <<copied, fs, faults, path, frames, time, missing, theirs>>

OpenExistingFails ==
  /\ at = "open"
  /\ (Stat(fs, path).error # "none" /\ UNCHANGED faults) \/ Fault
  /\ Finish(-1)
  /\ UNCHANGED <<copied, fs, path, frames, time, missing, stamped, theirs>>

-----------------------------------------------------------------------------
(* test -e, -f, -d, -s, -r and -w.  Only the size is asked with stat, and   *)
(* only on Linux.                                                          *)
Sized(t, p) == LET found == IF Linux THEN Stat(t, p) ELSE Lstat(t, p)
               IN  Is(t, found, "file") /\ t[found.at].data # Empty
Readable(t, p) == Is(t, Lstat(t, p), "file")
Changeable(t, p) == Readable(t, p) /\ t[Lstat(t, p).at].mode = "rw"

Predicate(t, p) ==
  \/ Option("e") /\ PathType(t, p) # "missing"
  \/ Option("f") /\ PathType(t, p) = "file"
  \/ Option("d") /\ PathType(t, p) = "directory"
  \/ Option("s") /\ Sized(t, p)
  \/ Option("r") /\ Readable(t, p)
  \/ Option("w") /\ Changeable(t, p)

Test ==
  /\ pc = "request" /\ req.call = "test"
  /\ Finish(IF Predicate(fs, req.from) THEN 0 ELSE -1)
  /\ UNCHANGED <<copied, fs, faults, path, frames, time, missing, stamped, theirs>>

-----------------------------------------------------------------------------
(* Other processes, while a command runs. *)
Room == at # "idle" /\ Cardinality(theirs) < MaxOthers

OthersCreate ==
  /\ Room
  /\ \E d \in DOMAIN fs, n \in Name :
       /\ fs[d].kind = "dir" /\ Append(d, n) \notin DOMAIN fs
       /\ fs' = With(fs, Append(d, n), File(Empty, "rw"))
       /\ theirs' = theirs \cup {Append(d, n)}
  /\ UNCHANGED <<copied, pc, ret, faults, at, path, frames, time, missing, stamped>>

OthersRemove ==
  /\ Room
  /\ \E p \in DOMAIN fs \ {<<>>} :
       /\ Entries(fs, p) = {}
       /\ fs' = Without(fs, p)
       /\ theirs' = theirs \cup {p}
  /\ UNCHANGED <<copied, pc, ret, faults, at, path, frames, time, missing, stamped>>

Command ==
  \/ InvalidDate \/ Begin \/ Test
  \/ LookMissing \/ Look \/ Unlink \/ UnlinkFails
  \/ List \/ ListFails \/ EndOfEntries \/ Rmdir \/ RmdirFails
  \/ \E n \in Name : NextEntry(n)
  \/ Mkdir \/ MkdirCollides \/ MkdirFails \/ MkdirExists
  \/ Stamp \/ StampMissing \/ StampFails \/ Create \/ CreateFails
  \/ Attributes \/ OpenAlways \/ OpenExisting \/ OpenExistingFails

Copy == Next /\ UNCHANGED own

CommandsNext == Copy \/ Command \/ OthersCreate \/ OthersRemove

(* One process that nothing stops but a pipe; others may do nothing. *)
CommandsSpec ==
  /\ CommandsInit /\ [][CommandsNext]_allVars
  /\ WF_allVars((Step /\ UNCHANGED own) \/ Command)

-----------------------------------------------------------------------------
Done(call) == pc = "done" /\ req.call = call

(* Where the operand was, and what is below it without following links. *)
Named == Lstat(req.tree, req.from).at
Under(p) == Lstat(req.tree, req.from).error = "none" /\ IsPrefix(Named, p)

(***************************************************************************)
(* A command that reports success has done what it says, and no step of it *)
(* failed unheard (shell.lua:518-650): after rm nothing is left of what    *)
(* the operand named, after mkdir there is a directory, or on Windows a    *)
(* link (dir_exists does not ask where it leads, oswindows.c:191-196),     *)
(* after touch what the operand leads to has the time, and what test finds *)
(* to be a file of some kind can be reached.  Left out are an operand that *)
(* lstat could not tell about or that others have taken the way to, and a  *)
(* file that others have made or removed under the hands of touch.         *)
(***************************************************************************)
SuccessMeansDone ==
  ret = 0 =>
    /\ Done("rm") /\ (\E p \in DOMAIN fs : Under(p)) =>
         \/ Named \in missing
         \/ theirs # {} /\ Lstat(fs, req.from).error # "none"
    /\ Done("mkdir") => \/ Is(fs, Stat(fs, req.from), "dir")
                        \/ Windows /\ Is(fs, Lstat(fs, req.from), "link")
    /\ Done("touch") =>
         \/ Stat(fs, req.from).error = "none" /\ Stat(fs, req.from).at \in stamped
         \/ Option("c") /\ (Lstat(fs, req.from).error # "none" \/ missing # {})
         \/ theirs # {}
    /\ Done("test") /\ ~Option("e") => Stat(fs, req.from).error = "none"

(***************************************************************************)
(* touch -t sets the date it was given, in local time: read back, the file *)
(* has these fields, in the year that the digits mean (shell.lua:214-253,  *)
(* oslinux.c:48-92, oswindows.c:250-315).  It must be a date that exists,  *)
(* and that the clocks have shown.                                         *)
(***************************************************************************)
LocalFields(t) == IF Linux THEN LinuxFields(t) ELSE WindowsFields(t)
YearMeant(date, year) ==
  CASE date.digits = 8 -> year = LocalFields(Now).year
    [] date.digits = 10 -> year % 100 = date.year /\ year \in 1969 .. 2068
    [] date.digits = 12 -> year = date.year
DateKept ==
  Done("touch") /\ ret = 0 /\ Option("t") =>
    LET f == Fields(req.date)
        g == LocalFields(time)
    IN  Exists(f) /\ Shown(Seconds(f)) # {} =>
          /\ YearMeant(req.date, g.year)
          /\ \A field \in DOMAIN f \ {"year"} : g[field] = req.date[field]

(***************************************************************************)
(* rm -rf fails only for a cause outside of what it did so far: a system   *)
(* call that failed, a change by others, or something that was below its   *)
(* operand from the start and stands in its way.  That is a permission, a  *)
(* time in the future, or a path that gets too long; and because rm goes   *)
(* by names and, on Linux, lists what links lead to (shell.lua:532,        *)
(* oslinux.c:630), an operand or a link below it that leads nowhere, or    *)
(* through something that rm may have removed when it comes to the name.   *)
(***************************************************************************)
NameOf(p) == req.from \o SubSeq(p, Len(Named) + 1, Len(p))

(* The least that is left of the tree when rm removes p, and when it lists *)
(* the directory p.                                                        *)
Rest(kept) ==
  [q \in {r \in DOMAIN req.tree : Under(r) => r \in kept} |-> req.tree[q]]
LeftFor(p) == Rest({r \in DOMAIN req.tree : IsPrefix(r, p)})
LeftBelow(p) == Rest({r \in DOMAIN req.tree : IsPrefix(r, p) \/ IsPrefix(p, r)})

Obstacle(p) ==
  \/ p = <<>> \/ Protected(req.tree, p)
  \/ Lstat(LeftFor(p), NameOf(p)).error # "none"
  \/ /\ p # Named
     /\ LET found == EntryAt(LeftBelow(Front(p)), p)
        IN  found.error # "none" \/ found.at \in req.future
RmHasCause ==
  Done("rm") /\ req.options = {"r", "f"} /\ ret # 0 =>
    \/ faults > 0
    \/ theirs # {}
    \/ \E p \in DOMAIN req.tree : Under(p) /\ Obstacle(p)

(***************************************************************************)
(* rm, mkdir and touch make, change and remove nothing but what they name: *)
(* rm removes what is below its operand and crosses no link                *)
(* (shell.lua:515-517); mkdir makes directories on the way to its operand; *)
(* touch makes one empty file at the end of its operand and never changes  *)
(* a content.                                                              *)
(***************************************************************************)
OnlyOperands ==
  ~Copying =>
    /\ \A p \in (Changed \cap DOMAIN fs) \ theirs :
         /\ p \notin DOMAIN req.tree
         /\ \/ req.call = "mkdir" /\ fs[p] = Dir(Masked("rw"))
            \/ req.call = "touch" /\ fs[p] = File(Empty, Masked("rw"))
         /\ \/ theirs # {}
            \/ \E n \in 1 .. Len(req.from) :
                 /\ Stat(fs, Prefix(n)) = Found(p)
                 /\ req.call = "touch" => n = Len(req.from)
    /\ \A p \in (DOMAIN req.tree \ DOMAIN fs) \ theirs :
         req.call = "rm" /\ Under(p)

(***************************************************************************)
(* No command makes, changes or removes anything but what it names; a copy *)
(* stays within the counterparts of its source (oslinux.c:264-368).        *)
(***************************************************************************)
OnlyNamed == OnlyCounterparts /\ OnlyOperands
=============================================================================
